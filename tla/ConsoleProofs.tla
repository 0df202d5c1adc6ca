---------------------------- MODULE ConsoleProofs ----------------------------
(***************************************************************************)
(* The two sides of the admin console. First process control: with one     *)
(* administrator the loop is seen, scans what is switched on and ends at   *)
(* the stop button, for any number of processes, types and settings. What  *)
(* carries it is the pid file: outside of a start, a loop that is not lost *)
(* is the process of the file.                                             *)
(*                                                                         *)
(* Then what the pages show of the runs. Where a run is tells what it went *)
(* through (Path), its row is written at its end and once (RowsInv), and   *)
(* the cursor of the toasts lies between the events the page has had and   *)
(* the one that is not committed yet (ToastInv).                           *)
(***************************************************************************)
EXTENDS ControlProperties, RecordsProperties, FiniteSetTheorems, FunctionTheorems,
        WellFoundedInduction, TLAPS

\* Two administrators can start two loops; the properties are about one.
OneAdministrator == \A q, r \in Requests : q = r

Known == loops \ lost

At(r, points) == requests[r].at \in points

Recording == \E r \in Requests : At(r, {"record"})

StartPoints == {"check", "launch", "record"}
StopPoints  == {"kill", "forget"}
PatchPoints == {"value", "read", "truncate", "dump"}

\* A request; what its body holds is not looked at.
IsRequest(q) ==
    /\ DOMAIN q = {"op", "at", "pid", "types", "todo", "value", "data"}
    /\ \/ q.op = "idle"  /\ q.at = "none"
       \/ q.op = "start" /\ q.at \in StartPoints
       \/ q.op = "stop"  /\ q.at \in StopPoints
       \/ q.op = "patch" /\ q.at \in PatchPoints

TypeOK ==
    /\ spawned \in 0 .. MaxPids
    /\ loops \subseteq 1 .. spawned
    /\ scenarios \subseteq 1 .. spawned
    /\ types \in [Pids -> SUBSET Types]
    /\ handle \in Pids \cup {None}
    /\ pidFile \in Pids \cup {None}
    /\ requests = [r \in Requests |-> requests[r]]
    /\ \A r \in Requests : IsRequest(requests[r])
    /\ live \in {"fresh", "stale"}
    /\ recent \in BOOLEAN

\* The process the server would look at is the loop it knows, if there is one.
FileInv ==
    /\ Known \subseteq IF Recording THEN {handle} ELSE {pidFile}
    /\ handle \in loops => Known \subseteq {handle}

\* What a handler relies on from one of its steps to the next.
HandlerInv(r) ==
    /\ At(r, {"launch"}) => handle \notin loops
    /\ At(r, {"launch", "forget"} \cup PatchPoints) => Known = {}
    /\ At(r, {"kill"}) => Known \subseteq {requests[r].pid}
    /\ At(r, {"check", "launch"}) => requests[r].types = EnabledTypes

\* A loop keeps the types it was started with, and those are the ones switched on.
ScanInv == \A p \in Known : types[p] = EnabledTypes

ControlInv == TypeOK /\ FileInv /\ (\A r \in Requests : HandlerInv(r)) /\ ScanInv

----------------------------------------------------------------------------
(* Requests.                                                               *)

\* The requests that steps make from nothing, and from what they find.
LEMMA FreshRequests ==
    /\ IsRequest(Idle) /\ Idle.op = "idle" /\ Idle.at = "none"
    /\ \A body, S, p :
         LET check  == [Idle EXCEPT !.op = "start", !.at = "check", !.types = S]
             record == [Idle EXCEPT !.op = "start", !.at = "record"]
             kill   == [Idle EXCEPT !.op = "stop", !.at = "kill", !.pid = p]
             forget == [Idle EXCEPT !.op = "stop", !.at = "forget"]
             value  == [Idle EXCEPT !.op = "patch", !.at = "value", !.todo = body]
         IN  /\ IsRequest(check)  /\ check.at = "check" /\ check.types = S
             /\ IsRequest(record) /\ record.at = "record"
             /\ IsRequest(kill)   /\ kill.at = "kill" /\ kill.pid = p
             /\ IsRequest(forget) /\ forget.at = "forget"
             /\ IsRequest(value)  /\ value.at = "value"
<1> DEFINE missing == Missing
<1>1. Idle = [op |-> "idle", at |-> "none", pid |-> None, types |-> {},
              todo |-> missing, value |-> None, data |-> missing]
  BY DEF Idle
<1> HIDE DEF missing
<1>2. IsRequest(Idle) /\ Idle.op = "idle" /\ Idle.at = "none"
  BY <1>1 DEF IsRequest
<1>3. ASSUME NEW S
      PROVE  LET check == [Idle EXCEPT !.op = "start", !.at = "check", !.types = S]
             IN  IsRequest(check) /\ check.at = "check" /\ check.types = S
  BY <1>1 DEF IsRequest, StartPoints
<1>4. LET record == [Idle EXCEPT !.op = "start", !.at = "record"]
      IN  IsRequest(record) /\ record.at = "record"
  BY <1>1 DEF IsRequest, StartPoints
<1>5. ASSUME NEW p
      PROVE  LET kill == [Idle EXCEPT !.op = "stop", !.at = "kill", !.pid = p]
             IN  IsRequest(kill) /\ kill.at = "kill" /\ kill.pid = p
  BY <1>1 DEF IsRequest, StopPoints
<1>6. LET forget == [Idle EXCEPT !.op = "stop", !.at = "forget"]
      IN  IsRequest(forget) /\ forget.at = "forget"
  BY <1>1 DEF IsRequest, StopPoints
<1>7. ASSUME NEW body
      PROVE  LET value == [Idle EXCEPT !.op = "patch", !.at = "value", !.todo = body]
             IN  IsRequest(value) /\ value.at = "value"
  BY <1>1 DEF IsRequest, PatchPoints
<1> QED
  BY <1>2, <1>3, <1>4, <1>5, <1>6, <1>7

LEMMA LaunchRequest ==
    ASSUME NEW q, IsRequest(q), q.op = "start"
    PROVE  LET launch == [q EXCEPT !.at = "launch"]
           IN  IsRequest(launch) /\ launch.at = "launch" /\ launch.types = q.types
BY DEF IsRequest, StartPoints

LEMMA PatchRequest ==
    ASSUME NEW q, IsRequest(q), q.op = "patch"
    PROVE  \A v :
             LET read     == [q EXCEPT !.at = "read", !.value = v]
                 truncate == [q EXCEPT !.at = "truncate", !.data = v]
                 dump     == [q EXCEPT !.at = "dump"]
             IN  /\ IsRequest(read) /\ read.at = "read"
                 /\ IsRequest(truncate) /\ truncate.at = "truncate"
                 /\ IsRequest(dump) /\ dump.at = "dump"
BY DEF IsRequest, PatchPoints

\* The one administrator's request is the only one.
LEMMA OnlyRequest ==
    ASSUME TypeOK, OneAdministrator, NEW r \in Requests, NEW q, Goto(r, q)
    PROVE  /\ requests' = [u \in Requests |-> requests'[u]]
           /\ \A u \in Requests : u = r /\ requests'[u] = q
           /\ Recording' <=> q.at = "record"
           /\ Recording  <=> requests[r].at = "record"
<1>1. requests' = [u \in Requests |-> q]
  BY DEF TypeOK, OneAdministrator, Goto
<1> QED
  BY <1>1 DEF OneAdministrator, Recording, At

\* The types that are switched on are a matter of the policy file.
LEMMA SameEnabled ==
    ASSUME UNCHANGED policy
    PROVE  EnabledTypes' = EnabledTypes
BY DEF EnabledTypes, Resources, Setting

LEMMA EnabledAreTypes == EnabledTypes \in SUBSET Types
BY DEF EnabledTypes

\* A known loop makes is_running answer yes.
LEMMA KnownIsRunning ==
    ASSUME TypeOK, FileInv, ~Recording, ~IsRunning
    PROVE  Known = {} /\ handle \notin loops
<1>1. None \notin loops
  BY ControlAssumption DEF TypeOK, Pids
<1> QED
  BY <1>1 DEF FileInv, Known, IsRunning, OurProcess
----------------------------------------------------------------------------
(* The start button.                                                       *)

LEMMA StartPipelineStep ==
    ASSUME ControlInv, OneAdministrator, NEW r \in Requests, StartPipeline(r)
    PROVE  ControlInv'
<1> DEFINE q == [Idle EXCEPT !.op = "start", !.at = "check", !.types = EnabledTypes]
<1>1. IsRequest(q) /\ q.at = "check" /\ q.types = EnabledTypes
  BY FreshRequests
<1>2. Goto(r, q) /\ UNCHANGED <<processes, handle, pidFile, policy, status, lost>>
  BY DEF StartPipeline
<1>3. ~Recording
  BY OneAdministrator DEF ControlInv, StartPipeline, Recording, At, OneAdministrator,
     TypeOK, IsRequest
<1> HIDE DEF q
<1>4. /\ requests' = [u \in Requests |-> requests'[u]]
      /\ \A u \in Requests : u = r /\ requests'[u] = q
      /\ ~Recording'
  BY <1>1, <1>2, OnlyRequest DEF ControlInv
<1>5. Known' = Known /\ EnabledTypes' = EnabledTypes
  BY <1>2, SameEnabled DEF Known, processes
<1> QED
  BY <1>1, <1>2, <1>3, <1>4, <1>5
     DEF ControlInv, TypeOK, FileInv, HandlerInv, ScanInv, At, processes, status,
         PatchPoints

LEMMA StartCheckStep ==
    ASSUME ControlInv, OneAdministrator, NEW r \in Requests, StartCheck(r)
    PROVE  ControlInv'
<1> DEFINE launch == [requests[r] EXCEPT !.at = "launch"]
           q == IF IsRunning THEN Idle ELSE launch
<1>1. /\ IsRequest(requests[r]) /\ requests[r].op = "start" /\ requests[r].at = "check"
      /\ requests[r].types = EnabledTypes
  BY DEF ControlInv, TypeOK, StartCheck, HandlerInv, At
<1>2. IsRequest(launch) /\ launch.at = "launch" /\ launch.types = EnabledTypes
  BY <1>1, LaunchRequest
<1>3. Goto(r, q) /\ DropDeadHandle /\ UNCHANGED <<processes, pidFile, policy, status, lost>>
  BY DEF StartCheck
<1> HIDE DEF launch
<1>4. /\ IsRequest(q) /\ q.at \in {"none", "launch"}
      /\ q.at = "launch" => ~IsRunning /\ q.types = EnabledTypes
  BY <1>2, FreshRequests
<1> HIDE DEF q
<1>5. /\ requests' = [u \in Requests |-> requests'[u]]
      /\ \A u \in Requests : u = r /\ requests'[u] = q
      /\ ~Recording' /\ ~Recording
  BY <1>1, <1>3, <1>4, OnlyRequest DEF ControlInv
<1>6. Known' = Known /\ EnabledTypes' = EnabledTypes
  BY <1>3, SameEnabled DEF Known, processes
<1>7. ~IsRunning => Known = {} /\ handle \notin loops
  BY <1>5, KnownIsRunning DEF ControlInv
<1>8. None \notin loops
  BY ControlAssumption DEF ControlInv, TypeOK, Pids
<1> QED
  BY <1>3, <1>4, <1>5, <1>6, <1>7, <1>8
     DEF ControlInv, TypeOK, FileInv, HandlerInv, ScanInv, At, processes, status,
         PatchPoints, DropDeadHandle

LEMMA StartLaunchStep ==
    ASSUME ControlInv, OneAdministrator, NEW r \in Requests, StartLaunch(r)
    PROVE  ControlInv'
<1> DEFINE q == [Idle EXCEPT !.op = "start", !.at = "record"]
           p == spawned + 1
<1>1. IsRequest(q) /\ q.at = "record"
  BY FreshRequests
<1>2. /\ Goto(r, q) /\ spawned < MaxPids
      /\ spawned' = p /\ loops' = loops \cup {p} /\ handle' = p
      /\ types' = [types EXCEPT ![p] = requests[r].types]
      /\ live' = "fresh"
      /\ UNCHANGED <<scenarios, pidFile, policy, recent, lost>>
  BY DEF StartLaunch
<1>3. Known = {} /\ requests[r].types = EnabledTypes
  BY DEF ControlInv, HandlerInv, At, StartLaunch
<1>4. p \in Pids /\ spawned \in Nat
  BY <1>2, ControlAssumption DEF ControlInv, TypeOK, Pids
<1> HIDE DEF q
<1>5. /\ requests' = [u \in Requests |-> requests'[u]]
      /\ \A u \in Requests : u = r /\ requests'[u] = q
      /\ Recording'
  BY <1>1, <1>2, OnlyRequest DEF ControlInv
<1>6. Known' \subseteq {p}
  BY <1>2, <1>3 DEF Known
<1>7. EnabledTypes' = EnabledTypes /\ EnabledTypes \in SUBSET Types
  BY <1>2, SameEnabled, EnabledAreTypes
<1>8. types' \in [Pids -> SUBSET Types] /\ types'[p] = EnabledTypes
  BY <1>2, <1>3, <1>4, <1>7 DEF ControlInv, TypeOK
<1>9. TypeOK'
  <2>1. /\ spawned' \in 0 .. MaxPids
        /\ loops' \subseteq 1 .. spawned'
        /\ scenarios' \subseteq 1 .. spawned'
    BY <1>2, <1>4, ControlAssumption DEF ControlInv, TypeOK
  <2> QED
    BY <1>1, <1>2, <1>4, <1>5, <1>8, <2>1 DEF ControlInv, TypeOK
<1> QED
  BY <1>1, <1>2, <1>5, <1>6, <1>7, <1>8, <1>9
     DEF ControlInv, FileInv, HandlerInv, ScanInv, At, PatchPoints

LEMMA StartRecordStep ==
    ASSUME ControlInv, OneAdministrator, NEW r \in Requests, StartRecord(r)
    PROVE  ControlInv'
<1>1. IsRequest(Idle) /\ Idle.at = "none"
  BY FreshRequests
<1>2. /\ Goto(r, Idle) /\ DropDeadHandle
      /\ pidFile' = IF handle = None THEN pidFile ELSE handle
      /\ UNCHANGED <<processes, policy, status, lost>>
  BY DEF StartRecord
<1>3. /\ requests' = [u \in Requests |-> requests'[u]]
      /\ \A u \in Requests : u = r /\ requests'[u] = Idle
      /\ ~Recording' /\ Recording
  BY <1>1, <1>2, OnlyRequest DEF ControlInv, StartRecord
<1>4. None \notin loops
  BY ControlAssumption DEF ControlInv, TypeOK, Pids
<1>5. Known' = Known /\ EnabledTypes' = EnabledTypes
  BY <1>2, SameEnabled DEF Known, processes
<1>6. Known \subseteq {handle} /\ (handle = None => Known = {})
  BY <1>3, <1>4 DEF ControlInv, FileInv, Known
<1> QED
  BY <1>1, <1>2, <1>3, <1>4, <1>5, <1>6
     DEF ControlInv, TypeOK, FileInv, HandlerInv, ScanInv, At, processes, status,
         PatchPoints, DropDeadHandle
----------------------------------------------------------------------------
(* The stop button.                                                        *)

\* A process ends: what is known shrinks, and no other loop's types change.
LEMMA Ended ==
    ASSUME TypeOK, NEW S, End(S)
    PROVE  /\ Known' = Known \ S
           /\ loops' \subseteq loops /\ scenarios' \subseteq scenarios
           /\ types' \in [Pids -> SUBSET Types]
           /\ \A p \in Known' : types'[p] = types[p]
<1>1. Known' = Known \ S
  BY DEF End, Known
<1>2. loops' \subseteq loops /\ scenarios' \subseteq scenarios
  BY DEF End
<1>3. types' \in [Pids -> SUBSET Types]
  BY DEF End, TypeOK
<1>4. Known' \subseteq Pids /\ Known' \cap S = {}
  BY <1>1, ControlAssumption DEF Known, TypeOK, Pids
<1> QED
  BY <1>1, <1>2, <1>3, <1>4 DEF End, TypeOK

LEMMA StopPipelineStep ==
    ASSUME ControlInv, OneAdministrator, NEW r \in Requests, StopPipeline(r)
    PROVE  ControlInv'
<1> DEFINE q == [Idle EXCEPT !.op = "stop", !.at = "kill", !.pid = pidFile]
<1>1. IsRequest(q) /\ q.at = "kill" /\ q.pid = pidFile
  BY FreshRequests
<1>2. Goto(r, q) /\ UNCHANGED <<processes, handle, pidFile, policy, status, lost>>
  BY DEF StopPipeline
<1>3. requests[r].at = "none"
  BY DEF ControlInv, StopPipeline, TypeOK, IsRequest
<1> HIDE DEF q
<1>4. /\ requests' = [u \in Requests |-> requests'[u]]
      /\ \A u \in Requests : u = r /\ requests'[u] = q
      /\ ~Recording' /\ ~Recording
  BY <1>1, <1>2, <1>3, OnlyRequest DEF ControlInv
<1>5. Known' = Known /\ EnabledTypes' = EnabledTypes
  BY <1>2, SameEnabled DEF Known, processes
<1> QED
  BY <1>1, <1>2, <1>4, <1>5
     DEF ControlInv, TypeOK, FileInv, HandlerInv, ScanInv, At, processes, status,
         PatchPoints

LEMMA StopKillStep ==
    ASSUME ControlInv, OneAdministrator, NEW r \in Requests, StopKill(r)
    PROVE  ControlInv' /\ Known' = {}
<1> DEFINE q == [Idle EXCEPT !.op = "stop", !.at = "forget"]
           S == {IF handle \in loops THEN handle ELSE requests[r].pid}
<1>1. IsRequest(q) /\ q.at = "forget"
  BY FreshRequests
<1>2. /\ Goto(r, q) /\ End(S)
      /\ UNCHANGED <<spawned, handle, pidFile, policy, status>>
  BY DEF StopKill
<1>3. Known \subseteq S
  BY DEF ControlInv, StopKill, FileInv, HandlerInv, At
<1> HIDE DEF q, S
<1>4. /\ requests' = [u \in Requests |-> requests'[u]]
      /\ \A u \in Requests : u = r /\ requests'[u] = q
  BY <1>1, <1>2, OnlyRequest DEF ControlInv
<1>5. /\ Known' = {}
      /\ loops' \subseteq loops /\ scenarios' \subseteq scenarios
      /\ types' \in [Pids -> SUBSET Types]
  BY <1>2, <1>3, Ended DEF ControlInv
<1> QED
  BY <1>1, <1>2, <1>4, <1>5
     DEF ControlInv, TypeOK, FileInv, HandlerInv, ScanInv, At, status, PatchPoints

LEMMA StopForgetStep ==
    ASSUME ControlInv, OneAdministrator, NEW r \in Requests, StopForget(r)
    PROVE  ControlInv' /\ Known' = {}
<1>1. IsRequest(Idle) /\ Idle.at = "none"
  BY FreshRequests
<1>2. /\ Goto(r, Idle) /\ handle' = None /\ pidFile' = None
      /\ UNCHANGED <<processes, policy, status, lost>>
  BY DEF StopForget
<1>3. /\ requests' = [u \in Requests |-> requests'[u]]
      /\ \A u \in Requests : u = r /\ requests'[u] = Idle
  BY <1>1, <1>2, OnlyRequest DEF ControlInv
<1>4. Known = {} /\ Known' = Known
  BY <1>2 DEF ControlInv, HandlerInv, At, StopForget, Known, processes
<1> QED
  BY <1>1, <1>2, <1>3, <1>4
     DEF ControlInv, TypeOK, FileInv, HandlerInv, ScanInv, At, processes, status,
         PatchPoints

----------------------------------------------------------------------------
(* PATCH /settings: nothing the server knows of runs.                      *)

LEMMA UpdateSettingsStep ==
    ASSUME ControlInv, OneAdministrator, NEW r \in Requests, NEW body,
           UpdateSettings(r, body)
    PROVE  ControlInv'
<1> DEFINE value == [Idle EXCEPT !.op = "patch", !.at = "value", !.todo = body]
           q == IF IsRunning THEN Idle ELSE value
<1>1. requests[r].at = "none"
  BY DEF ControlInv, UpdateSettings, TypeOK, IsRequest
<1>2. Goto(r, q) /\ DropDeadHandle /\ UNCHANGED <<processes, pidFile, policy, status, lost>>
  BY DEF UpdateSettings
<1>3. /\ IsRequest(q) /\ q.at \in {"none", "value"}
      /\ q.at = "value" => ~IsRunning
  BY FreshRequests
<1> HIDE DEF q
<1>4. /\ requests' = [u \in Requests |-> requests'[u]]
      /\ \A u \in Requests : u = r /\ requests'[u] = q
      /\ ~Recording' /\ ~Recording
  BY <1>1, <1>2, <1>3, OnlyRequest DEF ControlInv
<1>5. Known' = Known /\ EnabledTypes' = EnabledTypes
  BY <1>2, SameEnabled DEF Known, processes
<1>6. ~IsRunning => Known = {} /\ handle \notin loops
  BY <1>4, KnownIsRunning DEF ControlInv
<1>7. None \notin loops
  BY ControlAssumption DEF ControlInv, TypeOK, Pids
<1> QED
  BY <1>2, <1>3, <1>4, <1>5, <1>6, <1>7
     DEF ControlInv, TypeOK, FileInv, HandlerInv, ScanInv, At, processes, status,
         PatchPoints, DropDeadHandle

\* A step of the patch, whatever it does to the file.
LEMMA PatchStep ==
    ASSUME ControlInv, OneAdministrator, NEW r \in Requests,
           requests[r].op = "patch", NEW q, IsRequest(q),
           q.at \in PatchPoints \cup {"none"}, Goto(r, q),
           UNCHANGED <<processes, handle, pidFile, status, lost>>
    PROVE  ControlInv'
<1>1. requests[r].at \in PatchPoints
  BY DEF ControlInv, TypeOK, IsRequest
<1>2. Known = {} /\ Known' = Known
  BY <1>1 DEF ControlInv, HandlerInv, At, Known, processes
<1>3. /\ requests' = [u \in Requests |-> requests'[u]]
      /\ \A u \in Requests : u = r /\ requests'[u] = q
  BY OnlyRequest DEF ControlInv
<1> QED
  BY <1>2, <1>3
     DEF ControlInv, TypeOK, FileInv, HandlerInv, ScanInv, At, processes, status,
         PatchPoints

LEMMA PatchSteps ==
    ASSUME ControlInv, OneAdministrator, NEW r \in Requests,
           SetValue(r) \/ ReadPolicy(r) \/ TruncatePolicy(r) \/ DumpPolicy(r)
    PROVE  ControlInv'
<1>1. IsRequest(requests[r]) /\ requests[r].op = "patch"
  BY DEF ControlInv, TypeOK, SetValue, ReadPolicy, TruncatePolicy, DumpPolicy
<1>2. UNCHANGED <<processes, handle, pidFile, status, lost>>
  BY DEF SetValue, ReadPolicy, TruncatePolicy, DumpPolicy
<1>3. \E q : IsRequest(q) /\ q.at \in PatchPoints \cup {"none"} /\ Goto(r, q)
  <2>1. CASE SetValue(r)
    <3>1. PICK v : Goto(r, [requests[r] EXCEPT !.at = "read", !.value = v])
      BY <2>1, Zenon DEF SetValue
    <3> DEFINE q == [requests[r] EXCEPT !.at = "read", !.value = v]
    <3>2. IsRequest(q) /\ q.at = "read"
      BY <1>1, PatchRequest, Zenon
    <3> HIDE DEF q
    <3> QED
      BY <3>1, <3>2 DEF PatchPoints, q
  <2>2. CASE ReadPolicy(r)
    <3>1. PICK d : Goto(r, [requests[r] EXCEPT !.at = "truncate", !.data = d])
      BY <2>2, Zenon DEF ReadPolicy
    <3> DEFINE q == [requests[r] EXCEPT !.at = "truncate", !.data = d]
    <3>2. IsRequest(q) /\ q.at = "truncate"
      BY <1>1, PatchRequest, Zenon
    <3> HIDE DEF q
    <3> QED
      BY <3>1, <3>2 DEF PatchPoints, q
  <2>3. CASE TruncatePolicy(r)
    <3>1. Goto(r, [requests[r] EXCEPT !.at = "dump"])
      BY <2>3 DEF TruncatePolicy
    <3> QED
      BY <1>1, <3>1, PatchRequest DEF PatchPoints
  <2>4. CASE DumpPolicy(r)
    <3>1. PICK rest :
            Goto(r, IF DOMAIN rest = {} THEN Idle
                    ELSE [Idle EXCEPT !.op = "patch", !.at = "value", !.todo = rest])
      BY <2>4, Zenon DEF DumpPolicy
    <3>2. CASE DOMAIN rest = {}
      BY <3>1, <3>2, FreshRequests
    <3>3. CASE DOMAIN rest # {}
      <4>1. Goto(r, [Idle EXCEPT !.op = "patch", !.at = "value", !.todo = rest])
        BY <3>1, <3>3
      <4> QED
        BY <4>1, FreshRequests DEF PatchPoints
    <3> QED
      BY <3>2, <3>3
  <2> QED
    BY <2>1, <2>2, <2>3, <2>4
<1> QED
  BY <1>1, <1>2, <1>3, PatchStep
----------------------------------------------------------------------------
(* The loop, the scenarios, the server and time.                           *)

\* Steps that change neither a process nor a request.
LEMMA QuietStep ==
    ASSUME ControlInv, OneAdministrator,
           UNCHANGED <<processes, pidFile, policy, requests, lost>>,
           handle' = handle \/ DropDeadHandle,
           live' \in {"fresh", "stale"}, recent' \in BOOLEAN
    PROVE  ControlInv'
<1>1. /\ Known' = Known /\ EnabledTypes' = EnabledTypes
      /\ Recording' = Recording
      /\ \A r \in Requests : requests'[r] = requests[r]
  BY SameEnabled DEF Known, processes, Recording, At
<1>2. None \notin loops
  BY ControlAssumption DEF ControlInv, TypeOK, Pids
<1>3. handle' \in {handle, None} /\ (handle \in loops => handle' = handle)
  BY DEF DropDeadHandle
<1>4. FileInv'
  <2>1. CASE handle' = handle
    BY <1>1, <2>1 DEF ControlInv, FileInv, processes
  <2>2. CASE handle \notin loops
    BY <1>1, <1>2, <1>3, <2>2 DEF ControlInv, FileInv, Known, processes
  <2> QED
    BY <1>3, <2>1, <2>2
<1> QED
  BY <1>1, <1>2, <1>3, <1>4
     DEF ControlInv, TypeOK, HandlerInv, ScanInv, At, processes, PatchPoints

\* Steps in which a loop ends, or one is lost with its pid in the file.
LEMMA LossStep ==
    ASSUME ControlInv, OneAdministrator, UNCHANGED <<handle, policy, requests>>,
           TypeOK', Known' \subseteq Known, loops' \subseteq loops,
           \A p \in Known' : types'[p] = types[p],
           pidFile' = pidFile \/ (~Recording => Known' = {})
    PROVE  ControlInv'
<1>1. /\ EnabledTypes' = EnabledTypes /\ Recording' = Recording
      /\ \A r \in Requests : requests'[r] = requests[r]
  BY SameEnabled DEF Recording, At
<1> QED
  BY <1>1 DEF ControlInv, FileInv, HandlerInv, ScanInv, At, PatchPoints

LEMMA LoopFailsStep ==
    ASSUME ControlInv, OneAdministrator, NEW p \in Pids, LoopFails(p)
    PROVE  ControlInv'
<1>1. /\ End({p})
      /\ UNCHANGED <<spawned, handle, pidFile, policy, requests, status>>
  BY DEF LoopFails
<1>2. /\ Known' \subseteq Known
      /\ loops' \subseteq loops /\ scenarios' \subseteq scenarios
      /\ types' \in [Pids -> SUBSET Types]
      /\ \A u \in Known' : types'[u] = types[u]
  BY <1>1, Ended DEF ControlInv
<1>3. TypeOK'
  BY <1>1, <1>2 DEF ControlInv, TypeOK, status
<1> QED
  BY <1>1, <1>2, <1>3, LossStep

LEMMA ScenarioBeginsStep ==
    ASSUME ControlInv, OneAdministrator, ScenarioBegins
    PROVE  ControlInv'
<1>1. spawned \in Nat /\ spawned + 1 \in Pids /\ spawned' = spawned + 1
  BY ControlAssumption DEF ControlInv, TypeOK, Pids, ScenarioBegins
<1>2. /\ spawned' \in 0 .. MaxPids
      /\ loops' \subseteq 1 .. spawned'
      /\ scenarios' \subseteq 1 .. spawned'
  BY <1>1, ControlAssumption DEF ControlInv, TypeOK, Pids, ScenarioBegins
<1>3. TypeOK'
  BY <1>1, <1>2 DEF ControlInv, TypeOK, ScenarioBegins
<1>4. Known' = Known \ {pidFile} /\ loops' = loops
  BY DEF ScenarioBegins, Overwritten, Known
<1>5. ~Recording => Known' = {}
  BY <1>4 DEF ControlInv, FileInv
<1> QED
  BY <1>3, <1>4, <1>5, LossStep DEF ScenarioBegins

LEMMA ScenarioEndsStep ==
    ASSUME ControlInv, OneAdministrator, NEW p \in Pids, ScenarioEnds(p)
    PROVE  ControlInv'
<1>1. TypeOK'
  BY DEF ControlInv, TypeOK, ScenarioEnds
<1>2. Known' = Known \ {pidFile} /\ loops' = loops
  BY DEF ScenarioEnds, Overwritten, Known
<1>3. ~Recording => Known' = {}
  BY <1>2 DEF ControlInv, FileInv
<1> QED
  BY <1>1, <1>2, <1>3, LossStep DEF ScenarioEnds

\* After a restart or a crash what is known is in the file.
LEMMA ServerEndsStep ==
    ASSUME ControlInv, OneAdministrator, Restart \/ Crash
    PROVE  ControlInv'
<1>1. ServerEnds
  BY DEF Restart, Crash
<1>2. IsRequest(Idle) /\ Idle.at = "none"
  BY FreshRequests
<1>3. /\ requests' = [u \in Requests |-> requests'[u]]
      /\ \A u \in Requests : requests'[u] = Idle
      /\ ~Recording'
  BY <1>1, <1>2 DEF ServerEnds, Recording, At
<1>4. None \notin loops
  BY ControlAssumption DEF ControlInv, TypeOK, Pids
<1>5. Known' \subseteq {pidFile} /\ Known' \subseteq Known
  <2>1. CASE Restart
    <3>1. ~Recording
      BY <2>1 DEF Restart, Recording, At, ControlInv, TypeOK, IsRequest
    <3> QED
      BY <1>1, <2>1, <3>1 DEF Restart, ServerEnds, processes, ControlInv, FileInv, Known
  <2>2. CASE Crash
    BY <1>1, <2>2 DEF Crash, ServerEnds, processes, ControlInv, FileInv, Known
  <2> QED
    BY <2>1, <2>2
<1>6. EnabledTypes' = EnabledTypes
  BY <1>1, SameEnabled DEF ServerEnds
<1> QED
  BY <1>1, <1>2, <1>3, <1>4, <1>5, <1>6
     DEF ServerEnds, processes, status, ControlInv, TypeOK, FileInv, HandlerInv,
         ScanInv, At, PatchPoints

----------------------------------------------------------------------------
(* The theorems.                                                           *)

LEMMA InitControl == Init => ControlInv
<1> SUFFICES ASSUME Init PROVE ControlInv
  OBVIOUS
<1>1. IsRequest(Idle) /\ Idle.at = "none"
  BY FreshRequests
<1>2. Known = {} /\ ~Recording /\ \A r \in Requests : requests[r] = Idle
  BY <1>1 DEF Init, Known, Recording, At
<1>3. TypeOK
  <2>1. types \in [Pids -> SUBSET Types]
    BY DEF Init
  <2>2. requests = [r \in Requests |-> requests[r]]
    BY <1>2 DEF Init
  <2>3. spawned \in 0 .. MaxPids /\ loops \subseteq 1 .. spawned
        /\ scenarios \subseteq 1 .. spawned
    BY ControlAssumption DEF Init
  <2> QED
    BY <1>1, <1>2, <2>1, <2>2, <2>3 DEF Init, TypeOK
<1> QED
  BY <1>1, <1>2, <1>3 DEF ControlInv, FileInv, HandlerInv, ScanInv, At, PatchPoints, Init

LEMMA StepControl ==
    ASSUME OneAdministrator
    PROVE  ControlInv /\ [Next]_vars => ControlInv'
<1> SUFFICES ASSUME ControlInv, [Next]_vars PROVE ControlInv'
  OBVIOUS
<1>1. ASSUME NEW r \in Requests,
             \/ StartPipeline(r) \/ StopPipeline(r)
             \/ \E body \in Updates : UpdateSettings(r, body)
      PROVE  ControlInv'
  BY <1>1, StartPipelineStep, StopPipelineStep, UpdateSettingsStep
<1>2. ASSUME NEW r \in Requests, RequestStep(r)
      PROVE  ControlInv'
  BY <1>2, StartCheckStep, StartLaunchStep, StartRecordStep, StopKillStep,
     StopForgetStep, PatchSteps DEF RequestStep
<1>3. ASSUME NEW p \in Pids, LoopCycle(p) \/ ScenarioShows(p)
      PROVE  ControlInv'
  BY <1>3, QuietStep DEF LoopCycle, ScenarioShows, ControlInv, TypeOK
<1>4. ASSUME NEW p \in Pids, LoopFails(p) \/ ScenarioEnds(p)
      PROVE  ControlInv'
  BY <1>4, LoopFailsStep, ScenarioEndsStep
<1>5. CASE Poll \/ LiveFileAges \/ RunsAge
  BY <1>5, QuietStep DEF Poll, LiveFileAges, RunsAge, status, ControlInv, TypeOK
<1>6. CASE ScenarioBegins \/ Restart \/ Crash
  BY <1>6, ScenarioBeginsStep, ServerEndsStep
<1>7. CASE UNCHANGED vars
  BY <1>7, QuietStep DEF vars, status, ControlInv, TypeOK
<1> QED
  BY <1>1, <1>2, <1>3, <1>4, <1>5, <1>6, <1>7 DEF Next

LEMMA ControlInvariance ==
    ASSUME OneAdministrator
    PROVE  Spec => []ControlInv
BY InitControl, StepControl, PTL DEF Spec

(***************************************************************************)
(* As long as nobody presses a button, is_running answers yes while a loop *)
(* runs that is not lost, and there is one such loop at most               *)
(* (pipeline_process.is_running, start).                                   *)
(***************************************************************************)
THEOREM LoopStaysSeen == OneAdministrator => (Spec => []LoopIsSeen)
<1> SUFFICES ASSUME OneAdministrator PROVE Spec => []LoopIsSeen
  OBVIOUS
<1>1. ASSUME ControlInv PROVE LoopIsSeen
  <2>1. ASSUME Quiet, Known # {}
        PROVE  IsRunning
    <3>1. ~Recording
      BY <1>1, <2>1 DEF Quiet, Recording, At, ControlInv, TypeOK, IsRequest
    <3> QED
      BY <1>1, <2>1, <3>1, KnownIsRunning DEF ControlInv
  <2>2. PICK p : Known \subseteq {p}
    BY <1>1 DEF ControlInv, FileInv
  <2>3. Cardinality(Known) <= 1
    <3>1. IsFiniteSet({p}) /\ Cardinality({p}) = 1
      BY FS_Singleton
    <3> QED
      BY <2>2, <3>1, FS_Subset
  <2> QED
    BY <2>1, <2>3 DEF LoopIsSeen, Known
<1> QED
  BY <1>1, ControlInvariance, PTL

(***************************************************************************)
(* A loop that is not lost was started with the types that are switched on *)
(* now: settings are refused while it runs (settings.patch_settings).      *)
(***************************************************************************)
THEOREM EnabledAreScanned == OneAdministrator => (Spec => []ScansWhatIsEnabled)
<1> SUFFICES ASSUME OneAdministrator PROVE Spec => []ScansWhatIsEnabled
  OBVIOUS
<1>1. ControlInv => ScansWhatIsEnabled
  BY DEF ControlInv, ScanInv, Known, ScansWhatIsEnabled, Scanned
<1> QED
  BY <1>1, ControlInvariance, PTL

(***************************************************************************)
(* When the stop button has done its work, every loop that still runs is a *)
(* lost one (pipeline_process.stop).                                       *)
(***************************************************************************)
THEOREM StopEndsWhatIsKnown == OneAdministrator => (Spec => StopEndsTheLoop)
<1> SUFFICES ASSUME OneAdministrator PROVE Spec => StopEndsTheLoop
  OBVIOUS
<1>1. ControlInv /\ [Next]_vars =>
        [\A r \in Requests : StopForget(r) => loops' \subseteq lost]_vars
  <2>1. ASSUME ControlInv, NEW r \in Requests, StopForget(r)
        PROVE  loops' \subseteq lost
    BY <2>1, StopForgetStep DEF Known, StopForget
  <2> QED
    BY <2>1
<1> QED
  BY <1>1, ControlInvariance, PTL DEF Spec, StopEndsTheLoop

----------------------------------------------------------------------------
(* Part two: what runs leave behind. The invariant.                        *)

Points == {"start", "classification", "decision", "emit", "commit", "held", "action",
           "logging", "over", "dead"}

RunStates == [resource : ResourceIds, at : Points, flag : BOOLEAN, ran : SUBSET Nodes,
              passed : BOOLEAN, rollbacks : Nat, event : Nat]

Rows == [run : Runs, flag : BOOLEAN, status : {"completed", "failed_qa", "rollback_exhausted"},
         steps : SUBSET Nodes]

Pages == [poll : {"first", "next", "undefined"}, cursor : Nat, due : SUBSET Nat]

RecordsTypes ==
    /\ run \in [Runs -> RunStates]
    /\ rows \in Seq(Rows)

Decided == {"detection", "classification", "decision"}

\* What a run has gone through and how often it was rolled back, by where it is.
Path(s) ==
    \/ s.at = "start" /\ s.ran = {} /\ s.rollbacks = 0
    \/ s.at = "classification" /\ s.flag /\ s.ran = {"detection"} /\ s.rollbacks = 0
    \/ s.at = "decision" /\ s.flag /\ s.ran = {"detection", "classification"} /\ s.rollbacks = 0
    \/ s.at \in {"emit", "commit", "held", "action"} /\ s.flag /\ s.ran = Decided /\ s.rollbacks = 0
    \/ /\ s.at \in {"emit", "commit"} /\ s.flag /\ s.ran = Nodes
       /\ s.rollbacks \in (IF s.passed THEN {0, 1} ELSE {1, 2})
    \/ s.at = "action" /\ s.flag /\ s.ran = Nodes /\ ~s.passed /\ s.rollbacks = 1
    \/ /\ s.at \in {"logging", "over"} /\ s.flag /\ s.ran = Nodes
       /\ s.rollbacks \in (IF s.passed THEN {0, 1} ELSE {2})
    \/ s.at \in {"logging", "over"} /\ ~s.flag /\ s.ran = {"detection"} /\ s.rollbacks = 0
    \/ s.at = "dead"

\* The row of run r when its state is s.
RowOf(r, s) == [run |-> r, flag |-> s.flag, status |-> RunStatus(s), steps |-> StepRecords(s)]

\* A run has one row at most, written when it was over.
RowsInv ==
    /\ \A i \in DOMAIN rows : /\ run[rows[i].run].at = "over"
                            /\ rows[i] = RowOf(rows[i].run, run[rows[i].run])
    /\ \A i, j \in DOMAIN rows : rows[i].run = rows[j].run => i = j

RecordsInv == RecordsTypes /\ (\A r \in Runs : Path(run[r])) /\ RowsInv

Committing(r) == run[r].at = "commit"

\* Identifiers come from one counter, and the cursor of the page is one of them.
CursorInv ==
    /\ nextId \in Nat \ {0}
    /\ events \subseteq 1 .. (nextId - 1)
    /\ \A r \in Runs : Committing(r) => run[r].event \in 1 .. (nextId - 1)
    /\ page \in Pages
    /\ page.cursor \in {0} \cup events

\* Inserts do not overlap, and the database answers the page's first poll.
Orderly == ~Overlapping /\ Baselines = {TRUE}

\* The cursor is behind every event the page has not toasted, and before the event
\* that is not committed yet, which is the latest.
ToastInv ==
    /\ \A r \in Runs : Committing(r) => run[r].event = nextId - 1 /\ run[r].event \notin events
    /\ \A q, r \in Runs : Committing(q) /\ Committing(r) => q = r
    /\ page.poll \in {"first", "next"}
    /\ page.poll = "first" => page.due = {}
    /\ page.due \subseteq {i \in events : i > page.cursor}

----------------------------------------------------------------------------
(* Steps of a run before its row is written.                               *)

LEMMA RowFacts ==
  ASSUME RecordsInv, NEW i \in DOMAIN rows
  PROVE  /\ rows[i].run \in Runs /\ run[rows[i].run].at = "over"
         /\ rows[i] = RowOf(rows[i].run, run[rows[i].run])
<1>1. rows \in Seq(Rows)
  BY DEF RecordsInv, RecordsTypes
<1>2. rows[i] \in Rows
  BY <1>1
<1>3. rows[i].run \in Runs
  BY <1>2 DEF Rows
<1> QED
  BY <1>3 DEF RecordsInv, RowsInv

\* A run that is not over moves, and writes no row.
LEMMA RunMoves ==
  ASSUME RecordsInv, NEW r \in Runs, NEW s \in RunStates, Path(s), run[r].at # "over",
         run' = [run EXCEPT ![r] = s], rows' = rows
  PROVE  RecordsInv'
<1>1. run \in [Runs -> RunStates] /\ rows \in Seq(Rows)
  BY DEF RecordsInv, RecordsTypes
<1>2. run'[r] = s /\ \A q \in Runs \ {r} : run'[q] = run[q]
  BY <1>1
<1>3. RecordsTypes'
  BY <1>1 DEF RecordsTypes
<1>4. (\A q \in Runs : Path(run[q]))'
  BY <1>2 DEF RecordsInv
<1>5. RowsInv'
  <2>1. ASSUME NEW i \in DOMAIN rows
        PROVE  run'[rows[i].run].at = "over" /\ rows[i] = RowOf(rows[i].run, run'[rows[i].run])
    <3>1. rows[i].run \in Runs /\ run[rows[i].run].at = "over" /\ rows[i] = RowOf(rows[i].run, run[rows[i].run])
      BY RowFacts
    <3>2. run'[rows[i].run] = run[rows[i].run]
      BY <1>2, <3>1
    <3> QED
      BY <3>1, <3>2
  <2> QED
    BY <2>1 DEF RecordsInv, RowsInv
<1> QED
  BY <1>3, <1>4, <1>5 DEF RecordsInv

\* Nothing of a run and its row is touched.
LEMMA RunsRest ==
  ASSUME RecordsInv, run' = run, rows' = rows
  PROVE  RecordsInv'
BY DEF RecordsInv, RecordsTypes, RowsInv

LEMMA DetectionMoves ==
  ASSUME RecordsInv, NEW r \in Runs, Detection(r)
  PROVE  RecordsInv'
<1>1. run[r] \in RunStates /\ Path(run[r]) /\ run[r].at = "start"
  BY DEF RecordsInv, RecordsTypes, Detection
<1>2. PICK flag \in BOOLEAN :
         Done(r, {"detection"}, IF flag THEN "classification" ELSE "logging",
              [run[r] EXCEPT !.flag = flag])
  BY DEF Detection
<1> DEFINE s == [[run[r] EXCEPT !.flag = flag] EXCEPT
                   !.at = IF flag THEN "classification" ELSE "logging", !.ran = @ \cup {"detection"}]
<1>3. s \in RunStates
  BY <1>1 DEF RunStates, Points, Nodes
<1>4. Path(s)
  BY <1>1 DEF RunStates, Path
<1>5. run' = [run EXCEPT ![r] = s]
  BY <1>2 DEF Done
<1> QED
  BY <1>1, <1>3, <1>4, <1>5, RunMoves DEF Detection

LEMMA ClassificationMoves ==
  ASSUME RecordsInv, NEW r \in Runs, Classification(r)
  PROVE  RecordsInv'
<1>1. run[r] \in RunStates /\ Path(run[r]) /\ run[r].at = "classification"
  BY DEF RecordsInv, RecordsTypes, Classification
<1> DEFINE s == [run[r] EXCEPT !.at = "decision", !.ran = @ \cup {"classification"}]
<1>3. s \in RunStates
  BY <1>1 DEF RunStates, Points, Nodes
<1>4. Path(s)
  BY <1>1 DEF RunStates, Path, Decided
<1>5. run' = [run EXCEPT ![r] = s]
  BY DEF Classification, Done
<1> QED
  BY <1>1, <1>3, <1>4, <1>5, RunMoves DEF Classification

LEMMA DecisionMoves ==
  ASSUME RecordsInv, NEW r \in Runs, Decision(r)
  PROVE  RecordsInv'
<1>1. run[r] \in RunStates /\ Path(run[r]) /\ run[r].at = "decision"
  BY DEF RecordsInv, RecordsTypes, Decision
<1> DEFINE s == [run[r] EXCEPT !.at = "emit", !.ran = @ \cup {"decision"}]
<1>3. s \in RunStates
  BY <1>1 DEF RunStates, Points, Nodes
<1>4. Path(s)
  BY <1>1 DEF RunStates, Path, Decided
<1>5. run' = [run EXCEPT ![r] = s]
  BY DEF Decision, Done
<1> QED
  BY <1>1, <1>3, <1>4, <1>5, RunMoves DEF Decision

LEMMA InsertMoves ==
  ASSUME RecordsInv, NEW r \in Runs, Insert(r), nextId \in Nat
  PROVE  RecordsInv'
<1>1. run[r] \in RunStates /\ Path(run[r]) /\ run[r].at = "emit"
  BY DEF RecordsInv, RecordsTypes, Insert
<1> DEFINE s == [run[r] EXCEPT !.at = "commit", !.event = nextId]
<1>3. s \in RunStates
  BY <1>1 DEF RunStates, Points, Nodes
<1>4. Path(s)
  BY <1>1 DEF RunStates, Path, Decided, Nodes
<1>5. run' = [run EXCEPT ![r] = s]
  BY <1>1 DEF Insert, RecordsInv, RecordsTypes
<1> QED
  BY <1>1, <1>3, <1>4, <1>5, RunMoves DEF Insert

\* An event is committed or lost: the run is held, acts, or is at its end.
LEMMA EventMoves ==
  ASSUME RecordsInv, NEW r \in Runs, run[r].at \in {"emit", "commit"}, rows' = rows,
         \E next \in AfterEvent(r) : run' = [run EXCEPT ![r].at = next, ![r].event = 0]
  PROVE  RecordsInv'
<1>1. run[r] \in RunStates /\ Path(run[r])
  BY DEF RecordsInv, RecordsTypes
<1>2. PICK next \in AfterEvent(r) : run' = [run EXCEPT ![r].at = next, ![r].event = 0]
  OBVIOUS
<1> DEFINE s == [run[r] EXCEPT !.at = next, !.event = 0]
<1>3. s \in RunStates
  BY <1>1, <1>2 DEF RunStates, Points, Nodes, AfterEvent
<1>4. Path(s)
  <2>1. CASE "qa" \notin run[r].ran
    <3>1. next \in {"action", "held"}
      BY <1>2, <2>1 DEF AfterEvent
    <3>2. run[r].flag /\ run[r].ran = Decided /\ run[r].rollbacks = 0
      BY <1>1, <2>1 DEF Path, Nodes
    <3> QED
      BY <1>1, <3>1, <3>2 DEF RunStates, Path
  <2>2. CASE "qa" \in run[r].ran
    <3>1. next = IF run[r].passed \/ run[r].rollbacks >= 2 THEN "logging" ELSE "action"
      BY <1>2, <2>2 DEF AfterEvent
    <3>2. /\ run[r].flag /\ run[r].ran = Nodes
          /\ run[r].rollbacks \in (IF run[r].passed THEN {0, 1} ELSE {1, 2})
      BY <1>1, <2>2 DEF Path, Decided
    <3> QED
      BY <1>1, <3>1, <3>2 DEF RunStates, Path
  <2> QED
    BY <2>1, <2>2
<1>5. run' = [run EXCEPT ![r] = s]
  BY <1>2 DEF RecordsInv, RecordsTypes
<1> QED
  BY <1>3, <1>4, <1>5, RunMoves

LEMMA ResumeMoves ==
  ASSUME RecordsInv, NEW r \in Runs, Resume(r)
  PROVE  RecordsInv'
<1>1. run[r] \in RunStates /\ Path(run[r]) /\ run[r].at = "held"
  BY DEF RecordsInv, RecordsTypes, Resume
<1> DEFINE s == [run[r] EXCEPT !.at = "action"]
<1>3. s \in RunStates
  BY <1>1 DEF RunStates, Points, Nodes
<1>4. Path(s)
  BY <1>1 DEF RunStates, Path
<1>5. run' = [run EXCEPT ![r] = s]
  BY <1>1 DEF Resume, RecordsInv, RecordsTypes
<1> QED
  BY <1>1, <1>3, <1>4, <1>5, RunMoves DEF Resume

LEMMA ActionAndQaMoves ==
  ASSUME RecordsInv, NEW r \in Runs, ActionAndQa(r)
  PROVE  RecordsInv'
<1>1. run[r] \in RunStates /\ Path(run[r]) /\ run[r].at = "action"
  BY DEF RecordsInv, RecordsTypes, ActionAndQa
<1>2. PICK ok \in BOOLEAN :
         Done(r, {"action", "qa"}, "emit",
              [run[r] EXCEPT !.passed = ok, !.rollbacks = IF ok THEN @ ELSE @ + 1])
  BY DEF ActionAndQa
<1> DEFINE n == IF ok THEN run[r].rollbacks ELSE run[r].rollbacks + 1
           u == [run[r] EXCEPT !.passed = ok, !.rollbacks = IF ok THEN @ ELSE @ + 1]
           s == [u EXCEPT !.at = "emit", !.ran = @ \cup {"action", "qa"}]
<1>c. n \in Nat
  BY <1>1 DEF RunStates
<1>d. u = [run[r] EXCEPT !.passed = ok, !.rollbacks = n]
  OBVIOUS
<1> HIDE DEF n
<1>a. u \in RunStates /\ u.flag = run[r].flag /\ u.ran = run[r].ran /\ u.passed = ok
      /\ u.rollbacks = n
  BY <1>1, <1>c, <1>d DEF RunStates
<1>b. run' = [run EXCEPT ![r] = s]
  BY <1>2 DEF Done
<1> HIDE DEF u
<1>3. s \in RunStates
  BY <1>a DEF RunStates, Points, Nodes
<1>4. Path(s)
  <2>1. s.at = "emit" /\ s.flag = run[r].flag /\ s.ran = run[r].ran \cup {"action", "qa"}
        /\ s.passed = ok /\ s.rollbacks = IF ok THEN run[r].rollbacks ELSE run[r].rollbacks + 1
    BY <1>a DEF RunStates, n
  <2>2. run[r].flag /\ run[r].ran \in {Decided, Nodes} /\ run[r].rollbacks \in {0, 1}
    BY <1>1 DEF Path
  <2>3. s.ran = Nodes
    BY <2>1, <2>2 DEF Decided, Nodes
  <2> HIDE DEF s
  <2> QED
    BY <2>1, <2>2, <2>3 DEF Path
<1> QED
  BY <1>1, <1>3, <1>4, <1>b, RunMoves DEF ActionAndQa

LEMMA DieMoves ==
  ASSUME RecordsInv, NEW r \in Runs, Die(r)
  PROVE  RecordsInv'
<1>1. run[r] \in RunStates /\ Path(run[r]) /\ run[r].at \notin {"start", "over", "dead"}
  BY DEF RecordsInv, RecordsTypes, Die
<1> DEFINE s == [run[r] EXCEPT !.at = IF @ = "held" THEN "held" ELSE "dead", !.event = 0]
<1>3. s \in RunStates
  BY <1>1 DEF RunStates, Points, Nodes
<1>4. Path(s)
  BY <1>1 DEF RunStates, Path
<1>5. run' = [run EXCEPT ![r] = s]
  BY <1>1 DEF Die, RecordsInv, RecordsTypes
<1> QED
  BY <1>1, <1>3, <1>4, <1>5, RunMoves DEF Die

----------------------------------------------------------------------------
(* logging_node.                                                           *)

LEMMA LoggingMoves ==
  ASSUME RecordsInv, NEW r \in Runs, Logging(r)
  PROVE  RecordsInv'
<1>1. run[r] \in RunStates /\ Path(run[r]) /\ run[r].at = "logging"
  BY DEF RecordsInv, RecordsTypes, Logging
<1>2. run \in [Runs -> RunStates] /\ rows \in Seq(Rows)
  BY DEF RecordsInv, RecordsTypes, Logging
<1> DEFINE s == [run[r] EXCEPT !.at = "over"]
           w == RunRecord(r)
<1>3. s \in RunStates
  BY <1>1 DEF RunStates, Points, Nodes
<1>4. Path(s)
  BY <1>1 DEF RunStates, Path
<1>5. run' = [run EXCEPT ![r] = s]
  BY <1>1, <1>2 DEF Logging
<1>6. CASE rows' = rows
  BY <1>1, <1>2, <1>3, <1>4, <1>5, <1>6, RunMoves
<1>7. CASE rows' = Append(rows, w)
  <2>1. w \in Rows /\ w.run = r
    BY <1>1 DEF RunRecord, Rows, RunStates, RunStatus, StepRecords
  <2>2. RecordsTypes'
    BY <1>1, <1>2, <1>3, <1>5, <1>7, <2>1 DEF RecordsTypes
  <2>3. (\A q \in Runs : Path(run[q]))'
    BY <1>2, <1>4, <1>5 DEF RecordsInv
  <2>4. run'[r] = s /\ \A q \in Runs \ {r} : run'[q] = run[q]
    BY <1>2, <1>5
  <2>5. w = RowOf(r, run'[r])
    BY <1>1, <2>4 DEF RunRecord, RowOf, RunStates, RunStatus, StepRecords
  <2>6. ASSUME NEW i \in DOMAIN rows
        PROVE  /\ rows[i].run \in Runs \ {r} /\ run'[rows[i].run].at = "over"
               /\ rows[i] = RowOf(rows[i].run, run'[rows[i].run])
    <3>1. rows[i].run \in Runs /\ run[rows[i].run].at = "over" /\ rows[i] = RowOf(rows[i].run, run[rows[i].run])
      BY RowFacts
    <3>2. run'[rows[i].run] = run[rows[i].run] /\ rows[i].run # r
      BY <1>1, <2>4, <3>1
    <3> QED
      BY <3>1, <3>2
  <2>7. RowsInv'
    <3> HIDE DEF w
    <3>1. /\ DOMAIN rows' = DOMAIN rows \cup {Len(rows) + 1} /\ rows'[Len(rows) + 1] = w
          /\ \A i \in DOMAIN rows : rows'[i] = rows[i]
      BY <1>2, <1>7, <2>1
    <3>2. run'[r].at = "over"
      BY <1>1, <2>4 DEF RunStates
    <3>3. \A i, j \in DOMAIN rows : rows[i].run = rows[j].run => i = j
      BY DEF RecordsInv, RowsInv
    <3>4. ASSUME NEW i \in DOMAIN rows'
          PROVE  run'[rows'[i].run].at = "over" /\ rows'[i] = RowOf(rows'[i].run, run'[rows'[i].run])
      BY <2>1, <2>5, <2>6, <3>1, <3>2
    <3>5. ASSUME NEW i \in DOMAIN rows', NEW j \in DOMAIN rows', rows'[i].run = rows'[j].run
          PROVE  i = j
      BY <2>1, <2>6, <3>1, <3>3, <3>5
    <3> QED
      BY <3>4, <3>5 DEF RowsInv
  <2> QED
    BY <2>2, <2>3, <2>7 DEF RecordsInv
<1> QED
  BY <1>6, <1>7 DEF Logging

----------------------------------------------------------------------------
(* The invariant and what the pages show.                                  *)

LEMMA InitRecords == RecordsInit => RecordsInv
<1> SUFFICES ASSUME RecordsInit PROVE RecordsInv
  OBVIOUS
<1>1. PICK about \in [Runs -> ResourceIds] : run = [r \in Runs |-> NewRun(about[r])]
  BY DEF RecordsInit
<1>2. \A x \in ResourceIds : NewRun(x) \in RunStates /\ Path(NewRun(x))
  BY DEF NewRun, RunStates, Points, Path
<1>3. run \in [Runs -> RunStates] /\ \A r \in Runs : Path(run[r])
  BY <1>1, <1>2
<1>4. rows = << >>
  BY DEF RecordsInit
<1>5. RowsInv /\ rows \in Seq(Rows)
  BY <1>4 DEF RowsInv
<1> QED
  BY <1>3, <1>4, <1>5 DEF RecordsInv, RecordsTypes

LEMMA RecordsKept == RecordsInv /\ nextId \in Nat /\ [RecordsNext]_recordsVars => RecordsInv'
<1> SUFFICES ASSUME RecordsInv, nextId \in Nat, [RecordsNext]_recordsVars PROVE RecordsInv'
  OBVIOUS
<1>1. CASE UNCHANGED recordsVars \/ Tick \/ Baseline \/ PollEvents
  BY <1>1, RunsRest DEF Tick, Baseline, PollEvents, recordsVars
<1>2. ASSUME NEW r \in Runs, Steps(r) PROVE RecordsInv'
  <2>1. CASE Commit(r) \/ EmitFails(r)
    BY <2>1, EventMoves DEF Commit, EmitFails
  <2>2. CASE Click(r)
    BY <2>2, RunsRest DEF Click
  <2> QED
    BY <1>2, <2>1, <2>2, DetectionMoves, ClassificationMoves, DecisionMoves, InsertMoves, ResumeMoves,
       ActionAndQaMoves, LoggingMoves, DieMoves DEF Steps
<1> QED
  BY <1>1, <1>2 DEF RecordsNext

----------------------------------------------------------------------------
(* The page of the toasts.                                                 *)

Below == {p \in Nat \X Nat : p[1] < p[2]}

\* A set of numbers below a bound has a greatest one, and Max is it.
LEMMA Greatest ==
  ASSUME NEW n \in Nat, NEW S \in SUBSET (0 .. n), S # {}
  PROVE  Max(S) \in S /\ \A y \in S : Max(S) >= y
<1> DEFINE T == {n - x : x \in S}
<1>1. T \subseteq Nat /\ T # {}
  <2>1. \A x \in S : n - x \in Nat
    OBVIOUS
  <2> QED
    BY <2>1
<1>2. IsWellFoundedOn(Below, Nat)
  <2>1. OpToRel(<, Nat) = Below
    BY DEF OpToRel, Below
  <2> QED
    BY <2>1, NatLessThanWellFounded, Zenon
<1>3. PICK m \in T : \A y \in T : ~(<<y, m>> \in Below)
  BY <1>1, <1>2, WFMin
<1>4. PICK x \in S : m = n - x
  OBVIOUS
<1>5. ASSUME NEW y \in S PROVE x >= y
  <2>1. n - y \in T /\ n - y \in Nat /\ m \in Nat
    BY <1>1
  <2>2. ~(n - y < m)
    BY <1>3, <2>1 DEF Below
  <2> QED
    BY <1>4, <2>1, <2>2
<1>6. \E z \in S : \A y \in S : z >= y
  BY <1>5
<1> HIDE DEF T
<1> QED
  BY <1>6 DEF Max

\* What a poll cuts off comes after all it returns.
LEMMA CutOff ==
  ASSUME CursorInv, NEW i \in events, i > page.cursor, i \notin NewEvents(page.cursor),
         NEW j \in NewEvents(page.cursor)
  PROVE  j < i
<1> DEFINE newer == {k \in events : k > page.cursor}
           Before(x) == {k \in newer : k < x}
<1>1. events \subseteq 1 .. (nextId - 1) /\ nextId - 1 \in Nat /\ page.cursor \in Nat
  BY DEF CursorInv, Pages
<1>2. i \in newer /\ j \in newer /\ newer \subseteq 1 .. (nextId - 1)
  BY <1>1 DEF NewEvents
<1>3. IsFiniteSet(1 .. (nextId - 1))
  BY <1>1, FS_Interval
<1>4. IsFiniteSet(Before(j)) /\ IsFiniteSet(Before(i))
  BY <1>2, <1>3, FS_Subset
<1>5. Cardinality(Before(j)) \in Nat /\ Cardinality(Before(i)) \in Nat
  BY <1>4, FS_CardinalityType
<1>6. Cardinality(Before(j)) < PAGE /\ ~(Cardinality(Before(i)) < PAGE)
  BY <1>2 DEF NewEvents
<1>7. ~(Before(i) \subseteq Before(j))
  <2>1. SUFFICES ASSUME Before(i) \subseteq Before(j) PROVE FALSE
    OBVIOUS
  <2>2. Cardinality(Before(i)) <= Cardinality(Before(j))
    BY <1>4, <2>1, FS_Subset
  <2> HIDE DEF Before
  <2> QED
    BY <1>5, <1>6, <2>2, RecordsAssumption
<1>8. i \in Nat /\ j \in Nat
  BY <1>1, <1>2
<1> QED
  BY <1>1, <1>2, <1>7, <1>8

LEMMA PollStep ==
  ASSUME CursorInv, PollEvents
  PROVE  CursorInv' /\ (ToastInv => ToastInv')
<1> DEFINE new == NewEvents(page.cursor)
           cursor == Max(new)
<1>1. /\ page.poll = "next" /\ new # {} /\ page \in Pages
      /\ page' = [page EXCEPT !.due = @ \ new, !.cursor = cursor]
      /\ UNCHANGED <<run, events, nextId>>
  BY DEF PollEvents, LatestId, CursorInv
<1>2. new \subseteq events /\ new \subseteq 0 .. (nextId - 1) /\ nextId - 1 \in Nat
  <2>1. nextId - 1 \in Nat /\ events \subseteq 0 .. (nextId - 1)
    BY DEF CursorInv
  <2> QED
    BY <2>1 DEF NewEvents
<1>3. cursor \in new
  BY <1>1, <1>2, Greatest
<1>4. cursor \in events /\ cursor \in Nat
  BY <1>2, <1>3
<1>5. \A i \in events : i > page.cursor /\ i \notin new => cursor < i
  BY <1>3, CutOff
<1> HIDE DEF cursor, new
<1>6. page' \in Pages /\ page'.cursor = cursor /\ page'.due = page.due \ new /\ page'.poll = "next"
  BY <1>1, <1>4 DEF Pages
<1>7. CursorInv'
  BY <1>1, <1>4, <1>6 DEF CursorInv, Committing
<1>8. ASSUME ToastInv PROVE ToastInv'
  <2>1. page'.due \subseteq {i \in events : i > cursor}
    BY <1>2, <1>4, <1>5, <1>6, <1>8 DEF ToastInv, CursorInv
  <2> QED
    BY <1>1, <1>6, <1>8, <2>1 DEF ToastInv, Committing
<1> QED
  BY <1>7, <1>8

LEMMA BaselineStep ==
  ASSUME CursorInv, Baseline
  PROVE  CursorInv' /\ (Orderly /\ ToastInv => ToastInv')
<1> DEFINE top == Max(events \cup {0})
<1>1. page.poll = "first" /\ page \in Pages /\ UNCHANGED <<run, events, nextId>>
  BY DEF Baseline, CursorInv
<1>2. PICK answered \in Baselines :
         page' = IF answered THEN [page EXCEPT !.poll = "next", !.cursor = top]
                             ELSE [page EXCEPT !.poll = "undefined"]
  BY DEF Baseline
<1>3. events \cup {0} \subseteq 0 .. (nextId - 1) /\ nextId - 1 \in Nat
  <2>1. nextId \in Nat /\ nextId >= 1 /\ events \subseteq 1 .. (nextId - 1)
    BY DEF CursorInv
  <2> QED
    BY <2>1
<1>4. top \in events \cup {0} /\ top \in Nat
  <2>1. events \cup {0} \in SUBSET (0 .. (nextId - 1)) /\ events \cup {0} # {}
    BY <1>3
  <2>2. top \in events \cup {0}
    BY <1>3, <2>1, Greatest
  <2> QED
    BY <1>3, <2>2
<1> HIDE DEF top
<1>5. /\ page' \in Pages /\ page'.cursor \in {0} \cup events /\ page'.due = page.due
      /\ answered => page'.poll = "next"
  <2>1. CASE answered
    BY <1>1, <1>2, <1>4, <2>1 DEF Pages
  <2>2. CASE ~answered
    <3>1. page' = [page EXCEPT !.poll = "undefined"] /\ page.cursor \in {0} \cup events
      BY <1>2, <2>2 DEF CursorInv
    <3> QED
      BY <1>1, <2>2, <3>1 DEF Pages
  <2> QED
    BY <2>1, <2>2
<1>6. CursorInv'
  BY <1>1, <1>5 DEF CursorInv, Committing
<1>7. ASSUME Orderly, ToastInv PROVE ToastInv'
  <2>1. answered /\ page.due = {}
    BY <1>1, <1>7 DEF Orderly, ToastInv
  <2> QED
    BY <1>1, <1>5, <1>7, <2>1 DEF ToastInv, Committing
<1> QED
  BY <1>6, <1>7

\* A run is given no identifier: nothing the page looks at has changed.
LEMMA NothingInserted ==
  ASSUME CursorInv, UNCHANGED <<events, nextId, page>>,
         \A q \in Runs : run'[q].at = "commit" => run' [q] = run[q]
  PROVE  CursorInv' /\ (ToastInv => ToastInv')
<1>1. CursorInv'
  BY DEF CursorInv, Committing
<1>2. ASSUME ToastInv PROVE ToastInv'
  BY <1>2 DEF ToastInv, Committing
<1> QED
  BY <1>1, <1>2

LEMMA InsertStep ==
  ASSUME RecordsInv, CursorInv, NEW r \in Runs, Insert(r)
  PROVE  CursorInv' /\ (Orderly /\ ToastInv => ToastInv')
<1>1. run \in [Runs -> RunStates] /\ nextId \in Nat \ {0} /\ events \subseteq 1 .. (nextId - 1)
  BY DEF RecordsInv, RecordsTypes, CursorInv
<1>2. /\ run' = [run EXCEPT ![r].at = "commit", ![r].event = nextId]
      /\ nextId' = nextId + 1 /\ UNCHANGED <<events, page>>
  BY DEF Insert
<1>3. /\ run'[r].event = nextId
      /\ \A q \in Runs \ {r} : run'[q] = run[q]
  BY <1>1, <1>2 DEF RunStates
<1>4. events \subseteq 1 .. (nextId' - 1) /\ nextId' \in Nat \ {0} /\ nextId' - 1 = nextId
      /\ nextId \notin events
  BY <1>1, <1>2
<1>5. \A q \in Runs : run'[q].at = "commit" => run'[q].event \in 1 .. (nextId' - 1)
  <2>1. ASSUME NEW q \in Runs, q # r, run'[q].at = "commit" PROVE run'[q].event \in 1 .. (nextId' - 1)
    <3>1. run'[q].event \in 1 .. (nextId - 1)
      BY <1>3, <2>1 DEF CursorInv, Committing
    <3> QED
      BY <1>1, <1>2, <3>1
  <2>2. run'[r].event \in 1 .. (nextId' - 1)
    <3>1. nextId \in 1 .. nextId
      BY <1>1
    <3> QED
      BY <1>3, <1>4, <3>1
  <2> QED
    BY <2>1, <2>2
<1>6. CursorInv'
  BY <1>2, <1>4, <1>5 DEF CursorInv, Committing
<1>7. ASSUME Orderly, ToastInv PROVE ToastInv'
  <2>1. \A q \in Runs : run[q].at # "commit"
    BY <1>7 DEF Insert, Orderly
  <2>2. \A q \in Runs : run'[q].at = "commit" => q = r
    BY <1>3, <2>1
  <2>3. \A q \in Runs : run'[q].at = "commit" => run'[q].event = nextId' - 1 /\ run'[q].event \notin events'
    <3>1. run'[r].event = nextId' - 1 /\ run'[r].event \notin events
      BY <1>3, <1>4
    <3>2. events' = events
      BY <1>2
    <3> QED
      BY <2>2, <3>1, <3>2
  <2> QED
    BY <1>2, <1>7, <2>2, <2>3 DEF ToastInv, Committing
<1> QED
  BY <1>6, <1>7

LEMMA CommitStep ==
  ASSUME RecordsInv, CursorInv, NEW r \in Runs, Commit(r)
  PROVE  CursorInv' /\ (ToastInv => ToastInv')
<1> DEFINE e == run[r].event
<1>1. run \in [Runs -> RunStates] /\ nextId \in Nat \ {0} /\ events \subseteq 1 .. (nextId - 1)
      /\ page \in Pages /\ page.cursor \in {0} \cup events
  BY DEF RecordsInv, RecordsTypes, CursorInv
<1>2. PICK next \in AfterEvent(r) : run' = [run EXCEPT ![r].at = next, ![r].event = 0]
  BY DEF Commit
<1>3. next # "commit" /\ run'[r].at = next /\ \A q \in Runs \ {r} : run'[q] = run[q]
  BY <1>1, <1>2 DEF AfterEvent, RunStates
<1>4. /\ events' = events \cup {e} /\ nextId' = nextId /\ run[r].at = "commit"
      /\ page' = IF page.poll = "first" THEN page ELSE [page EXCEPT !.due = @ \cup {e}]
  BY DEF Commit
<1>5. e \in 1 .. (nextId - 1) /\ e \in Nat
  <2>1. e \in 1 .. (nextId - 1)
    BY <1>4 DEF CursorInv, Committing
  <2> QED
    BY <1>1, <2>1
<1> HIDE DEF e
<1>6. \A q \in Runs : run'[q].at = "commit" => q # r /\ run'[q] = run[q]
  BY <1>3
<1>7. /\ page' \in Pages /\ page'.poll = page.poll /\ page'.cursor = page.cursor
      /\ page'.due = IF page.poll = "first" THEN page.due ELSE page.due \cup {e}
  <2>1. CASE page.poll = "first"
    BY <1>1, <1>4, <2>1
  <2>2. CASE page.poll # "first"
    BY <1>1, <1>4, <1>5, <2>2 DEF Pages
  <2> QED
    BY <2>1, <2>2
<1>8. CursorInv'
  BY <1>1, <1>4, <1>5, <1>6, <1>7 DEF CursorInv, Committing
<1>9. ASSUME ToastInv PROVE ToastInv'
  <2>1. e = nextId - 1 /\ e \notin events /\ \A q \in Runs : run[q].at = "commit" => q = r
    <3>1. Committing(r)
      BY <1>4 DEF Committing
    <3>2. run[r].event = nextId - 1 /\ run[r].event \notin events /\ \A q \in Runs : Committing(q) => q = r
      BY <1>9, <3>1 DEF ToastInv
    <3> QED
      BY <3>2 DEF Committing, e
  <2>2. page.cursor \in Nat /\ page.cursor < e
    <3>1. CASE page.cursor = 0
      BY <1>5, <3>1
    <3>2. CASE page.cursor \in events
      <4>1. page.cursor \in 1 .. (nextId - 1) /\ page.cursor # nextId - 1
        BY <1>1, <2>1, <3>2
      <4> QED
        BY <1>1, <2>1, <4>1
    <3> QED
      BY <1>1, <3>1, <3>2
  <2>3. page'.due \subseteq {i \in events' : i > page'.cursor}
    BY <1>4, <1>5, <1>7, <1>9, <2>2 DEF ToastInv
  <2>4. \A q \in Runs : run'[q].at # "commit"
    BY <1>6, <2>1
  <2> QED
    BY <1>7, <1>9, <2>3, <2>4 DEF ToastInv, Committing
<1> QED
  BY <1>8, <1>9

LEMMA CursorKept ==
  ASSUME RecordsInv, CursorInv, [RecordsNext]_recordsVars
  PROVE  CursorInv' /\ (Orderly /\ ToastInv => ToastInv')
<1>1. CASE UNCHANGED recordsVars \/ Tick
  BY <1>1, NothingInserted DEF Tick, recordsVars
<1>2. ASSUME NEW r \in Runs, Steps(r) PROVE CursorInv' /\ (Orderly /\ ToastInv => ToastInv')
  <2>1. run \in [Runs -> RunStates]
    BY DEF RecordsInv, RecordsTypes
  <2>2. CASE Insert(r) \/ Commit(r)
    BY <2>2, InsertStep, CommitStep
  <2>3. CASE Detection(r) \/ Classification(r) \/ Decision(r) \/ ActionAndQa(r)
    <3>1. UNCHANGED <<events, nextId, page>>
      BY <2>3 DEF Detection, Classification, Decision, ActionAndQa
    <3>2. \A q \in Runs \ {r} : run'[q] = run[q]
      BY <2>1, <2>3 DEF Detection, Classification, Decision, ActionAndQa, Done
    <3>3. run'[r].at # "commit"
      BY <2>1, <2>3 DEF Detection, Classification, Decision, ActionAndQa, Done, RunStates
    <3> QED
      BY <3>1, <3>2, <3>3, NothingInserted
  <2>4. CASE EmitFails(r)
    BY <2>1, <2>4, NothingInserted DEF EmitFails, AfterEvent, RunStates
  <2>5. CASE Click(r) \/ Resume(r) \/ Logging(r)
    BY <2>1, <2>5, NothingInserted DEF Click, Resume, Logging, RunStates
  <2>6. CASE Die(r)
    <3>1. UNCHANGED <<events, nextId, page>> /\ run[r] \in RunStates
      BY <2>1, <2>6 DEF Die
    <3>2. PICK x \in {"held", "dead"} : run' = [run EXCEPT ![r].at = x, ![r].event = 0]
      BY <2>6 DEF Die
    <3> QED
      BY <2>1, <3>1, <3>2, NothingInserted DEF RunStates
  <2> QED
    BY <1>2, <2>2, <2>3, <2>4, <2>5, <2>6 DEF Steps
<1> QED
  BY <1>1, <1>2, PollStep, BaselineStep DEF RecordsNext

LEMMA PageInit == RecordsInit => CursorInv /\ (Orderly => ToastInv)
BY DEF RecordsInit, CursorInv, ToastInv, Pages, Committing, NewRun

LEMMA RecordsInvariance == RecordsSpec => [](RecordsInv /\ CursorInv /\ (Orderly => ToastInv))
<1> DEFINE Inv == RecordsInv /\ CursorInv /\ (Orderly => ToastInv)
<1>1. RecordsInit => Inv
  BY InitRecords, PageInit
<1>2. Inv /\ [RecordsNext]_recordsVars => Inv'
  <2> SUFFICES ASSUME Inv, [RecordsNext]_recordsVars PROVE Inv'
    OBVIOUS
  <2>1. RecordsInv'
    BY RecordsKept DEF CursorInv
  <2>2. CursorInv' /\ (Orderly /\ ToastInv => ToastInv')
    BY CursorKept
  <2>3. Orderly' = Orderly
    BY DEF Orderly
  <2> QED
    BY <2>1, <2>2, <2>3
<1> QED
  BY <1>1, <1>2, PTL DEF RecordsSpec

\* While inserts do not overlap and the database answers the first poll, every event
\* committed after the baseline reaches the page, for pages of any size.
THEOREM ToastsArrive == Orderly => (RecordsSpec => []NoToastSkipped)
<1> SUFFICES ASSUME Orderly PROVE RecordsSpec => []NoToastSkipped
  OBVIOUS
<1>1. ToastInv => NoToastSkipped
  BY DEF ToastInv, NoToastSkipped
<1> QED
  BY <1>1, RecordsInvariance, PTL

----------------------------------------------------------------------------
(* What the rows of runs are shown as.                                     *)

\* The row of a flagged run says whether its last check passed.
LEMMA RowSays ==
  ASSUME RecordsInv, NEW i \in DOMAIN rows
  PROVE  LET w == rows[i] IN
         /\ w.run \in Runs /\ run[w.run].at = "over"
         /\ w.flag => w.status = IF run[w.run].passed THEN "completed" ELSE "rollback_exhausted"
         /\ ~w.flag => w.status = "completed"
         /\ w.flag => run[w.run].ran = Nodes
         /\ "detection" \in run[w.run].ran
<1> DEFINE w == rows[i]
           s == run[w.run]
<1>1. w.run \in Runs /\ s.at = "over" /\ w = RowOf(w.run, s)
  BY RowFacts
<1>2. s \in RunStates /\ Path(s)
  BY <1>1 DEF RecordsInv, RecordsTypes
<1> HIDE DEF s
<1>3. w.flag = s.flag /\ w.status = RunStatus(s)
  BY <1>1 DEF RowOf
<1>4. \/ s.flag /\ s.ran = Nodes /\ s.rollbacks \in (IF s.passed THEN {0, 1} ELSE {2})
      \/ ~s.flag /\ s.ran = {"detection"} /\ s.rollbacks = 0
  BY <1>1, <1>2 DEF Path
<1>5. s.flag => RunStatus(s) = IF s.passed THEN "completed" ELSE "rollback_exhausted"
  BY <1>4 DEF RunStatus
<1>6. ~s.flag => RunStatus(s) = "completed"
  BY <1>4 DEF RunStatus
<1>7. "detection" \in s.ran /\ (s.flag => s.ran = Nodes)
  BY <1>4 DEF Nodes
<1> QED
  BY <1>1, <1>3, <1>5, <1>6, <1>7 DEF s

\* The lights of the status page show nodes the latest run went through, and no other.
THEOREM LightsShowWhatRan == RecordsSpec => []NodesShowWhatRan
<1>1. RecordsInv => NodesShowWhatRan
  <2> SUFFICES ASSUME RecordsInv, rows # << >> PROVE NodeLights \subseteq run[Last(rows).run].ran
    BY DEF NodesShowWhatRan
  <2> DEFINE i == Len(rows)
  <2>1. i \in DOMAIN rows /\ Last(rows) = rows[i]
    BY DEF Last, RecordsInv, RecordsTypes
  <2>2. rows[i].steps \subseteq Nodes
    <3>1. rows[i] \in Rows
      BY <2>1 DEF RecordsInv, RecordsTypes
    <3> QED
      BY <3>1 DEF Rows
  <2>3. "detection" \in run[rows[i].run].ran /\ (rows[i].flag => run[rows[i].run].ran = Nodes)
    BY <2>1, RowSays
  <2> HIDE DEF i
  <2> QED
    BY <2>1, <2>2, <2>3 DEF NodeLights
<1> QED
  BY <1>1, RecordsInvariance, PTL

\* What the page makes of the row of that index.
Item(i) == [run |-> rows[i].run, display |-> IF rows[i].status = "completed" THEN "done" ELSE "failed"]

Flagged == {i \in DOMAIN rows : rows[i].flag}

LEMMA ItemsOfRows == FinishedItems = {Item(i) : i \in Flagged}
BY DEF FinishedItems, Item, Flagged, ToSet

\* No two rows make one item, so that items are counted by counting rows.
LEMMA AsManyItems ==
  ASSUME RecordsInv, NEW D \in SUBSET (DOMAIN rows)
  PROVE  Cardinality({Item(i) : i \in D}) = Cardinality(D)
<1> DEFINE T == {Item(i) : i \in D}
           f == [i \in D |-> Item(i)]
<1>1. rows \in Seq(Rows)
  BY DEF RecordsInv, RecordsTypes
<1>2. IsFiniteSet(D)
  <2>1. Len(rows) \in Nat /\ DOMAIN rows = 1 .. Len(rows)
    BY <1>1
  <2>2. IsFiniteSet(1 .. Len(rows))
    BY <2>1, FS_Interval
  <2> QED
    BY <2>1, <2>2, FS_Subset
<1>3. \A i, j \in D : f[i] = f[j] => i = j
  BY DEF Item, RecordsInv, RowsInv
<1>4. f \in Bijection(D, T)
  BY <1>3, Fun_IsBij
<1>5. ExistsBijection(D, T)
  BY <1>4 DEF ExistsBijection
<1> QED
  BY <1>2, <1>5, FS_Bijection

\* The list of the page and the runs it is about.
LEMMA ItemsTell ==
  ASSUME RecordsInv, NEW x \in RecentDetections
  PROVE  \/ /\ x.display = "saving" /\ run[x.run].at = "held" /\ x \in PendingItems
         \/ /\ \E i \in Flagged : x = Item(i)
            /\ run[x.run].at = "over"
            /\ x.display = IF run[x.run].passed THEN "done" ELSE "failed"
<1>1. CASE x \in PendingItems
  BY <1>1 DEF PendingItems, Pending
<1>2. CASE x \in FinishedItems
  <2>1. PICK i \in Flagged : x = Item(i)
    BY <1>2, ItemsOfRows
  <2>2. i \in DOMAIN rows /\ rows[i].flag
    BY <2>1 DEF Flagged
  <2>3. /\ run[rows[i].run].at = "over"
        /\ rows[i].status = IF run[rows[i].run].passed THEN "completed" ELSE "rollback_exhausted"
    BY <2>2, RowSays
  <2>4. x.run = rows[i].run /\ x.display = IF rows[i].status = "completed" THEN "done" ELSE "failed"
    BY <2>1 DEF Item
  <2> QED
    BY <2>1, <2>3, <2>4
<1> QED
  BY <1>1, <1>2 DEF RecentDetections

\* The page shows a run as done, failed or waiting exactly as it is, once, and the
\* cards of the overview count what the list shows, for any number of runs.
THEOREM ShownRight == RecordsSpec => []ShownAsItEnded
<1>1. RecordsInv => ShownAsItEnded
  <2> SUFFICES ASSUME RecordsInv PROVE ShownAsItEnded
    OBVIOUS
  <2> DEFINE items  == RecentDetections
             done   == {x \in items : x.display = "done"}
             failed == {x \in items : x.display = "failed"}
             Good   == {i \in DOMAIN rows : rows[i].flag /\ rows[i].status = "completed"}
             Bad    == {i \in DOMAIN rows : rows[i].flag /\ rows[i].status \in FailureStatuses}
  <2>1. (\A x \in done : run[x.run].passed) /\ (\A x \in failed : ~run[x.run].passed)
        /\ \A x \in items \ (done \cup failed) : run[x.run].at = "held"
    BY ItemsTell
  <2>2. ASSUME NEW x \in items, NEW y \in items, x.run = y.run PROVE x = y
    <3>1. CASE x \in PendingItems /\ y \in PendingItems
      BY <2>2, <3>1 DEF PendingItems
    <3>2. CASE \E i, j \in Flagged : x = Item(i) /\ y = Item(j)
      BY <2>2, <3>2 DEF Item, Flagged, RecordsInv, RowsInv
    <3> QED
      BY <2>2, <3>1, <3>2, ItemsTell
  <2>3. \A i \in DOMAIN rows : rows[i].status \in FailureStatuses <=> rows[i].status # "completed"
    BY RowSays DEF FailureStatuses
  <2>4. \A i \in DOMAIN rows : rows[i].status \in FailureStatuses => rows[i].flag
    BY <2>3, RowSays
  <2>5. done = {Item(i) : i \in Good}
    <3>1. done = {x \in FinishedItems : x.display = "done"}
      BY DEF RecentDetections, PendingItems
    <3> QED
      BY <3>1, ItemsOfRows DEF Flagged, Item
  <2>6. failed = {Item(i) : i \in Bad}
    <3>1. failed = {x \in FinishedItems : x.display = "failed"}
      BY DEF RecentDetections, PendingItems
    <3> QED
      BY <2>3, <3>1, ItemsOfRows DEF Flagged, Item
  <2>7. Failures = {x.run : x \in failed}
    <3>1. Failures = {rows[i].run : i \in Bad}
      BY <2>4 DEF Failures, ToSet
    <3>2. \A i \in Bad : Item(i).run = rows[i].run
      BY DEF Item
    <3> HIDE DEF Bad, failed
    <3> QED
      BY <2>6, <3>1, <3>2
  <2>8. RunCounts.completed = Cardinality(Good) /\ RunCounts.failed = Cardinality(Bad)
    BY DEF RunCounts, Count
  <2>9. Cardinality(done) = Cardinality(Good) /\ Cardinality(failed) = Cardinality(Bad)
    <3>1. Good \in SUBSET (DOMAIN rows) /\ Bad \in SUBSET (DOMAIN rows)
      OBVIOUS
    <3> HIDE DEF Good, Bad, done, failed
    <3> QED
      BY <2>5, <2>6, <3>1, AsManyItems
  <2>10. RunCounts.detected = Cardinality(Good) + Cardinality(Bad)
    <3>1. RunCounts.detected = Cardinality(Flagged)
      BY DEF RunCounts, Count, Flagged
    <3>2. Flagged = Good \cup Bad /\ Good \cap Bad = {}
      BY <2>3 DEF Flagged, FailureStatuses
    <3>3. IsFiniteSet(DOMAIN rows)
      <4>1. Len(rows) \in Nat /\ DOMAIN rows = 1 .. Len(rows)
        BY DEF RecordsInv, RecordsTypes
      <4> QED
        BY <4>1, FS_Interval
    <3>4. IsFiniteSet(Good) /\ IsFiniteSet(Bad)
      <4>1. Good \subseteq DOMAIN rows /\ Bad \subseteq DOMAIN rows
        OBVIOUS
      <4> HIDE DEF Good, Bad
      <4> QED
        BY <3>3, <4>1, FS_Subset
    <3> HIDE DEF Good, Bad
    <3>5. Cardinality(Good \cup Bad) =
            Cardinality(Good) + Cardinality(Bad) - Cardinality(Good \cap Bad)
      BY <3>4, FS_Union
    <3>6. Cardinality(Good \cap Bad) = 0
      BY <3>2, FS_EmptySet
    <3>7. Cardinality(Good) \in Nat /\ Cardinality(Bad) \in Nat
      BY <3>4, FS_CardinalityType
    <3> QED
      BY <3>1, <3>2, <3>5, <3>6, <3>7
  <2> HIDE DEF Good, Bad
  <2> QED
    BY <2>1, <2>2, <2>7, <2>8, <2>9, <2>10 DEF ShownAsItEnded
<1> QED
  BY <1>1, RecordsInvariance, PTL

----------------------------------------------------------------------------
(* The cards of the log view.                                              *)

Entries == [run : Runs, time : Nat]

ClassEntries == ToSet(classLog)
DecisionEntries == ToSet(decisionLog)

LogTypes == now \in Nat /\ classLog \in Seq(Entries) /\ decisionLog \in Seq(Entries)

Early == {"start", "classification"}

\* An entry is not of the future, and of a run that has come past the node which writes it.
EntriesInv ==
    /\ \A c \in ClassEntries : c.time <= now /\ run[c.run].at \notin Early
    /\ \A d \in DecisionEntries : d.time <= now /\ run[d.run].at \notin Early \cup {"decision"}

\* A run has one entry in each log at most, and no two entries of a log are of one time.
OrderInv ==
    /\ \A i, j \in DOMAIN classLog : classLog[i].run = classLog[j].run => i = j
    /\ \A i, j \in DOMAIN classLog : i < j => classLog[i].time < classLog[j].time
    /\ \A d, e \in DecisionEntries : d.run = e.run \/ d.time = e.time => d = e

LogsInv == LogTypes /\ EntriesInv /\ OrderInv

LEMMA EntryTypes ==
  ASSUME LogTypes
  PROVE  ClassEntries \subseteq Entries /\ DecisionEntries \subseteq Entries
BY DEF LogTypes, ClassEntries, DecisionEntries, ToSet

LEMMA OneMore ==
  ASSUME NEW s \in Seq(Entries), NEW e \in Entries
  PROVE  ToSet(Append(s, e)) = ToSet(s) \cup {e}
<1>1. /\ DOMAIN Append(s, e) = DOMAIN s \cup {Len(s) + 1} /\ Append(s, e)[Len(s) + 1] = e
      /\ \A i \in DOMAIN s : Append(s, e)[i] = s[i]
  OBVIOUS
<1> QED
  BY <1>1 DEF ToSet

\* A run moves from s to t and writes no entry.
Forward(s, t) ==
    /\ t.at \in Early => s.at \in Early
    /\ t.at \in Early \cup {"decision"} => s.at \in Early \cup {"decision"}

LEMMA LogsRest ==
  ASSUME LogsInv, UNCHANGED <<classLog, decisionLog>>, now' \in Nat, now <= now',
         \A q \in Runs : Forward(run[q], run'[q])
  PROVE  LogsInv'
<1>1. LogTypes'
  BY DEF LogsInv, LogTypes
<1>2. ClassEntries' = ClassEntries /\ DecisionEntries' = DecisionEntries
  BY DEF ClassEntries, DecisionEntries
<1>3. ClassEntries \subseteq Entries /\ DecisionEntries \subseteq Entries /\ now \in Nat
  BY EntryTypes DEF LogsInv, LogTypes
<1>4. \A c \in ClassEntries \cup DecisionEntries : c.run \in Runs /\ c.time \in Nat
  BY <1>3 DEF Entries
<1>5. EntriesInv'
  <2>1. \A c \in ClassEntries : c.time <= now' /\ run'[c.run].at \notin Early
    BY <1>3, <1>4 DEF LogsInv, EntriesInv, Forward
  <2>2. \A d \in DecisionEntries : d.time <= now' /\ run'[d.run].at \notin Early \cup {"decision"}
    BY <1>3, <1>4 DEF LogsInv, EntriesInv, Forward
  <2> QED
    BY <1>2, <2>1, <2>2 DEF EntriesInv
<1>6. OrderInv'
  BY <1>2 DEF LogsInv, OrderInv
<1> QED
  BY <1>1, <1>5, <1>6 DEF LogsInv

\* The entry a node writes: nobody has a later one, and the run had none.
LEMMA ClassificationLogged ==
  ASSUME LogsInv, NEW r \in Runs, run[r].at = "classification",
         now' = now + 1, classLog' = Append(classLog, Entry(r)), decisionLog' = decisionLog,
         \A q \in Runs \ {r} : run'[q] = run[q], run'[r].at = "decision"
  PROVE  LogsInv'
<1> DEFINE e == Entry(r)
<1>1. now \in Nat /\ classLog \in Seq(Entries) /\ e \in Entries /\ e.run = r /\ e.time = now + 1
  BY DEF LogsInv, LogTypes, Entry, Entries
<1>2. /\ \A c \in ClassEntries : c.run \in Runs \ {r} /\ c.time \in Nat /\ c.time <= now
      /\ \A d \in DecisionEntries : d.run \in Runs \ {r} /\ d.time \in Nat
  <2>1. ClassEntries \subseteq Entries /\ DecisionEntries \subseteq Entries
    BY EntryTypes DEF LogsInv
  <2>2. \A c \in ClassEntries \cup DecisionEntries : c.run # r /\ c.time <= now
    BY DEF LogsInv, EntriesInv, Early
  <2> QED
    BY <2>1, <2>2 DEF Entries
<1>3. ClassEntries' = ClassEntries \cup {e} /\ DecisionEntries' = DecisionEntries
  BY <1>1, OneMore DEF ClassEntries, DecisionEntries
<1>4. LogTypes'
  BY <1>1 DEF LogsInv, LogTypes
<1> HIDE DEF e
<1>6. EntriesInv'
  <2>1. \A c \in ClassEntries : c.time <= now' /\ run'[c.run].at \notin Early
    BY <1>1, <1>2 DEF LogsInv, EntriesInv
  <2>2. \A d \in DecisionEntries : d.time <= now' /\ run'[d.run].at \notin Early \cup {"decision"}
    BY <1>1, <1>2 DEF LogsInv, EntriesInv
  <2>4. e.time <= now' /\ run'[e.run].at = "decision"
    BY <1>1
  <2> QED
    BY <1>3, <2>1, <2>2, <2>4 DEF EntriesInv, Early
<1>7. OrderInv'
  <2>1. /\ DOMAIN classLog' = DOMAIN classLog \cup {Len(classLog) + 1}
        /\ classLog'[Len(classLog) + 1] = e
        /\ DOMAIN classLog = 1 .. Len(classLog) /\ Len(classLog) \in Nat
        /\ \A i \in DOMAIN classLog : /\ classLog'[i] = classLog[i] /\ classLog[i] \in ClassEntries
    BY <1>1 DEF e, ClassEntries, ToSet
  <2>2. \A i \in DOMAIN classLog : classLog[i].run # r /\ classLog[i].time < e.time
    BY <1>1, <1>2, <2>1
  <2>3. /\ \A i, j \in DOMAIN classLog : classLog[i].run = classLog[j].run => i = j
        /\ \A i, j \in DOMAIN classLog : i < j => classLog[i].time < classLog[j].time
    BY DEF LogsInv, OrderInv
  <2>4. \A i, j \in DOMAIN classLog' : classLog'[i].run = classLog'[j].run => i = j
    BY <1>1, <2>1, <2>2, <2>3
  <2>5. \A i, j \in DOMAIN classLog' : i < j => classLog'[i].time < classLog'[j].time
    <3> SUFFICES ASSUME NEW i \in DOMAIN classLog', NEW j \in DOMAIN classLog', i < j
                 PROVE  classLog'[i].time < classLog'[j].time
      OBVIOUS
    <3>1. i \in DOMAIN classLog
      BY <2>1
    <3> QED
      BY <2>1, <2>2, <2>3, <3>1
  <2> QED
    BY <1>3, <2>4, <2>5 DEF LogsInv, OrderInv
<1> QED
  BY <1>4, <1>6, <1>7 DEF LogsInv

LEMMA DecisionLogged ==
  ASSUME RecordsInv, LogsInv, NEW r \in Runs, Decision(r)
  PROVE  LogsInv'
<1> DEFINE e == Entry(r)
<1>1. /\ now \in Nat /\ decisionLog \in Seq(Entries) /\ e \in Entries /\ e.run = r /\ e.time = now + 1
      /\ now' = now + 1 /\ classLog' = classLog /\ decisionLog' = Append(decisionLog, e)
      /\ run[r].at = "decision"
  BY DEF LogsInv, LogTypes, Entry, Entries, Decision
<1>r. /\ \A q \in Runs \ {r} : run'[q] = run[q]
      /\ run'[r].at = "emit"
  <2>1. run \in [Runs -> RunStates]
    BY DEF RecordsInv, RecordsTypes
  <2> QED
    BY <2>1 DEF Decision, Done, RunStates
<1>2. /\ \A c \in ClassEntries : c.run \in Runs /\ c.time \in Nat /\ c.time <= now
      /\ \A d \in DecisionEntries : d.run \in Runs \ {r} /\ d.time \in Nat /\ d.time <= now
  <2>1. ClassEntries \subseteq Entries /\ DecisionEntries \subseteq Entries
    BY EntryTypes DEF LogsInv
  <2>2. \A d \in DecisionEntries : d.run # r /\ d.time <= now
    BY <1>1 DEF LogsInv, EntriesInv
  <2>3. \A c \in ClassEntries : c.time <= now
    BY DEF LogsInv, EntriesInv
  <2> QED
    BY <2>1, <2>2, <2>3 DEF Entries
<1>3. ClassEntries' = ClassEntries /\ DecisionEntries' = DecisionEntries \cup {e}
  BY <1>1, OneMore DEF ClassEntries, DecisionEntries
<1>4. LogTypes'
  BY <1>1 DEF LogsInv, LogTypes
<1> HIDE DEF e
<1>6. EntriesInv'
  <2>1. \A c \in ClassEntries : c.time <= now' /\ run'[c.run].at \notin Early
    BY <1>1, <1>2, <1>r DEF LogsInv, EntriesInv, Early
  <2>2. \A d \in DecisionEntries : d.time <= now' /\ run'[d.run].at \notin Early \cup {"decision"}
    BY <1>1, <1>2, <1>r DEF LogsInv, EntriesInv
  <2>4. e.time <= now' /\ run'[e.run].at = "emit"
    BY <1>1, <1>r
  <2> QED
    BY <1>3, <2>1, <2>2, <2>4 DEF EntriesInv, Early
<1>7. OrderInv'
  <2>1. \A d, x \in DecisionEntries \cup {e} : d.run = x.run \/ d.time = x.time => d = x
    BY <1>1, <1>2 DEF LogsInv, OrderInv
  <2> QED
    BY <1>1, <1>3, <2>1 DEF LogsInv, OrderInv
<1> QED
  BY <1>4, <1>6, <1>7 DEF LogsInv

LEMMA LogsKept ==
  ASSUME RecordsInv, LogsInv, [RecordsNext]_recordsVars
  PROVE  LogsInv'
<1>1. now \in Nat /\ run \in [Runs -> RunStates]
  BY DEF LogsInv, LogTypes, RecordsInv, RecordsTypes
<1>2. CASE run' = run /\ UNCHANGED <<classLog, decisionLog>> /\ now' \in {now, now + 1}
  <2>1. \A q \in Runs : Forward(run[q], run'[q])
    BY <1>1, <1>2 DEF Forward
  <2> QED
    BY <1>1, <1>2, <2>1, LogsRest
<1>3. ASSUME NEW r \in Runs, UNCHANGED logs, \A q \in Runs \ {r} : run'[q] = run[q],
             Forward(run[r], run'[r])
      PROVE  LogsInv'
  <2>1. \A q \in Runs : Forward(run[q], run'[q])
    BY <1>3 DEF Forward
  <2> QED
    BY <1>1, <1>3, <2>1, LogsRest DEF logs
<1>5. ASSUME NEW r \in Runs, Detection(r) PROVE LogsInv'
  <2>1. PICK flag \in BOOLEAN :
          Done(r, {"detection"}, IF flag THEN "classification" ELSE "logging",
               [run[r] EXCEPT !.flag = flag])
    BY <1>5 DEF Detection
  <2>2. /\ \A q \in Runs \ {r} : run'[q] = run[q]
        /\ run'[r].at \in {"classification", "logging"}
    BY <1>1, <2>1 DEF Done, RunStates
  <2>3. run[r].at = "start" /\ UNCHANGED logs
    BY <1>5 DEF Detection
  <2>5. Forward(run[r], run'[r])
    BY <2>2, <2>3 DEF Forward, Early
  <2> QED
    BY <1>3, <2>2, <2>3, <2>5
<1>6. ASSUME NEW r \in Runs, Classification(r) PROVE LogsInv'
  <2>1. /\ \A q \in Runs \ {r} : run'[q] = run[q]
        /\ run'[r].at = "decision"
        /\ run[r].at = "classification" /\ decisionLog' = decisionLog
    BY <1>1, <1>6 DEF Classification, Done, RunStates
  <2>2. CASE UNCHANGED <<classLog, now>>
    <3>1. Forward(run[r], run'[r]) /\ UNCHANGED logs
      BY <2>1, <2>2 DEF Forward, Early, logs
    <3> QED
      BY <1>3, <2>1, <3>1
  <2>3. CASE now' = now + 1 /\ classLog' = Append(classLog, Entry(r))
    BY <2>1, <2>3, ClassificationLogged
  <2> QED
    BY <1>6, <2>2, <2>3 DEF Classification
<1>7. ASSUME NEW r \in Runs,
             Insert(r) \/ Commit(r) \/ EmitFails(r) \/ Resume(r) \/ ActionAndQa(r) \/ Logging(r) \/ Die(r)
      PROVE  LogsInv'
  <2>1. UNCHANGED logs /\ \A q \in Runs \ {r} : run'[q] = run[q]
    BY <1>1, <1>7 DEF Insert, Commit, EmitFails, Resume, ActionAndQa, Done, Logging, Die
  <2>2. run'[r].at \notin {"start", "classification", "decision"}
    <3>1. CASE Insert(r) \/ Resume(r) \/ Logging(r)
      BY <1>1, <3>1 DEF Insert, Resume, Logging, RunStates
    <3>2. CASE Commit(r) \/ EmitFails(r)
      <4>1. PICK next \in AfterEvent(r) : run' = [run EXCEPT ![r].at = next, ![r].event = 0]
        BY <3>2 DEF Commit, EmitFails
      <4> QED
        BY <1>1, <4>1 DEF AfterEvent, RunStates
    <3>3. CASE ActionAndQa(r)
      BY <1>1, <3>3 DEF ActionAndQa, Done, RunStates
    <3>4. CASE Die(r)
      <4>1. PICK x \in {"held", "dead"} : run' = [run EXCEPT ![r].at = x, ![r].event = 0]
        BY <3>4 DEF Die
      <4> QED
        BY <1>1, <4>1 DEF RunStates
    <3> QED
      BY <1>7, <3>1, <3>2, <3>3, <3>4
  <2>3. Forward(run[r], run'[r])
    BY <2>2 DEF Forward, Early
  <2> QED
    BY <1>3, <2>1, <2>3
<1>8. CASE UNCHANGED recordsVars \/ Tick \/ Baseline \/ PollEvents \/ \E r \in Runs : Click(r)
  <2>1. run' = run /\ UNCHANGED <<classLog, decisionLog>> /\ now' \in {now, now + 1}
    BY <1>8 DEF recordsVars, logs, Tick, Baseline, PollEvents, Click
  <2> QED
    BY <1>2, <2>1
<1> QED
  BY <1>5, <1>6, <1>7, <1>8, DecisionLogged DEF RecordsNext, Steps

LEMMA LogsInit == RecordsInit => LogsInv
<1> SUFFICES ASSUME RecordsInit PROVE LogsInv
  OBVIOUS
<1>3. classLog = << >> /\ decisionLog = << >> /\ now = 0
  BY DEF RecordsInit
<1>4. ClassEntries = {} /\ DecisionEntries = {}
  BY <1>3 DEF ClassEntries, DecisionEntries, ToSet
<1> QED
  BY <1>3, <1>4 DEF LogsInv, LogTypes, EntriesInv, OrderInv

\* The joining of the first n entries solves the recursion of Matched.
Nothing == [used |-> {}, cards |-> {}]

Solves(f, n) ==
    f = [k \in 0 .. n |-> IF k = 0 THEN Nothing ELSE Match(f[k - 1], classLog[k])]

LEMMA LeastNumber ==
  ASSUME NEW S \in SUBSET Nat, S # {}
  PROVE  \E k \in S : \A m \in S : k <= m
<1>1. OpToRel(<, Nat) = Below
  BY DEF OpToRel, Below
<1>2. IsWellFoundedOn(Below, Nat)
  BY <1>1, NatLessThanWellFounded, Zenon
<1>3. PICK k \in S : \A m \in S : ~(<<m, k>> \in Below)
  BY <1>2, WFMin
<1>4. \A m \in S : ~(m < k)
  <2> SUFFICES ASSUME NEW m \in S, m < k PROVE FALSE
    OBVIOUS
  <2>1. <<m, k>> \in Nat \X Nat /\ <<m, k>>[1] = m /\ <<m, k>>[2] = k
    OBVIOUS
  <2>2. <<m, k>> \in Below
    BY <2>1 DEF Below
  <2> QED
    BY <1>3, <2>2
<1> QED
  BY <1>3, <1>4

\* There is a solution: the least n without one could be had from that of n - 1.
LEMMA Solvable ==
  ASSUME NEW N \in Nat
  PROVE  \E f : Solves(f, N)
<1> DEFINE Bad == {n \in 0 .. N : ~\E f : Solves(f, n)}
<1> SUFFICES ASSUME Bad # {} PROVE FALSE
  OBVIOUS
<1>1. Bad \in SUBSET Nat
  OBVIOUS
<1>2. PICK n \in Bad : \A m \in Bad : n <= m
  BY <1>1, LeastNumber
<1>3. n \in 0 .. N /\ ~\E f : Solves(f, n)
  OBVIOUS
<1>4. Solves([k \in 0 .. 0 |-> Nothing], 0)
  BY DEF Solves
<1>5. n # 0
  BY <1>3, <1>4
<1>6. n - 1 \in 0 .. N /\ n - 1 \notin Bad /\ 0 .. n = (0 .. (n - 1)) \cup {n}
  BY <1>2, <1>3, <1>5
<1>7. PICK f : Solves(f, n - 1)
  BY <1>6
<1> DEFINE g == [k \in 0 .. n |-> IF k = n THEN Match(f[n - 1], classLog[n]) ELSE f[k]]
<1>8. \A k \in 0 .. (n - 1) : g[k] = IF k = 0 THEN Nothing ELSE Match(f[k - 1], classLog[k])
  BY <1>3, <1>6, <1>7 DEF Solves
<1>9. \A k \in 0 .. n : k # 0 => k - 1 \in 0 .. n /\ k - 1 # n /\ g[k - 1] = f[k - 1]
  BY <1>3
<1>10. \A k \in 0 .. n : g[k] = IF k = 0 THEN Nothing ELSE Match(g[k - 1], classLog[k])
  <2> SUFFICES ASSUME NEW k \in 0 .. n
               PROVE  g[k] = IF k = 0 THEN Nothing ELSE Match(g[k - 1], classLog[k])
    OBVIOUS
  <2>1. CASE k = n
    <3>1. g[n] = Match(f[n - 1], classLog[n]) /\ g[n - 1] = f[n - 1]
      BY <1>3, <1>5, <1>9
    <3> HIDE DEF g
    <3> QED
      BY <1>5, <2>1, <3>1
  <2>2. CASE k # n
    <3>1. k \in 0 .. (n - 1)
      BY <1>6, <2>2
    <3>2. k # 0 => g[k - 1] = f[k - 1]
      BY <1>9
    <3>3. g[k] = IF k = 0 THEN Nothing ELSE Match(f[k - 1], classLog[k])
      BY <1>8, <3>1
    <3> HIDE DEF g
    <3> QED
      BY <3>2, <3>3
  <2> QED
    BY <2>1, <2>2
<1>11. g = [k \in 0 .. n |-> g[k]]
  OBVIOUS
<1>12. Solves(g, n)
  <2> HIDE DEF g
  <2> QED
    BY <1>10, <1>11 DEF Solves
<1> QED
  BY <1>3, <1>12

LEMMA MatchedSteps ==
  ASSUME LogTypes
  PROVE  /\ Matched[0] = Nothing
         /\ \A n \in 1 .. Len(classLog) : Matched[n] = Match(Matched[n - 1], classLog[n])
<1>1. Len(classLog) \in Nat
  BY DEF LogTypes
<1>2. Matched = CHOOSE f : Solves(f, Len(classLog))
  BY DEF Matched, Solves, Nothing
<1>3. Solves(Matched, Len(classLog))
  BY <1>1, <1>2, Solvable
<1> QED
  BY <1>1, <1>3 DEF Solves

\* The decisions an entry may take, given those that are taken.
Free(used, c) ==
    {d \in DecisionEntries \ used : run[d.run].resource = run[c.run].resource /\ Near(c, d)}

First(used, c) == CHOOSE d \in Free(used, c) : \A e \in Free(used, c) : d.time <= e.time

LEMMA MatchTakes ==
  ASSUME NEW acc, NEW c
  PROVE  Match(acc, c) = IF Free(acc.used, c) = {} THEN acc
                         ELSE [used  |-> acc.used \cup {First(acc.used, c)},
                               cards |-> acc.cards \cup {<<c, First(acc.used, c)>>}]
<1>1. Free(acc.used, c) = {d \in ToSet(decisionLog) \ acc.used :
                             /\ run[d.run].resource = run[c.run].resource
                             /\ c.time <= d.time /\ d.time <= c.time + GROUPING_WINDOW}
  BY DEF Free, DecisionEntries, Near
<1> QED
  BY <1>1 DEF Match, First

\* The same of what is taken and of the cards, one by one.
LEMMA MatchAdds ==
  ASSUME NEW acc, NEW c
  PROVE  /\ \A d \in Match(acc, c).used :
              d \in acc.used \/ (Free(acc.used, c) # {} /\ d = First(acc.used, c))
         /\ \/ Match(acc, c).cards = acc.cards
            \/ Match(acc, c).cards = acc.cards \cup {<<c, First(acc.used, c)>>}
<1> DEFINE first == First(acc.used, c)
           both  == [used |-> acc.used \cup {first}, cards |-> acc.cards \cup {<<c, first>>}]
<1>1. Match(acc, c) = IF Free(acc.used, c) = {} THEN acc ELSE both
  BY MatchTakes
<1>2. both.used = acc.used \cup {first} /\ both.cards = acc.cards \cup {<<c, first>>}
  OBVIOUS
<1> HIDE DEF both
<1> QED
  BY <1>1, <1>2

\* A decision that is free is taken when it comes before all others that are.
LEMMA FirstIs ==
  ASSUME NEW used, NEW c, NEW o \in Free(used, c), \A d \in Free(used, c) : d.time \in Nat,
         \A d \in Free(used, c) : d # o => o.time < d.time
  PROVE  First(used, c) = o
<1>1. \A e \in Free(used, c) : o.time <= e.time
  OBVIOUS
<1>2. \A x \in Free(used, c) : (\A e \in Free(used, c) : x.time <= e.time) => x = o
  OBVIOUS
<1> QED
  BY <1>1, <1>2 DEF First

\* Of several decisions that are free, the first is one of them.
LEMMA FirstIsFree ==
  ASSUME LogTypes, NEW used, NEW c, Free(used, c) # {}
  PROVE  First(used, c) \in Free(used, c)
<1>1. \A d \in Free(used, c) : d.time \in Nat
  BY EntryTypes DEF Free, Entries
<1> DEFINE Times == {d.time : d \in Free(used, c)}
<1>2. Times \in SUBSET Nat /\ Times # {}
  BY <1>1
<1>3. PICK t \in Times : \A u \in Times : t <= u
  BY <1>2, LeastNumber
<1>4. PICK d \in Free(used, c) : d.time = t
  BY <1>3
<1>5. \A e \in Free(used, c) : d.time <= e.time
  BY <1>3, <1>4
<1> QED
  BY <1>5 DEF First

\* What is taken after n entries was near an entry that took it.
TakenBy(n) ==
    \A d \in Matched[n].used : \E j \in 1 .. n :
        run[d.run].resource = run[classLog[j].run].resource /\ Near(classLog[j], d)

LEMMA TakenWasNear ==
  ASSUME LogTypes, NEW N \in 0 .. Len(classLog)
  PROVE  TakenBy(N)
<1> DEFINE Bad == {n \in 0 .. Len(classLog) : ~TakenBy(n)}
<1> SUFFICES ASSUME Bad # {} PROVE FALSE
  OBVIOUS
<1>1. Bad \in SUBSET Nat /\ Len(classLog) \in Nat
  BY DEF LogTypes
<1>2. PICK n \in Bad : \A m \in Bad : n <= m
  BY <1>1, LeastNumber
<1>3. n \in 0 .. Len(classLog) /\ ~TakenBy(n)
  OBVIOUS
<1>4. TakenBy(0)
  BY MatchedSteps DEF TakenBy, Nothing
<1>5. n \in 1 .. Len(classLog) /\ n - 1 \in 0 .. Len(classLog)
  BY <1>1, <1>3, <1>4
<1>6. TakenBy(n - 1)
  BY <1>1, <1>2, <1>5
<1> DEFINE c == classLog[n]
           used == Matched[n - 1].used
<1>7. Matched[n] = Match(Matched[n - 1], c)
  BY <1>5, MatchedSteps
<1>8. \A d \in Matched[n].used :
        d \in used \/ (Free(used, c) # {} /\ d = First(used, c))
  BY <1>7, MatchAdds
<1>9. ASSUME NEW d \in Matched[n].used
      PROVE  \E j \in 1 .. n :
               run[d.run].resource = run[classLog[j].run].resource /\ Near(classLog[j], d)
  <2>1. CASE d \in used
    <3>1. PICK j \in 1 .. (n - 1) :
            run[d.run].resource = run[classLog[j].run].resource /\ Near(classLog[j], d)
      BY <1>6, <2>1 DEF TakenBy
    <3>2. j \in 1 .. n
      BY <1>5
    <3> QED
      BY <3>1, <3>2
  <2>2. CASE Free(used, c) # {} /\ d = First(used, c)
    <3>1. d \in Free(used, c)
      BY <2>2, FirstIsFree
    <3>2. n \in 1 .. n
      BY <1>5
    <3> QED
      BY <3>1, <3>2 DEF Free
  <2> QED
    BY <1>8, <1>9, <2>1, <2>2
<1> QED
  BY <1>3, <1>9 DEF TakenBy

\* The decisions on the cards of an entry, after n entries.
CardsOf(c, n) == {card[2] : card \in {k \in Matched[n].cards : k[1] = c}}

LEMMA OtherCards ==
  ASSUME LogTypes, NEW n \in 1 .. Len(classLog), NEW c, classLog[n] # c
  PROVE  CardsOf(c, n) = CardsOf(c, n - 1)
<1>1. Matched[n] = Match(Matched[n - 1], classLog[n])
  BY MatchedSteps
<1> DEFINE first == First(Matched[n - 1].used, classLog[n])
<1>2. \/ Matched[n].cards = Matched[n - 1].cards
      \/ Matched[n].cards = Matched[n - 1].cards \cup {<<classLog[n], first>>}
  BY <1>1, MatchAdds, Zenon
<1>3. <<classLog[n], first>>[1] # c
  OBVIOUS
<1>4. {k \in Matched[n].cards : k[1] = c} = {k \in Matched[n - 1].cards : k[1] = c}
  BY <1>2, <1>3
<1> QED
  BY <1>4 DEF CardsOf

\* The cards of the entry i are those of the moment it was looked at.
LEMMA CardsStay ==
  ASSUME LogsInv, NEW i \in DOMAIN classLog, NEW n \in 0 .. Len(classLog)
  PROVE  CardsOf(classLog[i], n) = IF n < i THEN {} ELSE CardsOf(classLog[i], i)
<1> DEFINE c == classLog[i]
           Right(m) == CardsOf(c, m) = IF m < i THEN {} ELSE CardsOf(c, i)
           Bad == {m \in 0 .. Len(classLog) : ~Right(m)}
<1> SUFFICES ASSUME Bad # {} PROVE FALSE
  OBVIOUS
<1>1. Bad \in SUBSET Nat /\ Len(classLog) \in Nat /\ DOMAIN classLog = 1 .. Len(classLog) /\ LogTypes
  BY DEF LogsInv, LogTypes
<1>2. PICK m \in Bad : \A k \in Bad : m <= k
  BY <1>1, LeastNumber
<1>3. m \in 0 .. Len(classLog) /\ ~Right(m)
  OBVIOUS
<1>4. Right(0)
  <2>1. CardsOf(c, 0) = {} /\ 0 < i
    BY <1>1, MatchedSteps DEF CardsOf, Nothing
  <2> QED
    BY <2>1
<1>5. m \in 1 .. Len(classLog) /\ m - 1 \in 0 .. Len(classLog)
  BY <1>1, <1>3, <1>4
<1>6. Right(m - 1)
  <2>1. m \in Nat /\ m - 1 \in Nat /\ ~(m <= m - 1)
    BY <1>1, <1>5
  <2>2. m - 1 \notin Bad
    BY <1>2, <2>1
  <2> QED
    BY <1>5, <2>2
<1>7. m # i
  BY <1>3
<1>8. classLog[m].run # c.run
  BY <1>1, <1>5, <1>7 DEF LogsInv, OrderInv
<1>9. CardsOf(c, m) = CardsOf(c, m - 1)
  BY <1>1, <1>5, <1>8, OtherCards
<1>10. m - 1 < i <=> m < i
  BY <1>1, <1>5, <1>7
<1>11. Right(m)
  BY <1>6, <1>9, <1>10
<1> QED
  BY <1>3, <1>11

\* An entry that no run led astray takes the decision of its own run, if there is one:
\* no earlier entry has, and no other free decision comes before it.
LEMMA TakesItsOwn ==
  ASSUME LogsInv, NEW i \in DOMAIN classLog,
         JudgedBefore(classLog[i]) = {}, DecidedFirst(classLog[i]) = {}
  PROVE  CardsOf(classLog[i], i) = OwnDecision(classLog[i])
<1> DEFINE c == classLog[i]
           used == Matched[i - 1].used
<1>1. /\ LogTypes /\ Len(classLog) \in Nat /\ DOMAIN classLog = 1 .. Len(classLog)
      /\ i - 1 \in 0 .. Len(classLog) /\ GROUPING_WINDOW \in Nat
  BY RecordsAssumption DEF LogsInv, LogTypes
<1>2. /\ \A j \in DOMAIN classLog : classLog[j] \in ClassEntries
      /\ \A e \in ClassEntries : e.run \in Runs /\ e.time \in Nat
      /\ \A d \in DecisionEntries : d.run \in Runs /\ d.time \in Nat
  BY <1>1, EntryTypes DEF ClassEntries, ToSet, Entries
<1>3. Matched[i] = Match(Matched[i - 1], c)
  BY <1>1, MatchedSteps
<1>4. CardsOf(c, i - 1) = {}
  BY <1>1, CardsStay
<1>5. OwnDecision(c) = {d \in DecisionEntries : d.run = c.run /\ Near(c, d)}
  BY DEF OwnDecision, DecisionEntries
<1>6. \A x \in Free(used, c) : x.run # c.run => \E o \in OwnDecision(c) : o.time <= x.time
  <2> SUFFICES ASSUME NEW x \in Free(used, c), x.run # c.run
               PROVE  \E o \in OwnDecision(c) : o.time <= x.time
    OBVIOUS
  <2>1. x \in ToSet(decisionLog) /\ x.run \in Rivals(c) /\ Near(c, x)
    BY <1>2 DEF Free, DecisionEntries, Rivals
  <2>2. x \notin DecidedFirst(c)
    OBVIOUS
  <2>3. PICK o \in OwnDecision(c) : ~(x.time < o.time)
    BY <2>1, <2>2 DEF DecidedFirst
  <2>4. o.time \in Nat /\ x.time \in Nat
    BY <1>2, <1>5, <2>3 DEF Free
  <2> QED
    BY <2>3, <2>4
<1>7. CASE OwnDecision(c) = {}
  <2>1. Free(used, c) = {}
    BY <1>5, <1>6, <1>7 DEF Free
  <2>2. Matched[i] = Matched[i - 1]
    BY <1>3, <2>1, MatchTakes
  <2> QED
    BY <1>4, <1>7, <2>2 DEF CardsOf
<1>8. ASSUME NEW o \in OwnDecision(c) PROVE CardsOf(c, i) = OwnDecision(c)
  <2>1. o \in DecisionEntries /\ o.run = c.run /\ Near(c, o)
    BY <1>5, <1>8
  <2>2. OwnDecision(c) = {o}
    BY <1>5, <2>1 DEF LogsInv, OrderInv
  <2>3. o \notin used
    <3> SUFFICES ASSUME o \in used PROVE FALSE
      OBVIOUS
    <3>1. TakenBy(i - 1)
      BY <1>1, TakenWasNear
    <3>2. PICK j \in 1 .. (i - 1) :
            run[o.run].resource = run[classLog[j].run].resource /\ Near(classLog[j], o)
      BY <3>1 DEF TakenBy
    <3>3. j \in DOMAIN classLog /\ j < i
      BY <1>1
    <3>4. classLog[j].run # c.run /\ classLog[j].time < c.time
      BY <3>3 DEF LogsInv, OrderInv
    <3>5. classLog[j] \in ClassEntries /\ classLog[j].run \in Rivals(c)
      BY <1>2, <2>1, <3>2, <3>3, <3>4 DEF Rivals
    <3>6. c.time <= o.time /\ o.time <= classLog[j].time + GROUPING_WINDOW
      BY <2>1, <3>2 DEF Near
    <3>7. c.time \in Nat /\ o.time \in Nat /\ classLog[j].time \in Nat
      BY <1>2, <2>1, <3>5
    <3>8. c.time <= classLog[j].time + GROUPING_WINDOW
      BY <1>1, <3>6, <3>7
    <3>9. classLog[j] \in JudgedBefore(c)
      BY <3>4, <3>5, <3>8 DEF JudgedBefore, ClassEntries
    <3> QED
      BY <3>9
  <2>4. o \in Free(used, c)
    BY <2>1, <2>3 DEF Free
  <2>5. \A d \in Free(used, c) : d.time \in Nat /\ (d # o => o.time < d.time)
    <3> SUFFICES ASSUME NEW d \in Free(used, c), d # o PROVE d.time \in Nat /\ o.time < d.time
      BY <1>2, <2>1
    <3>1. d \in DecisionEntries /\ d.time \in Nat /\ o.time \in Nat
      BY <1>2, <2>1 DEF Free
    <3>2. d.run # c.run /\ d.time # o.time
      BY <2>1, <3>1 DEF LogsInv, OrderInv
    <3>3. o.time <= d.time
      BY <1>6, <2>2, <3>2
    <3> QED
      BY <3>1, <3>2, <3>3
  <2>6. First(used, c) = o
    BY <2>4, <2>5, FirstIs
  <2>7. Matched[i].cards = Matched[i - 1].cards \cup {<<c, o>>}
    BY <1>3, <2>4, <2>6, MatchTakes
  <2>8. {k \in Matched[i].cards : k[1] = c} = {<<c, o>>}
    <3>1. {k \in Matched[i - 1].cards : k[1] = c} = {}
      BY <1>4 DEF CardsOf
    <3>2. <<c, o>>[1] = c
      OBVIOUS
    <3> QED
      BY <2>7, <3>1, <3>2
  <2>9. CardsOf(c, i) = {o}
    <3>1. <<c, o>>[2] = o
      OBVIOUS
    <3> QED
      BY <2>8, <3>1 DEF CardsOf
  <2> QED
    BY <2>2, <2>9
<1> QED
  BY <1>7, <1>8

\* Runs may overlap over a resource and die between their two entries: an entry that none
\* of them led astray is joined with the decision of its own run, or with none if there
\* is none within the window, for any number of runs and any window.
THEOREM CardsAreOfOneRun == RecordsSpec => []CardsOfOneRun
<1>1. LogsInv => CardsOfOneRun
  <2> SUFFICES ASSUME LogsInv, NEW c \in ToSet(classLog), JudgedBefore(c) = {}, DecidedFirst(c) = {}
               PROVE  {card[2] : card \in {k \in Grouped : k[1] = c}} = OwnDecision(c)
    BY DEF CardsOfOneRun
  <2>1. PICK i \in DOMAIN classLog : classLog[i] = c
    BY DEF ToSet
  <2>2. Len(classLog) \in 0 .. Len(classLog) /\ i <= Len(classLog)
    BY DEF LogsInv, LogTypes
  <2>3. CardsOf(c, Len(classLog)) = CardsOf(c, i)
    <3>1. ~(Len(classLog) < i)
      BY <2>2 DEF LogsInv, LogTypes
    <3> QED
      BY <2>1, <2>2, <3>1, CardsStay
  <2>4. CardsOf(c, i) = OwnDecision(c)
    BY <2>1, TakesItsOwn
  <2> QED
    BY <2>3, <2>4 DEF CardsOf, Grouped
<1>2. RecordsInv /\ LogsInv /\ [RecordsNext]_recordsVars => LogsInv'
  BY LogsKept
<1> QED
  BY <1>1, <1>2, LogsInit, RecordsInvariance, PTL DEF RecordsSpec
=============================================================================
