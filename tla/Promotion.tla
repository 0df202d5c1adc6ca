------------------------------ MODULE Promotion ------------------------------
(***************************************************************************)
(* How judgements of the LLM become rules of the rule book.                *)
(*                                                                         *)
(* A run that no rule covers asks the LLM and appends its answer to a log; *)
(* QA writes its verdict back into the log; logging_node counts verified   *)
(* answers and queues frequent patterns in pending_rule_promotions.json;   *)
(* an administrator approves or rejects them (api/routers/promotions.py),  *)
(* edits the rules (api/routers/rules.py), or promotes on the command line *)
(* (rule_promoter.main).  Every file is read whole and written whole,      *)
(* without a lock, by the polling process, the API process and the command *)
(* line; an open for writing truncates the file before it is filled.       *)
(*                                                                         *)
(* "clf" is a classification pattern (resource type and metrics; the label *)
(* is the anomaly type), "dec" a decision pattern (resource type and       *)
(* anomaly type; the label is the action).                                 *)
(***************************************************************************)
EXTENDS Integers, Sequences, FiniteSets

CONSTANTS Runs,         \* anomalous runs, one judgement of each kind
          Requests,     \* clicks and commands of administrators
          Keys,         \* patterns, label aside
          KeyOf,        \* the pattern of a run
          Labels,       \* answers the LLM may give, None when it has none
          MinCount,     \* MIN_PROMOTION_COUNT
          InitPending,  \* the queue shipped with the repository
          InitRules,    \* the rules shipped with the repository
          Scenes,       \* runs that are over at the start, requests to come
          MaxRestarts   \* bound: deaths of a process

Kinds     == {"clf", "dec"}
Books     == Kinds \cup {"white"}
Processes == {"polling", "api"}
None      == "None"

\* What the shipped files hold: entries of the queue, rules, in sequences.
Waits  == [id : Nat, key : Keys, label : Labels, count : Nat]
Ruling == [id : Nat, key : Keys, enabled : BOOLEAN, by : {"create", "approve", "promote"},
           count : Nat]

ASSUME PromotionAssumption ==
  /\ IsFiniteSet(Runs) /\ Runs \cap Requests = {} /\ KeyOf \in [Runs -> Keys]
  /\ MinCount \in Nat \ {0}
  /\ InitPending \subseteq [Kinds -> Seq(Waits)]
  /\ InitRules \subseteq [Books -> [torn : {FALSE}, data : Seq(Ruling)]]
  /\ Scenes \subseteq [over : SUBSET Runs, asking : SUBSET Requests]
  /\ MaxRestarts \in Nat

VARIABLES log,      \* the two LLM logs: an entry per run
          pending,  \* pending_rule_promotions.json
          rules,    \* classification_rules, decision_rules, whitelist.json
          engine,   \* the RuleEngine singleton of each process
          loading,  \* the one get_rule_engine is building in each process
          run,      \* where each run is, and what it has in memory
          req,      \* the same for each request
          restarts, \* deaths so far
          verdicts, \* history: the QA verdicts of each run
          clash,    \* history: an actor moved while another held a copy
          overtaken, \* history: a rules file was written while what an engine of
                    \* the API is to have of it was in hand
          torn      \* history: a write was cut short, by a death or an error

files   == <<log, pending, rules>>
engines == <<engine, loading>>
history == <<clash, overtaken>>
vars == <<files, engines, run, req, restarts, verdicts, history, torn>>

-----------------------------------------------------------------------------
\* A log entry; "absent" when the log has no line of the run.
NoEntry == [label |-> None, llm |-> FALSE, qa |-> "absent"]
Logged(label, llm) == [label |-> label, llm |-> llm, qa |-> "none"]

\* A rules file that is being written cannot be parsed; a queue that is
\* being written is read as an empty one (load_pending_promotions).
Rule(id, key, by, count) ==
  [id |-> id, key |-> key, enabled |-> TRUE, by |-> by, count |-> count]
TornFile == [torn |-> TRUE, data |-> << >>]
File(d)  == [torn |-> FALSE, data |-> d]
EmptyQueue == [clf |-> << >>, dec |-> << >>]

Unloaded == [loaded |-> FALSE]
Elements(s) == {s[i] : i \in DOMAIN s}

\* Mutant: the decision rules stay as they were.
NextFile_NoDecisions == [clf |-> "white", dec |-> "white", white |-> "end"]

\* RuleEngine.load_rules reads and assigns one file after the other, without a
\* lock (qa_rules.json, which nobody writes, is left out): the file that is next.
NextFile == [clf |-> "dec", dec |-> "white", white |-> "end"]

\* The files before the next one.
ReadBefore == [clf |-> {}, dec |-> {"clf"}, white |-> Kinds, end |-> Books]

\* What is assigned: the enabled rules, the whitelist.
EnabledKeys(k) == {x.key : x \in {y \in Elements(rules[k].data) : y.enabled}}

EmptyEngine == [loaded |-> TRUE, clf |-> {}, dec |-> {}, white |-> {}]
Unbuilt     == [file |-> "clf", built |-> EmptyEngine]

-----------------------------------------------------------------------------
(***************************************************************************)
(* Candidates: find_promotion_candidates and find_patterns                 *)
(***************************************************************************)
\* Mutant: an answer counts whatever QA said of it.
Verified_Any(lg) == {t \in Runs : lg[t].llm /\ lg[t].qa # "absent"}

Verified(lg) == {t \in Runs : lg[t].llm /\ lg[t].qa = "passed"}

Support(lg, key, label) ==
  {t \in Verified(lg) : KeyOf[t] = key /\ lg[t].label = label}

\* A pattern with the answer most runs gave: how many did, how many runs it has.
Patterns == [key : Keys, label : Labels \ {None}, count : 1 .. Cardinality(Runs),
             size : 1 .. Cardinality(Runs)]

\* Mutant: one answer more than MinCount is asked for.
find_promotion_candidates_More(lg) ==
  { c \in Patterns : /\ c.count = Cardinality(Support(lg, c.key, c.label))
                     /\ c.size = c.count
                     /\ c.count > MinCount }

\* A classification: MinCount equal answers.
find_promotion_candidates(lg) ==
  { c \in Patterns : /\ c.count = Cardinality(Support(lg, c.key, c.label))
                     /\ c.size = c.count
                     /\ c.count >= MinCount }

\* A decision: MinCount answers, of which four in five agree
\* (CONSISTENCY_THRESHOLD).
find_patterns(lg) ==
  { c \in Patterns : /\ c.count = Cardinality(Support(lg, c.key, c.label))
                     /\ c.size = Cardinality({t \in Verified(lg) : KeyOf[t] = c.key})
                     /\ c.size >= MinCount
                     /\ 5 * c.count >= 4 * c.size }

Candidates(k, lg) ==
  IF k = "clf" THEN find_promotion_candidates(lg) ELSE find_patterns(lg)

\* is_already_covered and is_decision_rule_covered: by any rule, a disabled
\* one too.
Covered(key, book) == \E x \in Elements(book) : x.key = key

AlreadyPending(key, queue) == \E e \in Elements(queue) : e.key = key

\* The candidates in the order they are queued: by the runs of the pattern,
\* one per key.
NewCandidates(cands, book, queue) ==
  LET new == {c \in cands : /\ ~Covered(c.key, book)
                            /\ ~AlreadyPending(c.key, queue)}
      best == {P \in SUBSET new :
                 \A c \in new : \E p \in P :
                   /\ p.key = c.key /\ p.size >= c.size
                   /\ \A q \in P : q.key = p.key => q = p}
  IN  UNION { {s \in [1 .. Cardinality(P) -> P] :
                 \A i, j \in 1 .. Cardinality(P) :
                   i < j => s[i] # s[j] /\ s[i].size >= s[j].size} : P \in best }

\* Identifiers are the length of the queue at that moment.
PendingEntry(id, c) ==
  [id |-> id, key |-> c.key, label |-> c.label, count |-> c.count]
Enqueued(queue, new) ==
  queue \o [i \in DOMAIN new |-> PendingEntry(Len(queue) + i, new[i])]

FirstWithId(s, id) ==
  IF \E i \in DOMAIN s : s[i].id = id
    THEN CHOOSE i \in DOMAIN s : s[i].id = id /\ \A j \in 1 .. i - 1 : s[j].id # id
    ELSE 0

\* Mutant: the approved entry stays in the queue.
Pop_Forgotten(s, i) == s

Pop(s, i) == SubSeq(s, 1, i - 1) \o SubSeq(s, i + 1, Len(s))

NextRuleId(book) ==
  IF book = << >> THEN 1
  ELSE LET ids == {x.id : x \in Elements(book)}
       IN  1 + CHOOSE n \in ids : \A m \in ids : m <= n

-----------------------------------------------------------------------------
\* The copies an actor holds between a read and the write it leads to.
Memory == [queue |-> EmptyQueue, book |-> << >>, log |-> [t \in Runs |-> NoEntry],
           cands |-> {}, file |-> "clf", keys |-> {}]

InitRun == [phase |-> "idle", kind |-> "clf", host |-> "polling",
            asked |-> [clf |-> FALSE, dec |-> FALSE], pseudo_code |-> FALSE,
            verdict |-> None,
            mem |-> Memory]
InitReq == [phase |-> "idle", op |-> None, kind |-> "clf",
            entry |-> [id |-> 0, key |-> None], got |-> [id |-> 0, key |-> None], mem |-> Memory]

\* The runs that are over at the start have left a verified entry in the log.
Init ==
  \E scene \in Scenes :
  /\ log = [k \in Kinds |-> [t \in Runs |->
              IF t \in scene.over /\ k = "clf"
                THEN [label |-> "x", llm |-> TRUE, qa |-> "passed"] ELSE NoEntry]]
  /\ pending \in InitPending
  /\ rules \in InitRules
  /\ engine = [p \in Processes |-> Unloaded]
  /\ loading = [p \in Processes |-> Unbuilt]
  /\ run = [t \in Runs |->
              [InitRun EXCEPT !.phase = IF t \in scene.over THEN "end" ELSE "idle"]]
  /\ req = [r \in Requests |->
              [InitReq EXCEPT !.phase = IF r \in scene.asking THEN "idle" ELSE "over"]]
  /\ restarts = 0
  /\ verdicts = [t \in Runs |-> IF t \in scene.over THEN {"passed"} ELSE {}]
  /\ clash = FALSE
  /\ overtaken = FALSE
  /\ torn = FALSE

Goto(t, phase) ==
  run' = [run EXCEPT ![t] = [@ EXCEPT !.phase = phase, !.verdict = None,
                                      !.mem = Memory]]
GotoReq(r, phase) == req' = [req EXCEPT ![r] = [@ EXCEPT !.phase = phase, !.mem = Memory]]

-----------------------------------------------------------------------------
(***************************************************************************)
(* A run: classification_node, decision_node, qa_node, logging_node        *)
(***************************************************************************)
InPolling(t) == /\ run[t].host = "polling"
                /\ run[t].phase \notin {"idle", "end", "dead"}

\* The polling process runs one pipeline at a time.
Classify(t) ==
  /\ run[t].phase = "idle" /\ \A u \in Runs : ~InPolling(u)
  /\ engine["polling"].loaded
  /\ IF KeyOf[t] \in engine["polling"].clf
       THEN /\ run' = [run EXCEPT ![t].phase = "decide"]
            /\ UNCHANGED log
       ELSE /\ \E label \in Labels :
                 log' = [log EXCEPT !["clf"][t] = Logged(label, TRUE)]
            /\ run' = [run EXCEPT ![t].phase = "decide", ![t].asked.clf = TRUE]
  /\ UNCHANGED <<pending, rules, engines, req, restarts, verdicts, torn>>

\* The answer of the LLM, or of the fallback table (llm FALSE, no
\* pseudo code).  An approved or rejected run goes on in the API process.
Decide(t) ==
  /\ run[t].phase = "decide"
  /\ \E host \in Processes, llm \in BOOLEAN, label \in Labels \ {None} :
       IF KeyOf[t] \in engine["polling"].dec
         THEN /\ run' = [run EXCEPT ![t].phase = "qa", ![t].host = host]
              /\ UNCHANGED log
         ELSE /\ log' = [log EXCEPT !["dec"][t] = Logged(label, llm)]
              /\ run' = [run EXCEPT ![t].phase = "qa", ![t].host = host,
                                    ![t].asked.dec = TRUE,
                                    ![t].pseudo_code = llm]
  /\ UNCHANGED <<pending, rules, engines, req, restarts, verdicts, torn>>

\* A resource on the whitelist passes, and its answer stays unverified.
Whitelisted(t) ==
  /\ run[t].phase = "qa"
  /\ Goto(t, "queue")
  /\ UNCHANGED <<files, engines, req, restarts, verdicts, torn>>

\* _update_llm_log_with_qa_result reads the log; a run whose decision was
\* not the LLM's is passed over.  A failed run may be verified again.
Verify(t) ==
  /\ run[t].phase = "qa"
  /\ \E v \in {"passed", "failed"} :
       /\ v \notin verdicts[t]
       /\ verdicts' = [verdicts EXCEPT ![t] = @ \cup {v}]
       /\ IF run[t].pseudo_code /\ log["clf"][t].qa = "none"
            THEN run' = [run EXCEPT ![t] = [@ EXCEPT !.phase = "qa_write",
                           !.verdict = v, !.mem.log = log["clf"]]]
            ELSE \E next \in IF v = "failed" THEN {"qa", "queue"} ELSE {"queue"} :
                   Goto(t, next)
  /\ UNCHANGED <<files, engines, req, restarts, torn>>

\* The whole log is written back.  What was appended since it was read is
\* gone; an append during the write leaves a line nothing can parse.
WriteVerdict(t) ==
  /\ run[t].phase = "qa_write"
  /\ log' = [log EXCEPT !["clf"] = [run[t].mem.log EXCEPT ![t].qa = run[t].verdict]]
  /\ \E next \in IF run[t].verdict = "failed" THEN {"qa", "queue"} ELSE {"queue"} :
       Goto(t, next)
  /\ UNCHANGED <<pending, rules, engines, req, restarts, verdicts, torn>>

\* logging_node queues the patterns of a kind it asked the LLM about.
AfterQueue(t) == IF run[t].kind = "clf" THEN "queue" ELSE "end"
NextKind(t) ==
  run' = [run EXCEPT ![t] = [@ EXCEPT !.phase = AfterQueue(t), !.kind = "dec",
                                      !.mem = Memory]]

QueueRead(t) ==
  /\ run[t].phase = "queue"
  /\ LET k == run[t].kind
         cands == Candidates(k, log[k])
     IN  IF ~run[t].asked[k] \/ rules[k].torn \/ cands = {}
           THEN NextKind(t)
           ELSE run' = [run EXCEPT ![t] = [@ EXCEPT !.phase = "pending",
                          !.mem.cands = cands, !.mem.book = rules[k].data]]
  /\ UNCHANGED <<files, engines, req, restarts, verdicts, torn>>

QueuePending(t) ==
  /\ run[t].phase = "pending"
  /\ LET k == run[t].kind
         m == run[t].mem
     IN  \E new \in NewCandidates(m.cands, m.book, pending[k]) :
           IF new = << >>
             THEN NextKind(t)
             ELSE run' = [run EXCEPT ![t] = [@ EXCEPT !.phase = "truncate",
                            !.mem.queue = [pending EXCEPT ![k] = Enqueued(@, new)]]]
  /\ UNCHANGED <<files, engines, req, restarts, verdicts, torn>>

QueueTruncate(t) ==
  /\ run[t].phase = "truncate"
  /\ pending' = EmptyQueue
  /\ run' = [run EXCEPT ![t].phase = "dump"]
  /\ UNCHANGED <<log, rules, engines, req, restarts, verdicts, torn>>

QueueDump(t) ==
  /\ run[t].phase = "dump"
  /\ pending' = run[t].mem.queue
  /\ NextKind(t)
  /\ UNCHANGED <<log, rules, engines, req, restarts, verdicts, torn>>

Queue(t) ==
  QueueRead(t) \/ QueuePending(t) \/ QueueTruncate(t) \/ QueueDump(t)

queue_promotion_candidates(t)          == run[t].kind = "clf" /\ Queue(t)
queue_decision_promotion_candidates(t) == run[t].kind = "dec" /\ Queue(t)

RunStep(t) == \/ Classify(t) \/ Decide(t)
              \/ Whitelisted(t) \/ Verify(t) \/ WriteVerdict(t)
              \/ queue_promotion_candidates(t)
              \/ queue_decision_promotion_candidates(t)
-----------------------------------------------------------------------------
(***************************************************************************)
(* A request: approve_pending_rule, reject_pending_rule, their decision    *)
(* twins, the routes of rules.py, and the main of rule_promoter            *)
(***************************************************************************)
InApi(r) == /\ req[r].op # "promote"
            /\ req[r].phase \notin {"idle", "over", "lost"}

\* A click on an entry of the queue, or on a rule, as the page showed it.
Click(r) ==
  /\ req[r].phase = "idle"
  /\ \/ \E k \in Kinds, op \in {"approve", "reject"} : \E e \in Elements(pending[k]) :
          req' = [req EXCEPT ![r] = [@ EXCEPT !.op = op, !.kind = k, !.entry = e,
                                              !.phase = "queue"]]
     \/ \E k \in Books, op \in {"toggle", "delete"} : \E e \in Elements(rules[k].data) :
          /\ ~(k = "white" /\ op = "toggle")
          /\ req' = [req EXCEPT ![r] = [@ EXCEPT !.op = op, !.kind = k, !.entry = e,
                                                 !.phase = "book"]]
  /\ UNCHANGED <<files, run, engines, restarts, verdicts, torn>>

\* A rule or a whitelist entry of the administrator's own, or another
\* content for a whitelist entry.
Submit(r) ==
  /\ req[r].phase = "idle"
  /\ \E k \in Books, key \in Keys :
       \E id \in {0} \cup (IF k = "white" THEN {e.id : e \in Elements(rules[k].data)}
                                        ELSE {}) :
         req' = [req EXCEPT ![r] = [@ EXCEPT
                   !.op = IF id = 0 THEN "create" ELSE "update", !.kind = k,
                   !.entry = [id |-> id, key |-> key], !.phase = "book"]]
  /\ UNCHANGED <<files, run, engines, restarts, verdicts, torn>>

\* load_pending_promotions, and the first entry with the clicked identifier.
FindPending(r) ==
  /\ req[r].phase = "queue"
  /\ LET k == req[r].kind
         i == FirstWithId(pending[k], req[r].entry.id)
         popped == [pending EXCEPT ![k] = Pop(@, i)]
     IN  IF i = 0 THEN GotoReq(r, "over")
         ELSE req' = [req EXCEPT ![r] = [@ EXCEPT
                        !.phase = IF req[r].op = "reject" THEN "truncate" ELSE "book",
                        !.got = pending[k][i], !.mem.queue = popped]]
  /\ UNCHANGED <<files, run, engines, restarts, verdicts, torn>>

\* rule_promoter.main reads the log and the rules once, before it asks.
StartPromote(r) ==
  /\ req[r].phase = "idle" /\ ~rules["clf"].torn
  /\ LET open == {c \in Candidates("clf", log["clf"]) :
                    ~Covered(c.key, rules["clf"].data)}
     IN  req' = [req EXCEPT ![r] = [@ EXCEPT !.op = "promote", !.phase = "ask",
                   !.mem.cands = open, !.mem.book = rules["clf"].data]]
  /\ UNCHANGED <<files, run, engines, restarts, verdicts, torn>>

\* The answer y or n to the next candidate; no more candidates: the end.
Ask(r) ==
  /\ req[r].phase = "ask"
  /\ IF req[r].mem.cands = {}
       THEN GotoReq(r, "over")
       ELSE LET m == req[r].mem
            IN  \E c \in m.cands, yes \in BOOLEAN :
                  req' = [req EXCEPT ![r] = [@ EXCEPT
                    !.mem.cands = m.cands \ {c},
                    !.mem.book = IF yes THEN Append(m.book, Rule(NextRuleId(m.book), c.key,
                                                                "promote", c.count))
                                        ELSE m.book,
                    !.phase = IF yes THEN "book_truncate" ELSE "ask"]]
  /\ UNCHANGED <<files, run, engines, restarts, verdicts, torn>>

\* What the request makes of the rules file it has read.
Edited(r, book) ==
  LET i == FirstWithId(book, req[r].entry.id)
  IN  CASE req[r].op = "approve" ->
             Append(book, Rule(NextRuleId(book), req[r].got.key, "approve", req[r].got.count))
        [] req[r].op = "create"  ->
             Append(book, Rule(NextRuleId(book), req[r].entry.key, "create", 0))
        [] req[r].op = "toggle"  -> [book EXCEPT ![i].enabled = ~@]
        [] req[r].op = "update"  -> [book EXCEPT ![i].key = req[r].entry.key]
        [] OTHER                 -> Pop(book, i)

\* A rules file that cannot be parsed, or no longer holds the rule, ends it.
ReadBook(r) ==
  /\ req[r].phase = "book"
  /\ LET file == rules[req[r].kind]
     IN  IF \/ file.torn
            \/ /\ req[r].op \in {"toggle", "delete", "update"}
               /\ FirstWithId(file.data, req[r].entry.id) = 0
           THEN GotoReq(r, "over")
           ELSE req' = [req EXCEPT ![r] = [@ EXCEPT !.phase = "book_truncate",
                          !.mem.book = Edited(r, file.data)]]
  /\ UNCHANGED <<files, run, engines, restarts, verdicts, torn>>

BookTruncate(r) ==
  /\ req[r].phase = "book_truncate"
  /\ rules' = [rules EXCEPT ![req[r].kind] = TornFile]
  /\ req' = [req EXCEPT ![r].phase = "book_dump"]
  /\ UNCHANGED <<log, pending, run, engines, restarts, verdicts, torn>>

\* save_rules; then the approved entry leaves the queue.
BookDump(r) ==
  /\ req[r].phase = "book_dump"
  /\ rules' = [rules EXCEPT ![req[r].kind] = File(req[r].mem.book)]
  /\ req' = [req EXCEPT ![r].phase = CASE req[r].op = "approve" -> "truncate"
                                       [] req[r].op = "promote" -> "ask"
                                       [] OTHER                 -> "reload"]
  /\ UNCHANGED <<log, pending, run, engines, restarts, verdicts, torn>>

PendingTruncate(r) ==
  /\ req[r].phase = "truncate"
  /\ pending' = EmptyQueue
  /\ req' = [req EXCEPT ![r].phase = "dump"]
  /\ UNCHANGED <<log, rules, run, engines, restarts, verdicts, torn>>

PendingDump(r) ==
  /\ req[r].phase = "dump"
  /\ pending' = req[r].mem.queue
  /\ GotoReq(r, IF req[r].op = "approve" THEN "reload" ELSE "over")
  /\ UNCHANGED <<log, rules, run, engines, restarts, verdicts, torn>>

\* reload_rules, in the API process only and only of an engine that is loaded.
\* A file that is being written raises, and those after it stay as they were.
ReloadRead(r) ==
  /\ req[r].phase = "reload"
  /\ LET k == req[r].mem.file
     IN  IF ~engine["api"].loaded \/ rules[k].torn
           THEN GotoReq(r, "over")
           ELSE req' = [req EXCEPT ![r] = [@ EXCEPT !.phase = "install",
                                                    !.mem.keys = EnabledKeys(k)]]
  /\ UNCHANGED <<files, run, engines, restarts, verdicts, torn>>

ReloadInstall(r) ==
  /\ req[r].phase = "install"
  /\ LET k == req[r].mem.file
     IN  /\ engine' = [engine EXCEPT !["api"][k] = req[r].mem.keys]
         /\ IF NextFile[k] = "end"
              THEN GotoReq(r, "over")
              ELSE req' = [req EXCEPT ![r] = [@ EXCEPT !.phase = "reload",
                             !.mem.file = NextFile[k], !.mem.keys = {}]]
  /\ UNCHANGED <<files, run, loading, restarts, verdicts, torn>>

Process(r) == \/ FindPending(r) \/ ReadBook(r) \/ Ask(r)
              \/ BookTruncate(r) \/ BookDump(r)
              \/ PendingTruncate(r) \/ PendingDump(r)
              \/ ReloadRead(r) \/ ReloadInstall(r)

Is(r, op, k) == req[r].op = op /\ req[r].kind = k

approve_pending_rule(r)          == Is(r, "approve", "clf") /\ Process(r)
reject_pending_rule(r)           == Is(r, "reject", "clf") /\ Process(r)
approve_pending_decision_rule(r) == Is(r, "approve", "dec") /\ Process(r)
reject_pending_decision_rule(r)  == Is(r, "reject", "dec") /\ Process(r)
main(r)                          == Is(r, "promote", "clf") /\ Process(r)

create_rule(r) == \E k \in Kinds : Is(r, "create", k) /\ Process(r)
delete_rule(r) == \E k \in Kinds : Is(r, "delete", k) /\ Process(r)
toggle_rule(r) == \E k \in Kinds : Is(r, "toggle", k) /\ Process(r)
create_whitelist_entry(r) == Is(r, "create", "white") /\ Process(r)
update_whitelist_entry(r) == Is(r, "update", "white") /\ Process(r)
delete_whitelist_entry(r) == Is(r, "delete", "white") /\ Process(r)

ReqStep(r) == \/ approve_pending_rule(r) \/ approve_pending_decision_rule(r)
              \/ reject_pending_rule(r) \/ reject_pending_decision_rule(r)
              \/ create_rule(r) \/ delete_rule(r) \/ toggle_rule(r)
              \/ create_whitelist_entry(r) \/ update_whitelist_entry(r)
              \/ delete_whitelist_entry(r) \/ main(r)

-----------------------------------------------------------------------------
(***************************************************************************)
(* Processes                                                               *)
(***************************************************************************)
\* get_rule_engine builds the engine of a process on first use: the polling
\* process when a run is to be classified, the API for get_status or the QA of a
\* resumed run (bound: one at a time).
FirstUse(p) ==
  /\ ~engine[p].loaded
  /\ p = "polling" => /\ \E t \in Runs : run[t].phase = "idle"
                      /\ \A t \in Runs : ~InPolling(t)

LoadFile(p) ==
  /\ FirstUse(p) /\ loading[p].file # "end"
  /\ LET k == loading[p].file
     IN  loading' = [loading EXCEPT ![p] =
           IF rules[k].torn THEN Unbuilt
           ELSE [file |-> NextFile[k], built |-> [@.built EXCEPT ![k] = EnabledKeys(k)]]]
  /\ UNCHANGED <<files, run, engine, req, restarts, verdicts, history, torn>>

PublishEngine(p) ==
  /\ FirstUse(p) /\ loading[p].file = "end"
  /\ engine' = [engine EXCEPT ![p] = loading[p].built]
  /\ loading' = [loading EXCEPT ![p] = Unbuilt]
  /\ UNCHANGED <<files, run, req, restarts, verdicts, history, torn>>

Writing == {"truncate", "dump", "book_truncate", "book_dump"}

\* A write raises: the queue or the rules stay truncated, or were not touched;
\* the caller gives up (return None, 404 or 500).
WriteFails ==
  /\ \/ \E t \in Runs : run[t].phase \in Writing /\ NextKind(t) /\ UNCHANGED req
     \/ \E r \in Requests : req[r].phase \in Writing /\ GotoReq(r, "over")
                           /\ UNCHANGED run
  /\ torn' = TRUE
  /\ UNCHANGED <<files, engines, restarts, verdicts, history>>

\* A process dies, with the runs and requests in it, and is started again.
Restart(p) ==
  /\ restarts < MaxRestarts
  /\ restarts' = restarts + 1
  /\ engine' = [engine EXCEPT ![p] = Unloaded]
  /\ loading' = [loading EXCEPT ![p] = Unbuilt]
  /\ run' = [t \in Runs |->
               IF run[t].host = p /\ run[t].phase \notin {"idle", "end"}
                 THEN [run[t] EXCEPT !.phase = "dead", !.mem = Memory] ELSE run[t]]
  /\ req' = [r \in Requests |->
               IF p = "api" /\ InApi(r)
                 THEN [req[r] EXCEPT !.phase = "lost", !.mem = Memory] ELSE req[r]]
  /\ torn' = \/ torn
             \/ \E t \in Runs : run'[t] # run[t] /\ run[t].phase \in Writing
             \/ \E r \in Requests : req'[r] # req[r] /\ req[r].phase \in Writing
  /\ UNCHANGED <<files, verdicts, history>>

\* An actor that has read a file it is about to write, or is writing it.
Holds(a) ==
  \/ a \in Runs /\ run[a].phase \in Writing \cup {"qa_write", "pending"}
  \/ a \in Requests /\ \/ req[a].phase \in Writing \cup {"ask"}
                       \/ req[a].phase = "book" /\ req[a].op = "approve"

\* The rules of k as an engine of the API is going to have them.
InHand(k) ==
  \/ k \in ReadBefore[loading["api"].file]
  \/ \E r \in Requests : req[r].phase = "install" /\ req[r].mem.file = k

Noted(a) ==
  /\ clash' = (clash \/ \E b \in (Runs \cup Requests) \ {a} : Holds(b))
  /\ overtaken' = (overtaken \/ \E k \in Books : rules'[k] # rules[k] /\ InHand(k))

Next == \/ \E t \in Runs : RunStep(t) /\ Noted(t)
        \/ \E r \in Requests : ReqStep(r) /\ Noted(r)
        \/ \E r \in Requests : (Click(r) \/ Submit(r) \/ StartPromote(r))
                              /\ UNCHANGED history
        \/ \E p \in Processes : LoadFile(p) \/ PublishEngine(p) \/ Restart(p)
        \/ WriteFails

Spec == Init /\ [][Next]_vars
=============================================================================
