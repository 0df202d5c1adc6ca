------------------------- MODULE PromotionProperties -------------------------
(***************************************************************************)
(* What the promotion of rules promises, stated over Promotion.            *)
(***************************************************************************)
EXTENDS Promotion

Entries(k) == Elements(pending[k])
Book(k)    == Elements(rules[k].data)

\* Nobody is between a read and a write.
AtRest == \A a \in Runs \cup Requests : ~Holds(a)

\* The patterns that wait or rule since before the first run.
ShippedKeys ==
  { key \in Keys :
      \/ \E q \in InitPending, k \in Kinds : \E e \in Elements(q[k]) : e.key = key
      \/ \E b \in InitRules, k \in Books : \E x \in Elements(b[k].data) : x.key = key }

PassedRuns(key) == {t \in Runs : KeyOf[t] = key /\ "passed" \in verdicts[t]}

(***************************************************************************)
(* Nothing is offered to the administrator, and nothing becomes a rule by  *)
(* promotion, unless MIN_PROMOTION_COUNT runs of that pattern really       *)
(* passed QA: whatever is overwritten, torn, read late or approved under   *)
(* the wrong identifier (find_promotion_candidates, find_patterns).        *)
(***************************************************************************)
RestsOnVerified ==
  \A k \in Kinds :
    \A e \in Entries(k) \cup {x \in Book(k) : x.by # "create"} :
      e.key \in ShippedKeys \/ /\ e.count >= MinCount
                               /\ e.count <= Cardinality(PassedRuns(e.key))

(***************************************************************************)
(* A pattern is approved once: as long as no two actors were in a file at  *)
(* the same time and no write was cut short, no pattern waits twice, has   *)
(* two approved rules, or waits while an approved rule covers it (the      *)
(* promoter's command line does not look at the queue: its rules may).     *)
(* is_already_covered, is_already_pending, approve_pending_rule.           *)
(***************************************************************************)
ApprovedOnce ==
  ~clash /\ ~torn /\ AtRest =>
    \A k \in Kinds :
      /\ \A i, j \in DOMAIN pending[k] :
           pending[k][i].key = pending[k][j].key => i = j
      /\ \A x, y \in Book(k) : x.by = "approve" /\ y.by = "approve" /\ x.key = y.key => x = y
      /\ \A x \in Book(k), e \in Entries(k) : x.by = "approve" => x.key # e.key

\* No request of the API is in progress, no write failed, and nobody promotes on
\* the command line, which reloads no engine of another process.
ApiAtRest == /\ ~torn
             /\ \A r \in Requests : ~InApi(r) /\ req[r].op # "promote"

UpToDate == \A k \in Books : engine["api"][k] = EnabledKeys(k)

(***************************************************************************)
(* The engine of the API, once its requests are over, has exactly the      *)
(* enabled rules of the files, however their edits, the four reads of each *)
(* reload_rules and the first load interleaved, unless a file was written  *)
(* while a slower reload, or a first load, held what it had read of it     *)
(* before (load_rules and get_rule_engine have no lock).                   *)
(***************************************************************************)
EngineFollowsRules ==
  ApiAtRest /\ ~overtaken /\ engine["api"].loaded => UpToDate

(***************************************************************************)
(* "reload_rules()가 rules.py CRUD 직후 호출되므로 항상 최신 상태"             *)
(* (status.py:112): without that exception.  The code does not keep this.  *)
(***************************************************************************)
EngineIsUpToDate == ApiAtRest /\ engine["api"].loaded => UpToDate

(***************************************************************************)
(* A pattern that is verified often enough when a run of it leaves the     *)
(* pipeline is in the queue or in the book, if no administrator, no other  *)
(* writer and no failure came in between (queue_promotion_candidates,      *)
(* called by logging_node).                                                *)
(***************************************************************************)
FrequentPatternQueued ==
  \A t \in Runs :
    ( /\ run[t].phase = "end" /\ run[t].asked.clf /\ ~clash /\ ~torn
      /\ \A r \in Requests : req[r].op = None
      /\ \A u \in Runs : run[u].phase \in {"idle", "end"} )
    => \A key \in Keys, label \in Labels \ {None} :
         Cardinality({u \in Runs : /\ KeyOf[u] = key
                                   /\ log["clf"][u].label = label
                                   /\ log["clf"][u].llm
                                   /\ log["clf"][u].qa = "passed"}) >= MinCount
         => \/ \E x \in Book("clf") : x.key = key
            \/ \E e \in Entries("clf") : e.key = key

=============================================================================
