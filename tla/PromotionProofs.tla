--------------------------- MODULE PromotionProofs ---------------------------
(***************************************************************************)
(* Theorems about Promotion for every number of runs, of requests and of   *)
(* processes' deaths, every threshold and every shipped file.              *)
(***************************************************************************)
EXTENDS PromotionProperties, SequenceTheorems, FiniteSetTheorems,
        WellFoundedInduction, TLAPS

-----------------------------------------------------------------------------
(***************************************************************************)
(* The operators on queues and books                                       *)
(***************************************************************************)
IsSeq(s) == s \in Seq(Elements(s))

LEMMA SeqFacts ==
  ASSUME NEW s, IsSeq(s)
  PROVE  /\ Len(s) \in Nat /\ DOMAIN s = 1 .. Len(s)
         /\ \A i \in DOMAIN s : s[i] \in Elements(s)
         /\ \A x \in Elements(s) : \E i \in DOMAIN s : x = s[i]
BY DEF IsSeq, Elements

LEMMA TypedSeq ==
  ASSUME NEW S, NEW s \in Seq(S)
  PROVE  IsSeq(s) /\ \A x \in Elements(s) : x \in S
<1>1. \A i \in 1 .. Len(s) : s[i] \in S /\ s[i] \in Elements(s)
  BY ElementOfSeq DEF Elements
<1> QED
  BY <1>1, IsASeq, LenProperties, SeqEqual DEF IsSeq, Elements

LEMMA EmptyIsSeq == IsSeq(<< >>) /\ Elements(<< >>) = {}
BY DEF IsSeq, Elements

\* A sequence given by its elements.
LEMMA ListIsSeq ==
  ASSUME NEW n \in Nat, NEW S, NEW f \in [1 .. n -> S]
  PROVE  IsSeq(f) /\ Len(f) = n /\ \A x \in Elements(f) : x \in S
<1>1. f \in Seq(S)
  OBVIOUS
<1> QED
  BY <1>1, TypedSeq, LenProperties

LEMMA AppendFacts ==
  ASSUME NEW s, IsSeq(s), NEW x
  PROVE  /\ IsSeq(Append(s, x))
         /\ Len(Append(s, x)) = Len(s) + 1
         /\ \A i \in 1 .. Len(s) : Append(s, x)[i] = s[i]
         /\ Append(s, x)[Len(s) + 1] = x
         /\ Elements(Append(s, x)) = Elements(s) \cup {x}
<1> DEFINE S == Elements(s) \cup {x}
           a == Append(s, x)
<1>1. s \in Seq(S) /\ Len(s) \in Nat
  BY SeqMonotonic, SeqFacts DEF IsSeq
<1>2. /\ a \in Seq(S) /\ Len(a) = Len(s) + 1
      /\ \A i \in 1 .. Len(s) : a[i] = s[i]
      /\ a[Len(s) + 1] = x
  BY <1>1, AppendProperties
<1>3. DOMAIN a = 1 .. (Len(s) + 1) /\ DOMAIN s = 1 .. Len(s)
  BY <1>1, <1>2, LenProperties
<1>4. Elements(a) = S
  <2>1. ASSUME NEW y \in Elements(s)
        PROVE  y \in Elements(a)
    <3>1. PICK i \in 1 .. Len(s) : y = s[i]
      BY <1>3 DEF Elements
    <3>2. i \in DOMAIN a /\ a[i] = y
      BY <1>1, <1>2, <1>3, <3>1
    <3> QED
      BY <3>2 DEF Elements
  <2>2. x \in Elements(a)
    BY <1>1, <1>2, <1>3 DEF Elements
  <2>3. \A y \in Elements(a) : y \in S
    BY <1>2, TypedSeq
  <2> QED
    BY <2>1, <2>2, <2>3
<1> QED
  BY <1>2, <1>4, TypedSeq

LEMMA ConcatFacts ==
  ASSUME NEW s, IsSeq(s), NEW t, IsSeq(t)
  PROVE  /\ IsSeq(s \o t)
         /\ Len(s \o t) = Len(s) + Len(t)
         /\ \A i \in 1 .. Len(s) + Len(t) :
              (s \o t)[i] = IF i <= Len(s) THEN s[i] ELSE t[i - Len(s)]
         /\ \A x \in Elements(s \o t) : x \in Elements(s) \cup Elements(t)
         /\ \A x \in Elements(s) \cup Elements(t) : x \in Elements(s \o t)
<1> DEFINE S == Elements(s) \cup Elements(t)
           c == s \o t
<1>1. s \in Seq(S) /\ t \in Seq(S) /\ Len(s) \in Nat /\ Len(t) \in Nat
  BY SeqMonotonic, SeqFacts DEF IsSeq
<1>2. /\ c \in Seq(S) /\ Len(c) = Len(s) + Len(t)
      /\ \A i \in 1 .. Len(s) + Len(t) :
              c[i] = IF i <= Len(s) THEN s[i] ELSE t[i - Len(s)]
  BY <1>1, ConcatProperties
<1>3. DOMAIN c = 1 .. (Len(s) + Len(t)) /\ DOMAIN s = 1 .. Len(s) /\ DOMAIN t = 1 .. Len(t)
  BY <1>1, <1>2, LenProperties
<1>4. ASSUME NEW y \in Elements(s)
      PROVE  y \in Elements(c)
  <2>1. PICK i \in 1 .. Len(s) : y = s[i]
    BY <1>3 DEF Elements
  <2>2. i \in DOMAIN c /\ c[i] = y
    BY <1>1, <1>2, <1>3, <2>1
  <2> QED
    BY <2>2 DEF Elements
<1>5. ASSUME NEW y \in Elements(t)
      PROVE  y \in Elements(c)
  <2>1. PICK i \in 1 .. Len(t) : y = t[i]
    BY <1>3 DEF Elements
  <2>2. Len(s) + i \in DOMAIN c /\ c[Len(s) + i] = y
    BY <1>1, <1>2, <1>3, <2>1
  <2> QED
    BY <2>2 DEF Elements
<1> QED
  BY <1>2, <1>4, <1>5, TypedSeq

\* An element less: the others are there, in the same order.
LEMMA PopFacts ==
  ASSUME NEW s, IsSeq(s), NEW i \in DOMAIN s
  PROVE  /\ IsSeq(Pop(s, i))
         /\ Len(Pop(s, i)) = Len(s) - 1
         /\ \A j \in 1 .. Len(s) - 1 : Pop(s, i)[j] = IF j < i THEN s[j] ELSE s[j + 1]
         /\ \A x \in Elements(Pop(s, i)) : x \in Elements(s)
<1> DEFINE S == Elements(s)
           a == SubSeq(s, 1, i - 1)
           b == SubSeq(s, i + 1, Len(s))
<1>1. /\ s \in Seq(S) /\ Len(s) \in Nat /\ DOMAIN s = 1 .. Len(s) /\ i \in 1 .. Len(s)
      /\ \A j \in 1 .. Len(s) : s[j] \in S
  BY SeqFacts DEF IsSeq
<1>2. /\ a \in Seq(S) /\ Len(a) = i - 1
      /\ \A j \in 1 .. i - 1 : a[j] = s[j]
  <2>1. \A j \in 1 .. i - 1 : s[j] \in S
    BY <1>1
  <2>2. /\ a \in Seq(S) /\ Len(a) = IF 1 <= i - 1 THEN i - 1 - 1 + 1 ELSE 0
        /\ \A j \in 1 .. i - 1 - 1 + 1 : a[j] = s[1 + j - 1]
    BY <1>1, <2>1, SubSeqProperties
  <2> QED
    BY <1>1, <2>2
<1>3. /\ b \in Seq(S) /\ Len(b) = Len(s) - i
      /\ \A j \in 1 .. Len(s) - i : b[j] = s[i + j]
  <2>1. \A j \in i + 1 .. Len(s) : s[j] \in S
    BY <1>1
  <2>2. /\ b \in Seq(S) /\ Len(b) = IF i + 1 <= Len(s) THEN Len(s) - (i + 1) + 1 ELSE 0
        /\ \A j \in 1 .. Len(s) - (i + 1) + 1 : b[j] = s[i + 1 + j - 1]
    BY <1>1, <2>1, SubSeqProperties
  <2>3. \A j \in 1 .. Len(s) - i : /\ j \in 1 .. Len(s) - (i + 1) + 1
                                   /\ i + 1 + j - 1 = i + j
    BY <1>1
  <2>4. \A j \in 1 .. Len(s) - i : b[j] = s[i + j]
    BY <2>2, <2>3, Zenon
  <2> QED
    BY <1>1, <2>2, <2>4
<1> HIDE DEF a, b
<1>4. /\ a \o b \in Seq(S) /\ Len(a \o b) = Len(s) - 1
      /\ \A j \in 1 .. Len(s) - 1 :
           (a \o b)[j] = IF j <= Len(a) THEN a[j] ELSE b[j - Len(a)]
  <2>1. /\ a \o b \in Seq(S) /\ Len(a \o b) = Len(a) + Len(b)
        /\ \A j \in 1 .. Len(a) + Len(b) :
             (a \o b)[j] = IF j <= Len(a) THEN a[j] ELSE b[j - Len(a)]
    BY <1>2, <1>3, ConcatProperties
  <2> QED
    BY <1>1, <1>2, <1>3, <2>1
<1>5. \A j \in 1 .. Len(s) - 1 : (a \o b)[j] = IF j < i THEN s[j] ELSE s[j + 1]
  <2> TAKE j \in 1 .. Len(s) - 1
  <2>1. CASE j < i
    BY <1>1, <1>2, <1>4, <2>1
  <2>2. CASE ~(j < i)
    <3>1. j - Len(a) \in 1 .. Len(s) - i /\ i + (j - Len(a)) = j + 1 /\ ~(j <= Len(a))
      BY <1>1, <1>2, <2>2
    <3> QED
      BY <1>3, <1>4, <2>2, <3>1
  <2> QED
    BY <2>1, <2>2
<1> QED
  BY <1>4, <1>5, TypedSeq DEF Pop, a, b

\* A set of numbers has a least one.
Below == {p \in Nat \X Nat : p[1] < p[2]}

LEMMA Least ==
  ASSUME NEW T, T \subseteq Nat, T # {}
  PROVE  \E n \in T : \A m \in T : ~(m < n)
<1>1. OpToRel(<, Nat) = Below
  BY DEF OpToRel, Below
<1>2. IsWellFoundedOn(Below, Nat)
  BY <1>1, NatLessThanWellFounded, Zenon
<1>3. \E n \in T : \A m \in T : ~(<<m, n>> \in Below)
  BY <1>2, WFMin
<1> QED
  BY <1>3 DEF Below

\* FirstWithId finds an element with that identifier if there is one.
LEMMA FirstFacts ==
  ASSUME NEW s, IsSeq(s), NEW id, FirstWithId(s, id) # 0
  PROVE  /\ FirstWithId(s, id) \in DOMAIN s
         /\ s[FirstWithId(s, id)].id = id
<1> DEFINE T == {i \in DOMAIN s : s[i].id = id}
<1>1. T # {} /\ T \subseteq Nat /\ DOMAIN s = 1 .. Len(s) /\ Len(s) \in Nat
  BY SeqFacts DEF FirstWithId
<1>2. PICK n \in T : \A m \in T : ~(m < n)
  BY <1>1, Least
<1>3. \A j \in 1 .. n - 1 : j \in DOMAIN s /\ j < n
  BY <1>1
<1>4. n \in DOMAIN s /\ s[n].id = id /\ \A j \in 1 .. n - 1 : s[j].id # id
  BY <1>2, <1>3
<1> HIDE DEF T
<1>5. \E i \in DOMAIN s : s[i].id = id /\ \A j \in 1 .. i - 1 : s[j].id # id
  BY <1>4
<1> QED
  BY <1>4, <1>5, Zenon DEF FirstWithId

\* Another content for one element.
LEMMA EditFacts ==
  ASSUME NEW s, IsSeq(s), NEW i \in DOMAIN s, NEW x
  PROVE  /\ IsSeq([s EXCEPT ![i] = x])
         /\ Len([s EXCEPT ![i] = x]) = Len(s)
         /\ \A j \in DOMAIN s : [s EXCEPT ![i] = x][j] = IF j = i THEN x ELSE s[j]
         /\ \A y \in Elements([s EXCEPT ![i] = x]) : y = x \/ y \in Elements(s)
<1> DEFINE S == Elements(s) \cup {x}
           e == [s EXCEPT ![i] = x]
<1>1. s \in Seq(S) /\ i \in 1 .. Len(s) /\ DOMAIN s = 1 .. Len(s)
  BY SeqMonotonic, SeqFacts DEF IsSeq
<1>2. /\ e \in Seq(S) /\ Len(e) = Len(s)
      /\ \A j \in 1 .. Len(s) : e[j] = IF j = i THEN x ELSE s[j]
  BY <1>1, ExceptSeq
<1> HIDE DEF e
<1>3. IsSeq(e) /\ \A y \in Elements(e) : y \in S
  BY <1>2, TypedSeq
<1> QED
  BY <1>1, <1>2, <1>3 DEF e

LEMMA EnqueuedFacts ==
  ASSUME NEW q, IsSeq(q), NEW new, IsSeq(new)
  PROVE  /\ IsSeq(Enqueued(q, new))
         /\ Len(Enqueued(q, new)) = Len(q) + Len(new)
         /\ \A i \in 1 .. Len(q) : Enqueued(q, new)[i] = q[i]
         /\ \A i \in 1 .. Len(new) :
              Enqueued(q, new)[Len(q) + i] = PendingEntry(Len(q) + i, new[i])
         /\ \A e \in Elements(Enqueued(q, new)) :
              e \in Elements(q) \/ \E c \in Elements(new) :
                                     e.key = c.key /\ e.count = c.count
<1> DEFINE t == [i \in DOMAIN new |-> PendingEntry(Len(q) + i, new[i])]
           S == {PendingEntry(Len(q) + i, new[i]) : i \in DOMAIN new}
<1>1. Len(new) \in Nat /\ DOMAIN new = 1 .. Len(new) /\ Len(q) \in Nat
  BY SeqFacts
<1>2. t \in [1 .. Len(new) -> S]
  BY <1>1
<1>3. \A i \in 1 .. Len(new) : t[i] = PendingEntry(Len(q) + i, new[i])
  BY <1>1
<1>4. \A x \in S : \E c \in Elements(new) : x.key = c.key /\ x.count = c.count
  BY DEF Elements, PendingEntry
<1> HIDE DEF t, S
<1>5. IsSeq(t) /\ Len(t) = Len(new) /\ \A x \in Elements(t) : x \in S
  BY <1>1, <1>2, ListIsSeq
<1>6. /\ IsSeq(q \o t) /\ Len(q \o t) = Len(q) + Len(new)
      /\ \A i \in 1 .. Len(q) + Len(t) : (q \o t)[i] = IF i <= Len(q) THEN q[i] ELSE t[i - Len(q)]
      /\ \A x \in Elements(q \o t) : x \in Elements(q) \cup Elements(t)
  BY <1>5, ConcatFacts
<1>7. \A i \in 1 .. Len(new) : (q \o t)[Len(q) + i] = t[i]
  <2> TAKE i \in 1 .. Len(new)
  <2>1. Len(q) + i \in 1 .. Len(q) + Len(t) /\ ~(Len(q) + i <= Len(q)) /\ Len(q) + i - Len(q) = i
    BY <1>1, <1>5
  <2> QED
    BY <1>6, <2>1
<1>8. \A i \in 1 .. Len(q) : (q \o t)[i] = q[i]
  BY <1>1, <1>5, <1>6
<1>9. Enqueued(q, new) = q \o t
  BY DEF Enqueued, t
<1> QED
  BY <1>3, <1>4, <1>5, <1>6, <1>7, <1>8, <1>9

-----------------------------------------------------------------------------
(***************************************************************************)
(* Candidates                                                              *)
(***************************************************************************)
\* There are finitely many: each has a run of its own that gave the answer.
LEMMA CandidatesFinite ==
  ASSUME NEW k \in Kinds, NEW lg
  PROVE  IsFiniteSet(Candidates(k, lg)) /\ Candidates(k, lg) \subseteq Patterns
<1> DEFINE C == Candidates(k, lg)
           f == [c \in C |-> CHOOSE t \in Runs : t \in Support(lg, c.key, c.label)]
<1>1. C \subseteq Patterns
  BY DEF Candidates, find_promotion_candidates, find_patterns
<1>2. \A c \in C : /\ c.count = Cardinality(Support(lg, c.key, c.label)) /\ c.count # 0
                   /\ \/ c.size = c.count
                      \/ c.size = Cardinality({t \in Verified(lg) : KeyOf[t] = c.key})
  BY <1>1 DEF Candidates, find_promotion_candidates, find_patterns, Patterns
<1>3. \A c \in C : \E t \in Runs : t \in Support(lg, c.key, c.label)
  BY <1>2, FS_EmptySet DEF Support, Verified
<1>4. \A c \in C : /\ f[c] \in Runs /\ f[c] \in Support(lg, c.key, c.label)
  BY <1>3
<1> HIDE DEF f
<1>5. \A c \in C : c.key = KeyOf[f[c]] /\ c.label = lg[f[c]].label
  BY <1>4 DEF Support
<1>6. ASSUME NEW c \in C, NEW d \in C, f[c] = f[d]
      PROVE  c = d
  <2>1. c.key = d.key /\ c.label = d.label /\ c.count = d.count
    <3>1. c.key = d.key /\ c.label = d.label
      BY <1>5, <1>6
    <3>2. Support(lg, c.key, c.label) = Support(lg, d.key, d.label)
      BY <3>1
    <3> QED
      BY <1>2, <3>1, <3>2
  <2>2. c.size = d.size
    <3>1. CASE k = "clf"
      BY <1>2, <2>1, <3>1 DEF Candidates, find_promotion_candidates
    <3>2. CASE k # "clf"
      <4>1. \A e \in C : e.size = Cardinality({t \in Verified(lg) : KeyOf[t] = e.key})
        BY <3>2 DEF Candidates, find_patterns
      <4>2. {t \in Verified(lg) : KeyOf[t] = c.key} = {t \in Verified(lg) : KeyOf[t] = d.key}
        BY <2>1
      <4> QED
        BY <4>1, <4>2
    <3> QED
      BY <3>1, <3>2
  <2>3. c \in Patterns /\ d \in Patterns
    BY <1>1
  <2> QED
    BY <2>1, <2>2, <2>3 DEF Patterns
<1>7. f \in Injection(C, Runs)
  BY <1>4, <1>6 DEF f, Injection, IsInjective
<1> QED
  BY <1>1, <1>7, FS_Injection, PromotionAssumption

\* What is queued: candidates that neither rule nor wait, one per pattern.
LEMMA NewFacts ==
  ASSUME NEW cands, IsFiniteSet(cands), NEW book, NEW queue,
         NEW new \in NewCandidates(cands, book, queue)
  PROVE  /\ IsSeq(new)
         /\ \A c \in Elements(new) : /\ c \in cands /\ ~Covered(c.key, book)
                                     /\ ~AlreadyPending(c.key, queue)
         /\ \A i, j \in 1 .. Len(new) : new[i].key = new[j].key => i = j
<1> DEFINE open == {c \in cands : ~Covered(c.key, book) /\ ~AlreadyPending(c.key, queue)}
<1>1. PICK P \in SUBSET open :
        /\ \A c \in open : \E p \in P : /\ p.key = c.key /\ p.size >= c.size
                                        /\ \A q \in P : q.key = p.key => q = p
        /\ new \in [1 .. Cardinality(P) -> P]
        /\ \A i, j \in 1 .. Cardinality(P) : i < j => new[i] # new[j] /\ new[i].size >= new[j].size
  BY Zenon DEF NewCandidates
<1>2. \A c \in open : c \in cands /\ ~Covered(c.key, book) /\ ~AlreadyPending(c.key, queue)
  OBVIOUS
<1>3. open \subseteq cands
  OBVIOUS
<1> HIDE DEF open
<1>4. Cardinality(P) \in Nat
  BY <1>1, <1>3, FS_Subset, FS_CardinalityType
<1>5. IsSeq(new) /\ Len(new) = Cardinality(P) /\ \A c \in Elements(new) : c \in P
  BY <1>1, <1>4, ListIsSeq
<1>6. ASSUME NEW i \in 1 .. Len(new), NEW j \in 1 .. Len(new), new[i].key = new[j].key
      PROVE  i = j
  <2>1. new[i] \in P /\ new[j] \in P /\ new[i] \in open
    BY <1>1, <1>5
  <2>2. PICK p \in P : p.key = new[i].key /\ \A q \in P : q.key = p.key => q = p
    BY <1>1, <2>1
  <2>3. new[i] = new[j]
    BY <1>6, <2>1, <2>2
  <2>4. i \in Nat /\ j \in Nat /\ i \in 1 .. Cardinality(P) /\ j \in 1 .. Cardinality(P)
    BY <1>5
  <2> QED
    BY <1>1, <2>3, <2>4
<1> QED
  BY <1>1, <1>2, <1>5, <1>6

-----------------------------------------------------------------------------
(***************************************************************************)
(* Types: the files, and what every actor is doing                         *)
(***************************************************************************)
LogEntry == [label : Labels \cup {None, "x"}, llm : BOOLEAN,
             qa : {"absent", "none", "passed", "failed"}]

IsQueue(q) == DOMAIN q = Kinds /\ \A k \in Kinds : IsSeq(q[k])
IsBook(b)  == IsSeq(b) /\ \A x \in Elements(b) : DOMAIN x = {"id", "key", "enabled", "by", "count"}
IsFile(f)  == /\ DOMAIN f = {"torn", "data"}
              /\ f.torn \in BOOLEAN /\ IsBook(f.data)

IsMemory(m) ==
  /\ DOMAIN m = {"queue", "book", "log", "cands", "file", "keys"}
  /\ IsQueue(m.queue) /\ IsBook(m.book)
  /\ m.log \in [Runs -> LogEntry]
  /\ IsFiniteSet(m.cands) /\ m.file \in Books

RunPhases == {"idle", "decide", "qa", "qa_write", "queue", "pending", "truncate", "dump",
              "end", "dead"}
IsRun(m) ==
  /\ DOMAIN m = {"phase", "kind", "host", "asked", "pseudo_code", "verdict", "mem"}
  /\ m.phase \in RunPhases /\ m.kind \in Kinds /\ m.host \in Processes
  /\ DOMAIN m.asked = Kinds
  /\ m.verdict \in {None, "passed", "failed"}
  /\ m.phase = "qa_write" => m.verdict # None
  /\ IsMemory(m.mem)

\* Which steps a request of each kind comes to.
ReqPhases(op) ==
  CASE op = None      -> {"idle", "over"}
    [] op = "approve" -> {"queue", "book", "book_truncate", "book_dump", "truncate",
                          "dump", "reload", "install", "over", "lost"}
    [] op = "reject"  -> {"queue", "truncate", "dump", "over", "lost"}
    [] op = "promote" -> {"ask", "book_truncate", "book_dump", "over"}
    [] OTHER          -> {"book", "book_truncate", "book_dump", "reload", "install", "over",
                          "lost"}
Reloading == {"reload", "install"}
IsReq(m) ==
  /\ DOMAIN m = {"phase", "op", "kind", "entry", "got", "mem"}
  /\ m.op \in {None, "approve", "reject", "promote", "create", "toggle", "update", "delete"}
  /\ m.phase \in ReqPhases(m.op)
  /\ m.kind \in Books
  /\ m.op \in {"approve", "reject", "toggle"} => m.kind \in Kinds
  /\ m.op \in {None, "promote"} => m.kind = "clf"
  /\ m.op = "update" => m.kind = "white"
  /\ m.phase \in Reloading \/ m.mem.file = "clf"
  /\ IsMemory(m.mem)

ActorsTyped ==
  /\ DOMAIN run = Runs /\ \A t \in Runs : IsRun(run[t])
  /\ DOMAIN req = Requests /\ \A r \in Requests : IsReq(req[r])
LogTyped   == log \in [Kinds -> [Runs -> LogEntry]]
RulesTyped == DOMAIN rules = Books /\ \A k \in Books : IsFile(rules[k])

IsEngine(e) == DOMAIN e = {"loaded"} \cup Books /\ e.loaded
EnginesTyped ==
  /\ DOMAIN engine = Processes
  /\ \A p \in Processes : engine[p] = Unloaded \/ IsEngine(engine[p])
  /\ DOMAIN loading = Processes
  /\ \A p \in Processes : /\ DOMAIN loading[p] = {"file", "built"}
                          /\ loading[p].file \in Books \cup {"end"}
                          /\ IsEngine(loading[p].built)

TypeOK ==
  /\ LogTyped /\ IsQueue(pending) /\ RulesTyped
  /\ EnginesTyped
  /\ ActorsTyped
  /\ verdicts \in [Runs -> SUBSET {"passed", "failed"}]

LEMMA EmptyMemory == IsMemory(Memory)
<1>1. IsQueue(EmptyQueue)
  BY EmptyIsSeq DEF IsQueue, EmptyQueue, Kinds
<1>2. [t \in Runs |-> NoEntry] \in [Runs -> LogEntry]
  BY DEF NoEntry, LogEntry
<1> QED
  BY <1>1, <1>2, EmptyIsSeq, FS_EmptySet DEF IsMemory, Memory, IsBook, Books, Kinds

LEMMA UnbuiltTyped ==
  /\ DOMAIN Unbuilt = {"file", "built"} /\ Unbuilt.file = "clf" /\ Unbuilt.file \in Books
  /\ IsEngine(Unbuilt.built)
BY DEF Unbuilt, EmptyEngine, IsEngine, Books, Kinds

LEMMA InitType == Init => TypeOK
<1> SUFFICES ASSUME Init PROVE TypeOK
  OBVIOUS
<1>1. PICK scene \in Scenes :
        /\ log = [k \in Kinds |-> [t \in Runs |->
              IF t \in scene.over /\ k = "clf"
                THEN [label |-> "x", llm |-> TRUE, qa |-> "passed"] ELSE NoEntry]]
        /\ run = [t \in Runs |->
              [InitRun EXCEPT !.phase = IF t \in scene.over THEN "end" ELSE "idle"]]
        /\ req = [r \in Requests |->
              [InitReq EXCEPT !.phase = IF r \in scene.asking THEN "idle" ELSE "over"]]
        /\ verdicts = [t \in Runs |-> IF t \in scene.over THEN {"passed"} ELSE {}]
  BY DEF Init
<1>2. log \in [Kinds -> [Runs -> LogEntry]]
  BY <1>1 DEF LogEntry, NoEntry
<1>3. IsQueue(pending)
  <2>1. pending \in [Kinds -> Seq(Waits)]
    BY PromotionAssumption DEF Init
  <2> QED
    BY <2>1, TypedSeq DEF IsQueue
<1>4. DOMAIN rules = Books /\ \A k \in Books : IsFile(rules[k])
  <2>1. rules \in [Books -> [torn : {FALSE}, data : Seq(Ruling)]]
    BY PromotionAssumption DEF Init
  <2>2. \A k \in Books : rules[k] \in [torn : {FALSE}, data : Seq(Ruling)]
    BY <2>1
  <2>3. \A k \in Books : /\ DOMAIN rules[k] = {"torn", "data"} /\ rules[k].torn = FALSE
                         /\ rules[k].data \in Seq(Ruling)
    BY <2>2
  <2>4. \A x \in Ruling : DOMAIN x = {"id", "key", "enabled", "by", "count"}
    BY DEF Ruling
  <2> QED
    BY <2>1, <2>3, <2>4, TypedSeq DEF IsFile, IsBook
<1>5. EnginesTyped
  <2>1. engine = [p \in Processes |-> Unloaded] /\ loading = [p \in Processes |-> Unbuilt]
    BY DEF Init
  <2> QED
    BY <2>1, UnbuiltTyped DEF EnginesTyped
<1>6. DOMAIN run = Runs /\ \A t \in Runs : IsRun(run[t])
  <2>1. DOMAIN run = Runs
    BY <1>1
  <2> SUFFICES ASSUME NEW t \in Runs PROVE IsRun(run[t])
    BY <2>1
  <2>2. /\ DOMAIN run[t] = {"phase", "kind", "host", "asked", "pseudo_code", "verdict", "mem"}
        /\ run[t].phase \in {"idle", "end"} /\ run[t].kind = "clf" /\ run[t].host = "polling"
        /\ run[t].asked = [clf |-> FALSE, dec |-> FALSE] /\ run[t].pseudo_code = FALSE
        /\ run[t].verdict = None /\ run[t].mem = Memory
    BY <1>1 DEF InitRun
  <2>3. DOMAIN run[t].asked = Kinds
    BY <2>2 DEF Kinds
  <2>4. run[t].verdict \in {None, "passed", "failed"} /\ run[t].phase # "qa_write"
    BY <2>2
  <2> QED
    BY <2>2, <2>3, <2>4, EmptyMemory DEF IsRun, RunPhases, Kinds, Processes
<1>7. DOMAIN req = Requests /\ \A r \in Requests : IsReq(req[r])
  <2>1. DOMAIN req = Requests
    BY <1>1
  <2> SUFFICES ASSUME NEW r \in Requests PROVE IsReq(req[r])
    BY <2>1
  <2>2. /\ DOMAIN req[r] = {"phase", "op", "kind", "entry", "got", "mem"}
        /\ req[r].phase \in {"idle", "over"} /\ req[r].op = None /\ req[r].kind = "clf"
        /\ req[r].mem = Memory
    BY <1>1 DEF InitReq
  <2> QED
    BY <2>2, EmptyMemory DEF IsReq, ReqPhases, Books, Kinds, None, Memory
<1>8. verdicts \in [Runs -> SUBSET {"passed", "failed"}]
  BY <1>1
<1> QED
  BY <1>2, <1>3, <1>4, <1>5, <1>6, <1>7, <1>8
  DEF TypeOK, ActorsTyped, RulesTyped, LogTyped, Init

-----------------------------------------------------------------------------
(***************************************************************************)
(* What the steps of a run do                                              *)
(***************************************************************************)
\* A step of one run, or of one request.
OnlyRun(t) == /\ DOMAIN run' = Runs /\ \A u \in Runs \ {t} : run'[u] = run[u]
              /\ req' = req
OnlyReq(r) == /\ DOMAIN req' = Requests /\ \A q \in Requests \ {r} : req'[q] = req[q]
              /\ run' = run

\* What of the run's memory stays.
SameMind(t) == run'[t].kind = run[t].kind /\ run'[t].mem = run[t].mem
Blank(t)    == run'[t].mem = Memory

LEMMA ClassifyDoes ==
  ASSUME TypeOK, NEW t \in Runs, Classify(t)
  PROVE  /\ OnlyRun(t) /\ IsRun(run'[t]) /\ SameMind(t)
         /\ run[t].phase = "idle" /\ run'[t].phase = "decide"
         /\ \/ log' = log
            \/ \E label \in Labels : log' = [log EXCEPT !["clf"][t] = Logged(label, TRUE)]
         /\ UNCHANGED <<pending, rules, verdicts, torn, engines>>
<1>1. IsRun(run[t]) /\ DOMAIN run = Runs
  BY DEF TypeOK, ActorsTyped
<1>2. /\ run[t].phase = "idle" /\ UNCHANGED <<pending, rules, req, verdicts, torn, engines>>
      /\ \/ /\ run' = [run EXCEPT ![t].phase = "decide"] /\ log' = log
         \/ /\ run' = [run EXCEPT ![t].phase = "decide", ![t].asked.clf = TRUE]
            /\ \E label \in Labels : log' = [log EXCEPT !["clf"][t] = Logged(label, TRUE)]
  BY DEF Classify
<1>3. OnlyRun(t)
  BY <1>1, <1>2 DEF OnlyRun
<1>4. /\ DOMAIN run'[t] = DOMAIN run[t] /\ run'[t].phase = "decide" /\ SameMind(t)
      /\ run'[t].host = run[t].host /\ DOMAIN run'[t].asked = Kinds
      /\ run'[t].verdict = run[t].verdict
  <2>1. CASE run' = [run EXCEPT ![t].phase = "decide"]
    BY <1>1, <2>1 DEF IsRun, SameMind
  <2>2. CASE run' = [run EXCEPT ![t].phase = "decide", ![t].asked.clf = TRUE]
    BY <1>1, <2>2 DEF IsRun, SameMind
  <2> QED
    BY <1>2, <2>1, <2>2
<1>5. IsRun(run'[t])
  BY <1>1, <1>4 DEF IsRun, RunPhases, SameMind
<1> QED
  BY <1>2, <1>3, <1>4, <1>5

LEMMA DecideDoes ==
  ASSUME TypeOK, NEW t \in Runs, Decide(t)
  PROVE  /\ OnlyRun(t) /\ IsRun(run'[t]) /\ SameMind(t)
         /\ run[t].phase = "decide" /\ run'[t].phase = "qa"
         /\ \/ log' = log
            \/ \E llm \in BOOLEAN, label \in Labels \ {None} :
                 log' = [log EXCEPT !["dec"][t] = Logged(label, llm)]
         /\ UNCHANGED <<pending, rules, verdicts, torn, engines>>
<1>1. IsRun(run[t]) /\ DOMAIN run = Runs
  BY DEF TypeOK, ActorsTyped
<1>2. PICK host \in Processes, llm \in BOOLEAN, label \in Labels \ {None} :
      \/ /\ run' = [run EXCEPT ![t].phase = "qa", ![t].host = host] /\ log' = log
      \/ /\ log' = [log EXCEPT !["dec"][t] = Logged(label, llm)]
         /\ run' = [run EXCEPT ![t].phase = "qa", ![t].host = host, ![t].asked.dec = TRUE,
                               ![t].pseudo_code = llm]
  BY DEF Decide
<1>3. run[t].phase = "decide" /\ UNCHANGED <<pending, rules, req, verdicts, torn, engines>>
  BY DEF Decide
<1>4. OnlyRun(t)
  BY <1>1, <1>2, <1>3 DEF OnlyRun
<1>5. /\ DOMAIN run'[t] = DOMAIN run[t] /\ run'[t].phase = "qa" /\ SameMind(t)
      /\ run'[t].host = host /\ DOMAIN run'[t].asked = Kinds
      /\ run'[t].verdict = run[t].verdict
  BY <1>1, <1>2 DEF IsRun, SameMind
<1>6. IsRun(run'[t])
  BY <1>1, <1>5 DEF IsRun, RunPhases, SameMind
<1> QED
  BY <1>2, <1>3, <1>4, <1>5, <1>6

\* The two ways in which a run forgets what it read.
LEMMA GotoDoes ==
  ASSUME TypeOK, NEW t \in Runs, NEW phase \in RunPhases \ {"qa_write"}, Goto(t, phase),
         UNCHANGED req
  PROVE  /\ OnlyRun(t) /\ IsRun(run'[t]) /\ Blank(t)
         /\ run'[t].kind = run[t].kind /\ run'[t].phase = phase
<1>1. IsRun(run[t]) /\ DOMAIN run = Runs
  BY DEF TypeOK, ActorsTyped
<1>2. OnlyRun(t)
  BY <1>1 DEF OnlyRun, Goto
<1>3. /\ DOMAIN run'[t] = DOMAIN run[t] /\ run'[t].phase = phase
      /\ run'[t].kind = run[t].kind /\ run'[t].host = run[t].host
      /\ run'[t].asked = run[t].asked /\ run'[t].verdict = None /\ Blank(t)
  BY <1>1 DEF IsRun, Goto, Blank
<1>4. IsRun(run'[t])
  BY <1>1, <1>3, EmptyMemory DEF IsRun, Blank
<1> QED
  BY <1>2, <1>3, <1>4

LEMMA NextKindDoes ==
  ASSUME TypeOK, NEW t \in Runs, NextKind(t), UNCHANGED req
  PROVE  /\ OnlyRun(t) /\ IsRun(run'[t]) /\ Blank(t)
         /\ run'[t].phase = AfterQueue(t) /\ run'[t].phase \in {"queue", "end"}
         /\ run'[t].kind = "dec"
<1>1. IsRun(run[t]) /\ DOMAIN run = Runs
  BY DEF TypeOK, ActorsTyped
<1>2. OnlyRun(t)
  BY <1>1 DEF OnlyRun, NextKind
<1>3. /\ DOMAIN run'[t] = DOMAIN run[t] /\ run'[t].phase = AfterQueue(t)
      /\ run'[t].kind = "dec" /\ run'[t].host = run[t].host
      /\ run'[t].asked = run[t].asked /\ run'[t].verdict = run[t].verdict /\ Blank(t)
  BY <1>1 DEF IsRun, NextKind, Blank
<1>4. AfterQueue(t) \in {"queue", "end"}
  BY DEF AfterQueue
<1>5. IsRun(run'[t])
  BY <1>1, <1>3, <1>4, EmptyMemory DEF IsRun, Blank, Kinds, RunPhases
<1> QED
  BY <1>2, <1>3, <1>4, <1>5

LEMMA WhitelistedDoes ==
  ASSUME TypeOK, NEW t \in Runs, Whitelisted(t)
  PROVE  /\ OnlyRun(t) /\ IsRun(run'[t]) /\ Blank(t) /\ run'[t].kind = run[t].kind
         /\ run[t].phase = "qa" /\ run'[t].phase = "queue"
         /\ UNCHANGED <<files, verdicts, torn, engines>>
<1>1. Goto(t, "queue") /\ run[t].phase = "qa" /\ UNCHANGED <<files, req, verdicts, torn, engines>>
  BY DEF Whitelisted
<1> QED
  BY <1>1, GotoDoes DEF RunPhases

LEMMA VerifyDoes ==
  ASSUME TypeOK, NEW t \in Runs, Verify(t)
  PROVE  \E v \in {"passed", "failed"} :
         /\ verdicts' = [verdicts EXCEPT ![t] = @ \cup {v}]
         /\ OnlyRun(t) /\ IsRun(run'[t]) /\ run'[t].kind = run[t].kind
         /\ run[t].phase = "qa"
         /\ \/ Blank(t) /\ run'[t].phase \in {"qa", "queue"}
            \/ /\ run'[t].phase = "qa_write" /\ run'[t].verdict = v
               /\ run'[t].mem.log = log["clf"]
               /\ run'[t].mem.queue = run[t].mem.queue /\ run'[t].mem.cands = run[t].mem.cands
               /\ run'[t].mem.book = run[t].mem.book
         /\ UNCHANGED <<files, torn, engines>>
<1>1. IsRun(run[t]) /\ DOMAIN run = Runs /\ IsMemory(run[t].mem)
  BY DEF TypeOK, ActorsTyped, RulesTyped, LogTyped, IsRun
<1>2. PICK v \in {"passed", "failed"} :
       /\ verdicts' = [verdicts EXCEPT ![t] = @ \cup {v}]
       /\ IF run[t].pseudo_code /\ log["clf"][t].qa = "none"
            THEN run' = [run EXCEPT ![t] = [@ EXCEPT !.phase = "qa_write",
                           !.verdict = v, !.mem.log = log["clf"]]]
            ELSE \E next \in IF v = "failed" THEN {"qa", "queue"} ELSE {"queue"} :
                   Goto(t, next)
  BY DEF Verify
<1>3. run[t].phase = "qa" /\ UNCHANGED <<files, req, torn, engines>>
  BY DEF Verify
<1>4. CASE \E next \in {"qa", "queue"} : Goto(t, next)
  BY <1>2, <1>3, <1>4, GotoDoes DEF RunPhases
<1>5. CASE run' = [run EXCEPT ![t] = [@ EXCEPT !.phase = "qa_write",
                           !.verdict = v, !.mem.log = log["clf"]]]
  <2>1. OnlyRun(t)
    BY <1>1, <1>3, <1>5 DEF OnlyRun
  <2>2. /\ DOMAIN run'[t] = DOMAIN run[t] /\ run'[t].phase = "qa_write"
        /\ run'[t].kind = run[t].kind /\ run'[t].host = run[t].host
        /\ run'[t].asked = run[t].asked /\ run'[t].verdict = v
        /\ run'[t].mem = [run[t].mem EXCEPT !.log = log["clf"]]
    BY <1>1, <1>5 DEF IsRun
  <2>3. /\ DOMAIN run'[t].mem = DOMAIN run[t].mem /\ run'[t].mem.log = log["clf"]
        /\ run'[t].mem.queue = run[t].mem.queue /\ run'[t].mem.cands = run[t].mem.cands
        /\ run'[t].mem.book = run[t].mem.book /\ run'[t].mem.file = run[t].mem.file
    BY <1>1, <2>2 DEF IsMemory
  <2>4. log["clf"] \in [Runs -> LogEntry]
    BY DEF TypeOK, ActorsTyped, RulesTyped, LogTyped, Kinds
  <2>5. IsMemory(run'[t].mem)
    BY <1>1, <2>3, <2>4 DEF IsMemory
  <2>6. IsRun(run'[t])
    BY <1>1, <2>2, <2>5 DEF IsRun, RunPhases, None
  <2> QED
    BY <1>2, <1>3, <2>1, <2>2, <2>3, <2>6
<1> QED
  BY <1>2, <1>4, <1>5

\* Where a failed verification may be repeated.
LEMMA WriteVerdictDoes ==
  ASSUME TypeOK, NEW t \in Runs, WriteVerdict(t)
  PROVE  /\ OnlyRun(t) /\ IsRun(run'[t]) /\ Blank(t) /\ run'[t].kind = run[t].kind
         /\ run[t].phase = "qa_write" /\ run'[t].phase \in {"qa", "queue"}
         /\ log' = [log EXCEPT !["clf"] = [run[t].mem.log EXCEPT ![t].qa = run[t].verdict]]
         /\ UNCHANGED <<pending, rules, verdicts, torn, engines>>
<1>1. PICK next \in {"qa", "queue"} : Goto(t, next)
  BY DEF WriteVerdict
<1>2. UNCHANGED req
  BY DEF WriteVerdict
<1>3. /\ OnlyRun(t) /\ IsRun(run'[t]) /\ Blank(t) /\ run'[t].kind = run[t].kind
      /\ run'[t].phase = next
  BY <1>1, <1>2, GotoDoes DEF RunPhases
<1> QED
  BY <1>3 DEF WriteVerdict

LEMMA QueueReadDoes ==
  ASSUME TypeOK, NEW t \in Runs, QueueRead(t)
  PROVE  /\ OnlyRun(t) /\ IsRun(run'[t]) /\ run[t].phase = "queue"
         /\ \/ NextKind(t)
            \/ /\ run'[t].phase = "pending" /\ run'[t].kind = run[t].kind
               /\ run'[t].mem.cands = Candidates(run[t].kind, log[run[t].kind])
               /\ run'[t].mem.book = rules[run[t].kind].data /\ ~rules[run[t].kind].torn
               /\ run'[t].mem.queue = run[t].mem.queue /\ run'[t].mem.log = run[t].mem.log
         /\ UNCHANGED <<files, verdicts, torn, engines>>
<1> DEFINE k == run[t].kind
           cands == Candidates(k, log[k])
<1>1. IsRun(run[t]) /\ DOMAIN run = Runs /\ IsMemory(run[t].mem) /\ k \in Kinds /\ IsFile(rules[k])
  BY DEF TypeOK, ActorsTyped, RulesTyped, LogTyped, IsRun, Books
<1>2. run[t].phase = "queue" /\ UNCHANGED <<files, req, verdicts, torn, engines>>
  BY DEF QueueRead
<1>3. \/ NextKind(t)
      \/ /\ ~rules[k].torn
         /\ run' = [run EXCEPT ![t] = [@ EXCEPT !.phase = "pending",
                       !.mem.cands = cands, !.mem.book = rules[k].data]]
  BY DEF QueueRead
<1>4. IsFiniteSet(cands)
  BY <1>1, CandidatesFinite
<1> HIDE DEF cands
<1>5. CASE NextKind(t)
  BY <1>2, <1>5, NextKindDoes
<1>6. CASE run' = [run EXCEPT ![t] = [@ EXCEPT !.phase = "pending",
                     !.mem.cands = cands, !.mem.book = rules[k].data]] /\ ~rules[k].torn
  <2>1. OnlyRun(t)
    BY <1>1, <1>2, <1>6 DEF OnlyRun
  <2>2. /\ DOMAIN run'[t] = DOMAIN run[t] /\ run'[t].phase = "pending"
        /\ run'[t].kind = k /\ run'[t].host = run[t].host
        /\ run'[t].asked = run[t].asked /\ run'[t].verdict = run[t].verdict
        /\ run'[t].mem = [run[t].mem EXCEPT !.cands = cands, !.book = rules[k].data]
    BY <1>1, <1>6 DEF IsRun
  <2>3. /\ DOMAIN run'[t].mem = DOMAIN run[t].mem /\ run'[t].mem.log = run[t].mem.log
        /\ run'[t].mem.queue = run[t].mem.queue /\ run'[t].mem.cands = cands
        /\ run'[t].mem.book = rules[k].data /\ run'[t].mem.file = run[t].mem.file
    BY <1>1, <2>2 DEF IsMemory
  <2>4. IsMemory(run'[t].mem)
    BY <1>1, <1>4, <2>3 DEF IsMemory, IsFile
  <2>5. IsRun(run'[t])
    BY <1>1, <2>2, <2>4 DEF IsRun, RunPhases
  <2> QED
    BY <1>2, <1>6, <2>1, <2>2, <2>3, <2>5 DEF cands
<1> QED
  BY <1>3, <1>5, <1>6

LEMMA QueuePendingDoes ==
  ASSUME TypeOK, NEW t \in Runs, QueuePending(t)
  PROVE  /\ OnlyRun(t) /\ IsRun(run'[t]) /\ run[t].phase = "pending"
         /\ \/ NextKind(t)
            \/ /\ run'[t].phase = "truncate" /\ run'[t].kind = run[t].kind
               /\ \E new \in NewCandidates(run[t].mem.cands, run[t].mem.book,
                                           pending[run[t].kind]) :
                    /\ IsSeq(new)
                    /\ run'[t].mem.queue =
                         [pending EXCEPT ![run[t].kind] = Enqueued(pending[run[t].kind], new)]
               /\ run'[t].mem.cands = run[t].mem.cands /\ run'[t].mem.book = run[t].mem.book
               /\ run'[t].mem.log = run[t].mem.log
         /\ UNCHANGED <<files, verdicts, torn, engines>>
<1> DEFINE k == run[t].kind
<1>1. /\ IsRun(run[t]) /\ DOMAIN run = Runs /\ IsMemory(run[t].mem) /\ k \in Kinds
      /\ IsQueue(pending)
  BY DEF TypeOK, ActorsTyped, RulesTyped, LogTyped, IsRun
<1>2. run[t].phase = "pending" /\ UNCHANGED <<files, req, verdicts, torn, engines>>
  BY DEF QueuePending
<1>3. PICK new \in NewCandidates(run[t].mem.cands, run[t].mem.book, pending[k]) :
       \/ NextKind(t)
       \/ run' = [run EXCEPT ![t] = [@ EXCEPT !.phase = "truncate",
                            !.mem.queue = [pending EXCEPT ![k] = Enqueued(pending[k], new)]]]
  BY DEF QueuePending
<1>4. IsSeq(new)
  BY <1>1, NewFacts DEF IsMemory
<1>5. CASE NextKind(t)
  BY <1>2, <1>5, NextKindDoes
<1>6. CASE run' = [run EXCEPT ![t] = [@ EXCEPT !.phase = "truncate",
                            !.mem.queue = [pending EXCEPT ![k] = Enqueued(pending[k], new)]]]
  <2> DEFINE q == [pending EXCEPT ![k] = Enqueued(pending[k], new)]
  <2>1. IsQueue(q)
    BY <1>1, <1>4, EnqueuedFacts DEF IsQueue
  <2>2. run' = [run EXCEPT ![t] = [@ EXCEPT !.phase = "truncate", !.mem.queue = q]]
    BY <1>6
  <2> HIDE DEF q
  <2>3. OnlyRun(t)
    BY <1>1, <1>2, <2>2 DEF OnlyRun
  <2>4. /\ DOMAIN run'[t] = DOMAIN run[t] /\ run'[t].phase = "truncate"
        /\ run'[t].kind = k /\ run'[t].host = run[t].host
        /\ run'[t].asked = run[t].asked /\ run'[t].verdict = run[t].verdict
        /\ run'[t].mem = [run[t].mem EXCEPT !.queue = q]
    BY <1>1, <2>2 DEF IsRun
  <2>5. /\ DOMAIN run'[t].mem = DOMAIN run[t].mem /\ run'[t].mem.log = run[t].mem.log
        /\ run'[t].mem.queue = q /\ run'[t].mem.cands = run[t].mem.cands
        /\ run'[t].mem.book = run[t].mem.book /\ run'[t].mem.file = run[t].mem.file
    BY <1>1, <2>4 DEF IsMemory
  <2>6. IsMemory(run'[t].mem)
    BY <1>1, <2>1, <2>5 DEF IsMemory
  <2>7. IsRun(run'[t])
    BY <1>1, <2>4, <2>6 DEF IsRun, RunPhases
  <2>8. run'[t].mem.queue = [pending EXCEPT ![k] = Enqueued(pending[k], new)]
    BY <2>5 DEF q
  <2> QED
    BY <1>2, <1>3, <1>4, <2>3, <2>4, <2>5, <2>7, <2>8
<1> QED
  BY <1>3, <1>5, <1>6

LEMMA QueueTruncateDoes ==
  ASSUME TypeOK, NEW t \in Runs, QueueTruncate(t)
  PROVE  /\ OnlyRun(t) /\ IsRun(run'[t]) /\ SameMind(t)
         /\ run[t].phase = "truncate" /\ run'[t].phase = "dump"
         /\ pending' = EmptyQueue
         /\ UNCHANGED <<log, rules, verdicts, torn, engines>>
<1>1. IsRun(run[t]) /\ DOMAIN run = Runs
  BY DEF TypeOK, ActorsTyped
<1>2. /\ run[t].phase = "truncate" /\ UNCHANGED <<log, rules, req, verdicts, torn, engines>>
      /\ run' = [run EXCEPT ![t].phase = "dump"] /\ pending' = EmptyQueue
  BY DEF QueueTruncate
<1>3. OnlyRun(t)
  BY <1>1, <1>2 DEF OnlyRun
<1>4. /\ DOMAIN run'[t] = DOMAIN run[t] /\ run'[t].phase = "dump" /\ SameMind(t)
      /\ run'[t].host = run[t].host /\ run'[t].asked = run[t].asked
      /\ run'[t].verdict = run[t].verdict
  BY <1>1, <1>2 DEF IsRun, SameMind
<1>5. IsRun(run'[t])
  BY <1>1, <1>4 DEF IsRun, RunPhases, SameMind
<1> QED
  BY <1>2, <1>3, <1>4, <1>5

LEMMA QueueDumpDoes ==
  ASSUME TypeOK, NEW t \in Runs, QueueDump(t)
  PROVE  /\ OnlyRun(t) /\ IsRun(run'[t]) /\ NextKind(t) /\ run[t].phase = "dump"
         /\ pending' = run[t].mem.queue
         /\ UNCHANGED <<log, rules, verdicts, torn, engines>>
BY NextKindDoes DEF QueueDump

-----------------------------------------------------------------------------
(***************************************************************************)
(* What the steps of a request do                                          *)
(***************************************************************************)
\* What was clicked, found and read stays.
SameJob(r)  == req'[r].op = req[r].op /\ req'[r].kind = req[r].kind
SameWish(r) == SameJob(r) /\ req'[r].entry = req[r].entry /\ req'[r].got = req[r].got
Forgets(r)  == req'[r].mem = Memory
SameCopies(r) == /\ req'[r].mem.queue = req[r].mem.queue /\ req'[r].mem.book = req[r].mem.book
                 /\ req'[r].mem.log = req[r].mem.log /\ req'[r].mem.cands = req[r].mem.cands

LEMMA ChooseDoes ==
  ASSUME TypeOK, NEW r \in Requests, Click(r) \/ Submit(r)
  PROVE  /\ OnlyReq(r) /\ IsReq(req'[r]) /\ req'[r].mem = req[r].mem
         /\ req[r].phase = "idle" /\ req[r].op = None /\ req[r].kind = "clf"
         /\ \/ req'[r].phase = "queue" /\ req'[r].op \in {"approve", "reject"}
            \/ req'[r].phase = "book" /\ req'[r].op \in {"toggle", "delete", "create", "update"}
         /\ UNCHANGED <<files, verdicts, torn, engines>>
<1>1. IsReq(req[r]) /\ DOMAIN req = Requests
  BY DEF TypeOK, ActorsTyped
<1>2. req[r].phase = "idle" /\ UNCHANGED <<files, run, verdicts, torn, engines>>
  BY DEF Click, Submit
<1>3. req[r].op = None /\ req[r].kind = "clf"
  BY <1>1, <1>2 DEF IsReq, ReqPhases
<1>4. \E k \in Books, op \in {"approve", "reject", "toggle", "delete", "create", "update"},
         phase \in {"queue", "book"} : \E e :
        /\ req' = [req EXCEPT ![r] = [@ EXCEPT !.op = op, !.kind = k, !.entry = e,
                                               !.phase = phase]]
        /\ op \in {"approve", "reject"} <=> phase = "queue"
        /\ op \in {"approve", "reject", "toggle"} => k \in Kinds
        /\ op = "update" => k = "white"
  <2>1. CASE Click(r)
    <3>1. CASE \E k \in Kinds, op \in {"approve", "reject"} : \E e \in Elements(pending[k]) :
          req' = [req EXCEPT ![r] = [@ EXCEPT !.op = op, !.kind = k, !.entry = e,
                                              !.phase = "queue"]]
      BY <3>1 DEF Books
    <3>2. CASE \E k \in Books, op \in {"toggle", "delete"} : \E e \in Elements(rules[k].data) :
          /\ ~(k = "white" /\ op = "toggle")
          /\ req' = [req EXCEPT ![r] = [@ EXCEPT !.op = op, !.kind = k, !.entry = e,
                                                 !.phase = "book"]]
      BY <3>2 DEF Books
    <3> QED
      BY <2>1, <3>1, <3>2 DEF Click
  <2>2. CASE Submit(r)
    <3>1. PICK k \in Books, key \in Keys :
       \E id \in {0} \cup (IF k = "white" THEN {e.id : e \in Elements(rules[k].data)}
                                        ELSE {}) :
         req' = [req EXCEPT ![r] = [@ EXCEPT
                   !.op = IF id = 0 THEN "create" ELSE "update", !.kind = k,
                   !.entry = [id |-> id, key |-> key], !.phase = "book"]]
      BY <2>2 DEF Submit
    <3>2. PICK id :
         /\ id # 0 => k = "white"
         /\ req' = [req EXCEPT ![r] = [@ EXCEPT
                   !.op = IF id = 0 THEN "create" ELSE "update", !.kind = k,
                   !.entry = [id |-> id, key |-> key], !.phase = "book"]]
      BY <3>1
    <3> DEFINE e == [id |-> id, key |-> key]
    <3>3. \/ /\ req' = [req EXCEPT ![r] = [@ EXCEPT !.op = "create", !.kind = k, !.entry = e,
                                                    !.phase = "book"]]
          \/ /\ k = "white"
             /\ req' = [req EXCEPT ![r] = [@ EXCEPT !.op = "update", !.kind = k, !.entry = e,
                                                    !.phase = "book"]]
      BY <3>2
    <3> HIDE DEF e
    <3> QED
      BY <3>3
  <2> QED
    BY <2>1, <2>2
<1>5. PICK k \in Books, op \in {"approve", "reject", "toggle", "delete", "create", "update"},
         phase \in {"queue", "book"} : \E e :
        /\ req' = [req EXCEPT ![r] = [@ EXCEPT !.op = op, !.kind = k, !.entry = e,
                                               !.phase = phase]]
        /\ op \in {"approve", "reject"} <=> phase = "queue"
        /\ op \in {"approve", "reject", "toggle"} => k \in Kinds
        /\ op = "update" => k = "white"
  BY <1>4
<1>6. OnlyReq(r)
  BY <1>1, <1>2, <1>5 DEF OnlyReq
<1>7. /\ DOMAIN req'[r] = DOMAIN req[r] /\ req'[r].phase = phase /\ req'[r].op = op
      /\ req'[r].kind = k /\ req'[r].mem = req[r].mem
  BY <1>1, <1>5 DEF IsReq
<1>8. op # None /\ op # "promote"
  BY DEF None
<1>9. phase \in ReqPhases(op)
  BY <1>5, <1>8 DEF ReqPhases
<1>10. IsReq(req'[r])
  BY <1>1, <1>2, <1>5, <1>7, <1>8, <1>9 DEF IsReq, Reloading
<1> QED
  BY <1>2, <1>3, <1>5, <1>6, <1>7, <1>10

\* The request is over, or has only its engine to refresh.
LEMMA GotoReqDoes ==
  ASSUME TypeOK, NEW r \in Requests, NEW phase \in ReqPhases(req[r].op), GotoReq(r, phase),
         UNCHANGED run
  PROVE  /\ OnlyReq(r) /\ IsReq(req'[r]) /\ Forgets(r) /\ SameWish(r)
         /\ req'[r].phase = phase
<1>1. IsReq(req[r]) /\ DOMAIN req = Requests
  BY DEF TypeOK, ActorsTyped
<1>2. OnlyReq(r)
  BY <1>1 DEF OnlyReq, GotoReq
<1>3. /\ DOMAIN req'[r] = DOMAIN req[r] /\ req'[r].phase = phase /\ Forgets(r) /\ SameWish(r)
  BY <1>1 DEF IsReq, GotoReq, Forgets, SameWish, SameJob
<1>4. IsReq(req'[r])
  BY <1>1, <1>3, EmptyMemory DEF IsReq, Forgets, SameWish, SameJob, Memory
<1> QED
  BY <1>2, <1>3, <1>4

\* What an edit makes of a book.
LEMMA EditedFacts ==
  ASSUME NEW r \in Requests, NEW book, IsBook(book),
         req[r].op \in {"approve", "create", "toggle", "update", "delete"},
         req[r].op \in {"toggle", "delete", "update"} => FirstWithId(book, req[r].entry.id) # 0
  PROVE  /\ IsBook(Edited(r, book))
         /\ \A x \in Elements(Edited(r, book)) :
              \/ x \in Elements(book)
              \/ /\ req[r].op = "approve" /\ x.by = "approve"
                 /\ x.key = req[r].got.key /\ x.count = req[r].got.count
              \/ req[r].op = "create" /\ x.by = "create"
              \/ /\ req[r].op = "toggle"
                 /\ \E y \in Elements(book) : x.key = y.key /\ x.by = y.by /\ x.count = y.count
              \/ req[r].op = "update"
<1> DEFINE i == FirstWithId(book, req[r].entry.id)
<1>1. IsSeq(book)
  BY DEF IsBook
<1>2. CASE req[r].op = "approve"
  <2> DEFINE x == Rule(NextRuleId(book), req[r].got.key, "approve", req[r].got.count)
  <2>1. Edited(r, book) = Append(book, x)
    BY <1>2 DEF Edited
  <2>2. /\ DOMAIN x = {"id", "key", "enabled", "by", "count"} /\ x.by = "approve"
        /\ x.key = req[r].got.key /\ x.count = req[r].got.count
    BY DEF Rule
  <2> HIDE DEF x
  <2> QED
    BY <1>1, <1>2, <2>1, <2>2, AppendFacts DEF IsBook
<1>3. CASE req[r].op = "create"
  <2> DEFINE x == Rule(NextRuleId(book), req[r].entry.key, "create", 0)
  <2>1. Edited(r, book) = Append(book, x)
    BY <1>3 DEF Edited
  <2>2. DOMAIN x = {"id", "key", "enabled", "by", "count"} /\ x.by = "create"
    BY DEF Rule
  <2> HIDE DEF x
  <2> QED
    BY <1>1, <1>3, <2>1, <2>2, AppendFacts DEF IsBook
<1>4. ASSUME req[r].op \in {"toggle", "delete", "update"}
      PROVE  i \in DOMAIN book /\ book[i] \in Elements(book)
  BY <1>1, <1>4, FirstFacts, SeqFacts
<1>5. CASE req[r].op = "toggle"
  <2> DEFINE x == [book[i] EXCEPT !.enabled = ~@]
  <2>1. Edited(r, book) = [book EXCEPT ![i] = x]
    BY <1>5 DEF Edited
  <2>2. DOMAIN book[i] = {"id", "key", "enabled", "by", "count"}
    BY <1>4, <1>5 DEF IsBook
  <2>3. /\ DOMAIN x = {"id", "key", "enabled", "by", "count"}
        /\ x.key = book[i].key /\ x.by = book[i].by /\ x.count = book[i].count
    BY <2>2
  <2> HIDE DEF x
  <2>4. /\ IsSeq([book EXCEPT ![i] = x])
        /\ \A y \in Elements([book EXCEPT ![i] = x]) : y = x \/ y \in Elements(book)
    BY <1>1, <1>4, <1>5, EditFacts
  <2> QED
    BY <1>4, <1>5, <2>1, <2>3, <2>4 DEF IsBook
<1>6. CASE req[r].op = "update"
  <2> DEFINE x == [book[i] EXCEPT !.key = req[r].entry.key]
  <2>1. Edited(r, book) = [book EXCEPT ![i] = x]
    BY <1>6 DEF Edited
  <2>2. DOMAIN book[i] = {"id", "key", "enabled", "by", "count"}
    BY <1>4, <1>6 DEF IsBook
  <2>3. DOMAIN x = {"id", "key", "enabled", "by", "count"}
    BY <2>2
  <2> HIDE DEF x
  <2>4. /\ IsSeq([book EXCEPT ![i] = x])
        /\ \A y \in Elements([book EXCEPT ![i] = x]) : y = x \/ y \in Elements(book)
    BY <1>1, <1>4, <1>6, EditFacts
  <2> QED
    BY <1>6, <2>1, <2>3, <2>4 DEF IsBook
<1>7. CASE req[r].op = "delete"
  <2>1. Edited(r, book) = Pop(book, i)
    BY <1>7 DEF Edited
  <2> QED
    BY <1>1, <1>4, <1>7, <2>1, PopFacts DEF IsBook
<1> QED
  BY <1>2, <1>3, <1>5, <1>6, <1>7

LEMMA FindPendingDoes ==
  ASSUME TypeOK, NEW r \in Requests, FindPending(r)
  PROVE  /\ OnlyReq(r) /\ IsReq(req'[r]) /\ SameJob(r) /\ req[r].phase = "queue"
         /\ req[r].op \in {"approve", "reject"} /\ req[r].kind \in Kinds
         /\ \/ Forgets(r) /\ req'[r].phase = "over"
            \/ \E i \in DOMAIN pending[req[r].kind] :
               /\ req'[r].phase = IF req[r].op = "reject" THEN "truncate" ELSE "book"
               /\ req'[r].got = pending[req[r].kind][i]
               /\ req'[r].mem.queue = [pending EXCEPT ![req[r].kind] = Pop(pending[req[r].kind], i)]
               /\ req'[r].mem.cands = req[r].mem.cands /\ req'[r].mem.book = req[r].mem.book
               /\ req'[r].mem.log = req[r].mem.log
         /\ UNCHANGED <<files, verdicts, torn, engines>>
<1> DEFINE k == req[r].kind
           i == FirstWithId(pending[k], req[r].entry.id)
           popped == [pending EXCEPT ![k] = Pop(pending[k], i)]
<1>1. IsReq(req[r]) /\ DOMAIN req = Requests /\ IsMemory(req[r].mem) /\ IsQueue(pending)
  BY DEF TypeOK, ActorsTyped, RulesTyped, LogTyped, IsReq
<1>2. req[r].phase = "queue" /\ UNCHANGED <<files, run, verdicts, torn, engines>>
  BY DEF FindPending
<1>3. req[r].op \in {"approve", "reject"} /\ k \in Kinds
  BY <1>1, <1>2 DEF IsReq, ReqPhases
<1>4. CASE i = 0
  <2>1. GotoReq(r, "over")
    BY <1>4 DEF FindPending
  <2>2. "over" \in ReqPhases(req[r].op)
    BY <1>3 DEF ReqPhases, None
  <2> QED
    BY <1>2, <1>3, <2>1, <2>2, GotoReqDoes DEF SameWish
<1>5. CASE i # 0
  <2>1. i \in DOMAIN pending[k]
    BY <1>1, <1>3, <1>5, FirstFacts DEF IsQueue
  <2>2. IsQueue(popped)
    BY <1>1, <1>3, <2>1, PopFacts DEF IsQueue
  <2>3. req' = [req EXCEPT ![r] = [@ EXCEPT
                        !.phase = IF req[r].op = "reject" THEN "truncate" ELSE "book",
                        !.got = pending[k][i], !.mem.queue = popped]]
    BY <1>5 DEF FindPending
  <2> HIDE DEF popped
  <2>4. OnlyReq(r)
    BY <1>1, <1>2, <2>3 DEF OnlyReq
  <2>5. /\ DOMAIN req'[r] = DOMAIN req[r]
        /\ req'[r].phase = IF req[r].op = "reject" THEN "truncate" ELSE "book"
        /\ req'[r].got = pending[k][i] /\ SameJob(r)
        /\ req'[r].mem = [req[r].mem EXCEPT !.queue = popped]
    BY <1>1, <2>3 DEF IsReq, SameJob
  <2>6. /\ DOMAIN req'[r].mem = DOMAIN req[r].mem /\ req'[r].mem.log = req[r].mem.log
        /\ req'[r].mem.queue = popped /\ req'[r].mem.cands = req[r].mem.cands
        /\ req'[r].mem.book = req[r].mem.book /\ req'[r].mem.file = req[r].mem.file
    BY <1>1, <2>5 DEF IsMemory
  <2>7. IsMemory(req'[r].mem)
    BY <1>1, <2>2, <2>6 DEF IsMemory
  <2>8. req'[r].phase \in ReqPhases(req[r].op)
    BY <1>3, <2>5 DEF ReqPhases, None
  <2>9. IsReq(req'[r])
    BY <1>1, <1>2, <2>5, <2>6, <2>7, <2>8 DEF IsReq, SameJob, Reloading
  <2>10. req'[r].mem.queue = [pending EXCEPT ![k] = Pop(pending[k], i)]
    BY <2>6 DEF popped
  <2> QED
    BY <1>2, <1>3, <2>1, <2>4, <2>5, <2>6, <2>9, <2>10
<1> QED
  BY <1>4, <1>5

LEMMA StartPromoteDoes ==
  ASSUME TypeOK, NEW r \in Requests, StartPromote(r)
  PROVE  /\ OnlyReq(r) /\ IsReq(req'[r]) /\ req[r].phase = "idle"
         /\ req'[r].phase = "ask" /\ req'[r].op = "promote" /\ ~rules["clf"].torn
         /\ \A c \in req'[r].mem.cands : c \in Candidates("clf", log["clf"])
         /\ req'[r].mem.book = rules["clf"].data
         /\ req'[r].mem.queue = req[r].mem.queue /\ req'[r].mem.log = req[r].mem.log
         /\ UNCHANGED <<files, verdicts, torn, engines>>
<1> DEFINE cands == {c \in Candidates("clf", log["clf"]) : ~Covered(c.key, rules["clf"].data)}
<1>1. IsReq(req[r]) /\ DOMAIN req = Requests /\ IsMemory(req[r].mem) /\ IsFile(rules["clf"])
  BY DEF TypeOK, ActorsTyped, RulesTyped, LogTyped, IsReq, Books, Kinds
<1>2. /\ req[r].phase = "idle" /\ UNCHANGED <<files, run, verdicts, torn, engines>>
      /\ ~rules["clf"].torn
      /\ req' = [req EXCEPT ![r] = [@ EXCEPT !.op = "promote", !.phase = "ask",
                   !.mem.cands = cands, !.mem.book = rules["clf"].data]]
  BY DEF StartPromote
<1>3. \A c \in cands : c \in Candidates("clf", log["clf"])
  OBVIOUS
<1>4. IsFiniteSet(cands)
  BY <1>3, CandidatesFinite, FS_Subset DEF Kinds
<1> HIDE DEF cands
<1>5. OnlyReq(r)
  BY <1>1, <1>2 DEF OnlyReq
<1>6. /\ DOMAIN req'[r] = DOMAIN req[r] /\ req'[r].phase = "ask" /\ req'[r].op = "promote"
      /\ req'[r].kind = req[r].kind
      /\ req'[r].mem = [req[r].mem EXCEPT !.cands = cands, !.book = rules["clf"].data]
  BY <1>1, <1>2 DEF IsReq
<1>7. /\ DOMAIN req'[r].mem = DOMAIN req[r].mem /\ req'[r].mem.log = req[r].mem.log
      /\ req'[r].mem.queue = req[r].mem.queue /\ req'[r].mem.cands = cands
      /\ req'[r].mem.book = rules["clf"].data /\ req'[r].mem.file = req[r].mem.file
  BY <1>1, <1>6 DEF IsMemory
<1>8. IsMemory(req'[r].mem)
  BY <1>1, <1>4, <1>7 DEF IsMemory, IsFile
<1>9. req[r].op = None /\ req[r].kind = "clf"
  BY <1>1, <1>2 DEF IsReq, ReqPhases
<1>10. "ask" \in ReqPhases("promote") /\ "promote" # None
  BY DEF ReqPhases, None
<1>11. IsReq(req'[r])
  BY <1>1, <1>2, <1>6, <1>7, <1>8, <1>9, <1>10 DEF IsReq, Books, Kinds, Reloading
<1> QED
  BY <1>2, <1>3, <1>5, <1>6, <1>7, <1>11

LEMMA AskDoes ==
  ASSUME TypeOK, NEW r \in Requests, Ask(r)
  PROVE  /\ OnlyReq(r) /\ IsReq(req'[r]) /\ SameJob(r) /\ req[r].phase = "ask"
         /\ req[r].op = "promote"
         /\ \/ Forgets(r) /\ req'[r].phase = "over"
            \/ \E c \in req[r].mem.cands :
               /\ req'[r].mem.cands = req[r].mem.cands \ {c}
               /\ \/ req'[r].phase = "ask" /\ req'[r].mem.book = req[r].mem.book
                  \/ /\ req'[r].phase = "book_truncate"
                     /\ req'[r].mem.book =
                          Append(req[r].mem.book,
                                 Rule(NextRuleId(req[r].mem.book), c.key, "promote", c.count))
               /\ req'[r].mem.queue = req[r].mem.queue /\ req'[r].mem.log = req[r].mem.log
         /\ UNCHANGED <<files, verdicts, torn, engines>>
<1>1. /\ IsReq(req[r]) /\ DOMAIN req = Requests /\ IsMemory(req[r].mem)
      /\ IsBook(req[r].mem.book)
  BY DEF TypeOK, ActorsTyped, RulesTyped, LogTyped, IsReq, IsMemory
<1>2. req[r].phase = "ask" /\ UNCHANGED <<files, run, verdicts, torn, engines>>
  BY DEF Ask
<1>3. req[r].op = "promote"
  BY <1>1, <1>2 DEF IsReq, ReqPhases
<1>4. CASE req[r].mem.cands = {}
  <2>1. GotoReq(r, "over")
    BY <1>4 DEF Ask
  <2>2. "over" \in ReqPhases(req[r].op)
    BY <1>3 DEF ReqPhases, None
  <2> QED
    BY <1>2, <1>3, <2>1, <2>2, GotoReqDoes DEF SameWish
<1>5. CASE req[r].mem.cands # {}
  <2> DEFINE old == req[r].mem.book
             Ruled(c) == Rule(NextRuleId(old), c.key, "promote", c.count)
             Longer(c, yes) == IF yes THEN Append(old, Ruled(c)) ELSE old
             Left(c) == req[r].mem.cands \ {c}
             Following(yes) == IF yes THEN "book_truncate" ELSE "ask"
  <2>1. PICK c \in req[r].mem.cands, yes \in BOOLEAN :
          req' = [req EXCEPT ![r] = [@ EXCEPT !.mem.cands = Left(c), !.mem.book = Longer(c, yes),
                                              !.phase = Following(yes)]]
    BY <1>5, Zenon DEF Ask
  <2> DEFINE rule == Ruled(c)
             book == Longer(c, yes)
             left == Left(c)
             next == Following(yes)
  <2>2. req' = [req EXCEPT ![r] = [@ EXCEPT !.mem.cands = left, !.mem.book = book,
                                            !.phase = next]]
    BY <2>1
  <2>3. DOMAIN rule = {"id", "key", "enabled", "by", "count"}
    BY DEF Rule
  <2>4. \/ next = "ask" /\ book = old
        \/ next = "book_truncate" /\ book = Append(old, rule)
    OBVIOUS
  <2>5. IsFiniteSet(left)
    BY <1>1, FS_RemoveElement DEF IsMemory
  <2> HIDE DEF rule, book, left, next
  <2>6. IsBook(book)
    <3>1. IsBook(Append(old, rule))
      BY <1>1, <2>3, AppendFacts DEF IsBook
    <3> QED
      BY <1>1, <2>4, <3>1
  <2>7. OnlyReq(r)
    BY <1>1, <1>2, <2>2 DEF OnlyReq
  <2>8. /\ DOMAIN req'[r] = DOMAIN req[r] /\ req'[r].phase = next /\ SameJob(r)
        /\ req'[r].mem = [req[r].mem EXCEPT !.cands = left, !.book = book]
    BY <1>1, <2>2 DEF IsReq, SameJob
  <2>9. /\ DOMAIN req'[r].mem = DOMAIN req[r].mem /\ req'[r].mem.log = req[r].mem.log
        /\ req'[r].mem.queue = req[r].mem.queue /\ req'[r].mem.cands = left
        /\ req'[r].mem.book = book /\ req'[r].mem.file = req[r].mem.file
    BY <1>1, <2>8 DEF IsMemory
  <2>10. IsMemory(req'[r].mem)
    BY <1>1, <2>5, <2>6, <2>9 DEF IsMemory
  <2>11. next \in ReqPhases(req[r].op)
    BY <1>3, <2>4 DEF ReqPhases, None
  <2>12. IsReq(req'[r])
    BY <1>1, <1>2, <2>8, <2>9, <2>10, <2>11 DEF IsReq, SameJob, Reloading
  <2>13. left = req[r].mem.cands \ {c}
    BY DEF left
  <2>14. book = Append(old, rule) =>
           book = Append(req[r].mem.book,
                         Rule(NextRuleId(req[r].mem.book), c.key, "promote", c.count))
    BY DEF rule
  <2> QED
    BY <1>2, <1>3, <2>4, <2>7, <2>8, <2>9, <2>12, <2>13, <2>14
<1> QED
  BY <1>4, <1>5

LEMMA ReadBookDoes ==
  ASSUME TypeOK, NEW r \in Requests, ReadBook(r)
  PROVE  /\ OnlyReq(r) /\ IsReq(req'[r]) /\ SameWish(r) /\ req[r].phase = "book"
         /\ req[r].op \in {"approve", "create", "toggle", "update", "delete"}
         /\ \/ Forgets(r) /\ req'[r].phase = "over"
            \/ /\ ~rules[req[r].kind].torn
               /\ req[r].op \in {"toggle", "delete", "update"}
                    => FirstWithId(rules[req[r].kind].data, req[r].entry.id) # 0
               /\ req'[r].phase = "book_truncate"
               /\ req'[r].mem.book = Edited(r, rules[req[r].kind].data)
               /\ req'[r].mem.queue = req[r].mem.queue /\ req'[r].mem.cands = req[r].mem.cands
               /\ req'[r].mem.log = req[r].mem.log
         /\ UNCHANGED <<files, verdicts, torn, engines>>
<1> DEFINE file == rules[req[r].kind]
           book == Edited(r, file.data)
<1>1. IsReq(req[r]) /\ DOMAIN req = Requests /\ IsMemory(req[r].mem) /\ IsFile(file)
  BY DEF TypeOK, ActorsTyped, RulesTyped, LogTyped, IsReq
<1>2. req[r].phase = "book" /\ UNCHANGED <<files, run, verdicts, torn, engines>>
  BY DEF ReadBook
<1>3. req[r].op \in {"approve", "create", "toggle", "update", "delete"}
  BY <1>1, <1>2 DEF IsReq, ReqPhases
<1>4. {"over", "book_truncate"} \subseteq ReqPhases(req[r].op)
  BY <1>3 DEF ReqPhases, None
<1>5. CASE GotoReq(r, "over")
  BY <1>2, <1>3, <1>4, <1>5, GotoReqDoes
<1>6. CASE /\ ~file.torn
           /\ req[r].op \in {"toggle", "delete", "update"}
                => FirstWithId(file.data, req[r].entry.id) # 0
           /\ req' = [req EXCEPT ![r] = [@ EXCEPT !.phase = "book_truncate", !.mem.book = book]]
  <2>1. IsBook(book)
    BY <1>1, <1>3, <1>6, EditedFacts DEF IsFile
  <2> HIDE DEF book
  <2>2. OnlyReq(r)
    BY <1>1, <1>2, <1>6 DEF OnlyReq
  <2>3. /\ DOMAIN req'[r] = DOMAIN req[r] /\ req'[r].phase = "book_truncate" /\ SameWish(r)
        /\ req'[r].mem = [req[r].mem EXCEPT !.book = book]
    BY <1>1, <1>6 DEF IsReq, SameWish, SameJob
  <2>4. /\ DOMAIN req'[r].mem = DOMAIN req[r].mem /\ req'[r].mem.log = req[r].mem.log
        /\ req'[r].mem.queue = req[r].mem.queue /\ req'[r].mem.cands = req[r].mem.cands
        /\ req'[r].mem.book = book /\ req'[r].mem.file = req[r].mem.file
    BY <1>1, <2>3 DEF IsMemory
  <2>5. IsMemory(req'[r].mem)
    BY <1>1, <2>1, <2>4 DEF IsMemory
  <2>6. IsReq(req'[r])
    BY <1>1, <1>2, <1>4, <2>3, <2>4, <2>5 DEF IsReq, SameWish, SameJob, Reloading
  <2>7. req'[r].mem.book = Edited(r, file.data)
    BY <2>4 DEF book
  <2> QED
    BY <1>2, <1>3, <1>6, <2>2, <2>3, <2>4, <2>6, <2>7
<1> QED
  BY <1>5, <1>6 DEF ReadBook

\* A step that only moves the request on.
LEMMA MovesOn ==
  ASSUME TypeOK, NEW r \in Requests, NEW phase \in ReqPhases(req[r].op),
         req[r].phase \notin Reloading,
         req' = [req EXCEPT ![r].phase = phase], UNCHANGED run
  PROVE  /\ OnlyReq(r) /\ IsReq(req'[r]) /\ SameWish(r) /\ req'[r].phase = phase
         /\ req'[r].mem = req[r].mem
<1>1. IsReq(req[r]) /\ DOMAIN req = Requests
  BY DEF TypeOK, ActorsTyped
<1>2. OnlyReq(r)
  BY <1>1 DEF OnlyReq
<1>3. /\ DOMAIN req'[r] = DOMAIN req[r] /\ req'[r].phase = phase /\ SameWish(r)
      /\ req'[r].mem = req[r].mem
  BY <1>1 DEF IsReq, SameWish, SameJob
<1>4. IsReq(req'[r])
  BY <1>1, <1>3 DEF IsReq, SameWish, SameJob
<1> QED
  BY <1>2, <1>3, <1>4

LEMMA BookTruncateDoes ==
  ASSUME TypeOK, NEW r \in Requests, BookTruncate(r)
  PROVE  /\ OnlyReq(r) /\ IsReq(req'[r]) /\ SameWish(r) /\ req'[r].mem = req[r].mem
         /\ req[r].phase = "book_truncate" /\ req'[r].phase = "book_dump"
         /\ rules' = [rules EXCEPT ![req[r].kind] = TornFile]
         /\ UNCHANGED <<log, pending, verdicts, torn, engines>>
<1>1. /\ req' = [req EXCEPT ![r].phase = "book_dump"] /\ req[r].phase = "book_truncate"
      /\ rules' = [rules EXCEPT ![req[r].kind] = TornFile]
      /\ UNCHANGED <<log, pending, run, verdicts, torn, engines>>
  BY DEF BookTruncate
<1>2. "book_dump" \in ReqPhases(req[r].op)
  BY <1>1 DEF TypeOK, ActorsTyped, IsReq, ReqPhases
<1> QED
  BY <1>1, <1>2, MovesOn DEF Reloading

LEMMA BookDumpDoes ==
  ASSUME TypeOK, NEW r \in Requests, BookDump(r)
  PROVE  /\ OnlyReq(r) /\ IsReq(req'[r]) /\ SameWish(r) /\ req'[r].mem = req[r].mem
         /\ req[r].phase = "book_dump"
         /\ req'[r].phase = CASE req[r].op = "approve" -> "truncate"
                              [] req[r].op = "promote" -> "ask"
                              [] OTHER                 -> "reload"
         /\ rules' = [rules EXCEPT ![req[r].kind] = File(req[r].mem.book)]
         /\ UNCHANGED <<log, pending, verdicts, torn, engines>>
<1> DEFINE next == CASE req[r].op = "approve" -> "truncate"
                     [] req[r].op = "promote" -> "ask"
                     [] OTHER                 -> "reload"
<1>1. /\ req' = [req EXCEPT ![r].phase = next] /\ req[r].phase = "book_dump"
      /\ rules' = [rules EXCEPT ![req[r].kind] = File(req[r].mem.book)]
      /\ UNCHANGED <<log, pending, run, verdicts, torn, engines>>
  BY DEF BookDump
<1>2. req[r].op \in {"approve", "promote", "create", "toggle", "update", "delete"}
  BY <1>1 DEF TypeOK, ActorsTyped, IsReq, ReqPhases
<1>3. next \in ReqPhases(req[r].op)
  BY <1>2 DEF ReqPhases, None
<1> HIDE DEF next
<1>4. /\ OnlyReq(r) /\ IsReq(req'[r]) /\ SameWish(r) /\ req'[r].mem = req[r].mem
      /\ req'[r].phase = next
  BY <1>1, <1>3, MovesOn DEF Reloading
<1> QED
  BY <1>1, <1>4 DEF next

LEMMA PendingTruncateDoes ==
  ASSUME TypeOK, NEW r \in Requests, PendingTruncate(r)
  PROVE  /\ OnlyReq(r) /\ IsReq(req'[r]) /\ SameWish(r) /\ req'[r].mem = req[r].mem
         /\ req[r].phase = "truncate" /\ req'[r].phase = "dump"
         /\ req[r].op \in {"approve", "reject"}
         /\ pending' = EmptyQueue
         /\ UNCHANGED <<log, rules, verdicts, torn, engines>>
<1>1. /\ req' = [req EXCEPT ![r].phase = "dump"] /\ req[r].phase = "truncate"
      /\ pending' = EmptyQueue
      /\ UNCHANGED <<log, rules, run, verdicts, torn, engines>>
  BY DEF PendingTruncate
<1>2. req[r].op \in {"approve", "reject"}
  BY <1>1 DEF TypeOK, ActorsTyped, IsReq, ReqPhases
<1>3. "dump" \in ReqPhases(req[r].op)
  BY <1>2 DEF ReqPhases, None
<1> QED
  BY <1>1, <1>2, <1>3, MovesOn DEF Reloading

LEMMA PendingDumpDoes ==
  ASSUME TypeOK, NEW r \in Requests, PendingDump(r)
  PROVE  /\ OnlyReq(r) /\ IsReq(req'[r]) /\ SameWish(r) /\ Forgets(r)
         /\ req[r].phase = "dump"
         /\ \/ req[r].op = "approve" /\ req'[r].phase = "reload"
            \/ req[r].op = "reject" /\ req'[r].phase = "over"
         /\ pending' = req[r].mem.queue
         /\ UNCHANGED <<log, rules, verdicts, torn, engines>>
<1> DEFINE next == IF req[r].op = "approve" THEN "reload" ELSE "over"
<1>1. /\ GotoReq(r, next) /\ req[r].phase = "dump"
      /\ pending' = req[r].mem.queue
      /\ UNCHANGED <<log, rules, run, verdicts, torn, engines>>
  BY DEF PendingDump
<1>2. req[r].op \in {"approve", "reject"}
  BY <1>1 DEF TypeOK, ActorsTyped, IsReq, ReqPhases
<1>3. next \in ReqPhases(req[r].op)
  BY <1>2 DEF ReqPhases, None
<1> HIDE DEF next
<1>4. /\ OnlyReq(r) /\ IsReq(req'[r]) /\ Forgets(r) /\ SameWish(r) /\ req'[r].phase = next
  BY <1>1, <1>3, GotoReqDoes
<1> QED
  BY <1>1, <1>2, <1>4 DEF next

\* A reload reads a file, or ends; what it has read replaces the rules of the engine.
LEMMA ReloadReadDoes ==
  ASSUME TypeOK, NEW r \in Requests, ReloadRead(r)
  PROVE  /\ OnlyReq(r) /\ IsReq(req'[r]) /\ SameWish(r)
         /\ req[r].phase = "reload" /\ req[r].op # "promote" /\ req[r].mem.file \in Books
         /\ \/ /\ Forgets(r) /\ req'[r].phase = "over"
               /\ ~engine["api"].loaded \/ rules[req[r].mem.file].torn
            \/ /\ req'[r].phase = "install"
               /\ req'[r].mem.file = req[r].mem.file
               /\ req'[r].mem.keys = EnabledKeys(req[r].mem.file)
         /\ req'[r].mem = Memory \/ SameCopies(r)
         /\ UNCHANGED <<files, verdicts, torn, engines>>
<1> DEFINE k == req[r].mem.file
<1>1. IsReq(req[r]) /\ DOMAIN req = Requests /\ IsMemory(req[r].mem)
  BY DEF TypeOK, ActorsTyped, IsReq
<1>2. req[r].phase = "reload" /\ UNCHANGED <<files, run, verdicts, torn, engines>>
  BY DEF ReloadRead, engines
<1>3. {"over", "install"} \subseteq ReqPhases(req[r].op) /\ req[r].op # "promote"
  BY <1>1, <1>2 DEF IsReq, ReqPhases
<1>4. k \in Books
  BY <1>1 DEF IsMemory
<1>5. CASE GotoReq(r, "over") /\ (~engine["api"].loaded \/ rules[k].torn)
  BY <1>2, <1>3, <1>4, <1>5, GotoReqDoes DEF Forgets
<1>6. CASE req' = [req EXCEPT ![r] = [@ EXCEPT !.phase = "install", !.mem.keys = EnabledKeys(k)]]
  <2>1. OnlyReq(r)
    BY <1>1, <1>2, <1>6 DEF OnlyReq
  <2>2. /\ DOMAIN req'[r] = DOMAIN req[r] /\ req'[r].phase = "install" /\ SameWish(r)
        /\ req'[r].mem = [req[r].mem EXCEPT !.keys = EnabledKeys(k)]
    BY <1>1, <1>6 DEF IsReq, SameWish, SameJob
  <2>3. /\ DOMAIN req'[r].mem = DOMAIN req[r].mem /\ req'[r].mem.keys = EnabledKeys(k)
        /\ SameCopies(r) /\ req'[r].mem.file = k
    BY <1>1, <2>2 DEF IsMemory, SameCopies
  <2>4. IsMemory(req'[r].mem)
    BY <1>1, <2>3 DEF IsMemory, SameCopies
  <2>5. IsReq(req'[r])
    BY <1>1, <1>3, <2>2, <2>4 DEF IsReq, SameWish, SameJob, Reloading
  <2> QED
    BY <1>2, <1>3, <1>4, <2>1, <2>2, <2>3, <2>5
<1> QED
  BY <1>5, <1>6 DEF ReloadRead

LEMMA ReloadInstallDoes ==
  ASSUME TypeOK, NEW r \in Requests, ReloadInstall(r)
  PROVE  /\ OnlyReq(r) /\ IsReq(req'[r]) /\ SameWish(r)
         /\ req[r].phase = "install" /\ req[r].op # "promote" /\ req[r].mem.file \in Books
         /\ \/ /\ Forgets(r) /\ req'[r].phase = "over"
               /\ NextFile[req[r].mem.file] = "end"
            \/ /\ req'[r].phase = "reload"
               /\ req'[r].mem.file = NextFile[req[r].mem.file]
         /\ req'[r].mem = Memory \/ SameCopies(r)
         /\ engine' = [engine EXCEPT !["api"][req[r].mem.file] = req[r].mem.keys]
         /\ UNCHANGED <<files, verdicts, torn, loading>>
<1> DEFINE k == req[r].mem.file
           next == NextFile[k]
<1>1. IsReq(req[r]) /\ DOMAIN req = Requests /\ IsMemory(req[r].mem)
  BY DEF TypeOK, ActorsTyped, IsReq
<1>2. /\ req[r].phase = "install" /\ UNCHANGED <<files, run, verdicts, torn, loading>>
      /\ engine' = [engine EXCEPT !["api"][k] = req[r].mem.keys]
  BY DEF ReloadInstall
<1>3. {"over", "reload"} \subseteq ReqPhases(req[r].op) /\ req[r].op # "promote"
  BY <1>1, <1>2 DEF IsReq, ReqPhases
<1>4. k \in Books
  BY <1>1 DEF IsMemory
<1>5. CASE next = "end"
  <2>1. GotoReq(r, "over")
    BY <1>5 DEF ReloadInstall
  <2> QED
    BY <1>2, <1>3, <1>4, <1>5, <2>1, GotoReqDoes DEF Forgets
<1>6. CASE next # "end"
  <2>1. next \in Books
    BY <1>4, <1>6 DEF NextFile, Books, Kinds
  <2>2. req' = [req EXCEPT ![r] = [@ EXCEPT !.phase = "reload", !.mem.file = next,
                                           !.mem.keys = {}]]
    BY <1>6 DEF ReloadInstall
  <2> HIDE DEF next
  <2>3. OnlyReq(r)
    BY <1>1, <1>2, <2>2 DEF OnlyReq
  <2>4. /\ DOMAIN req'[r] = DOMAIN req[r] /\ req'[r].phase = "reload" /\ SameWish(r)
        /\ req'[r].mem = [req[r].mem EXCEPT !.file = next, !.keys = {}]
    BY <1>1, <2>2 DEF IsReq, SameWish, SameJob
  <2>5. /\ DOMAIN req'[r].mem = DOMAIN req[r].mem /\ req'[r].mem.file = next /\ SameCopies(r)
    BY <1>1, <2>4 DEF IsMemory, SameCopies
  <2>6. IsMemory(req'[r].mem)
    BY <1>1, <2>1, <2>5 DEF IsMemory, SameCopies
  <2>7. IsReq(req'[r])
    BY <1>1, <1>3, <2>4, <2>6 DEF IsReq, SameWish, SameJob, Reloading
  <2>8. req'[r].mem.file = NextFile[k]
    BY <2>5 DEF next
  <2> QED
    BY <1>2, <1>3, <1>4, <2>3, <2>4, <2>5, <2>7, <2>8
<1> QED
  BY <1>5, <1>6

-----------------------------------------------------------------------------
(***************************************************************************)
(* Types hold                                                              *)
(***************************************************************************)
\* What becomes of the actors when a process dies.
LEMMA RestartDoes ==
  ASSUME TypeOK, NEW p \in Processes, Restart(p)
  PROVE  /\ DOMAIN run' = Runs /\ DOMAIN req' = Requests
         /\ \A t \in Runs : /\ IsRun(run'[t])
                            /\ \/ run'[t] = run[t]
                               \/ /\ run'[t].phase = "dead" /\ Blank(t)
                                  /\ run[t].phase \notin {"idle", "end"}
                                  /\ run'[t].kind = run[t].kind
                                  /\ run'[t].asked = run[t].asked
         /\ \A r \in Requests : /\ IsReq(req'[r])
                                /\ \/ req'[r] = req[r]
                                   \/ /\ req'[r].phase = "lost" /\ Forgets(r) /\ SameWish(r)
                                      /\ p = "api" /\ InApi(r)
         /\ engine' = [engine EXCEPT ![p] = Unloaded]
         /\ loading' = [loading EXCEPT ![p] = Unbuilt]
         /\ torn' = \/ torn
                    \/ \E t \in Runs : run'[t] # run[t] /\ run[t].phase \in Writing
                    \/ \E r \in Requests : req'[r] # req[r] /\ req[r].phase \in Writing
         /\ UNCHANGED <<files, verdicts, history>>
<1>1. /\ \A t \in Runs : IsRun(run[t])
      /\ \A r \in Requests : IsReq(req[r])
  BY DEF TypeOK, ActorsTyped
<1>2. /\ run' = [t \in Runs |->
               IF run[t].host = p /\ run[t].phase \notin {"idle", "end"}
                 THEN [run[t] EXCEPT !.phase = "dead", !.mem = Memory] ELSE run[t]]
      /\ req' = [r \in Requests |->
               IF p = "api" /\ InApi(r)
                 THEN [req[r] EXCEPT !.phase = "lost", !.mem = Memory] ELSE req[r]]
  BY DEF Restart
<1>3. ASSUME NEW t \in Runs
      PROVE  /\ IsRun(run'[t])
             /\ \/ run'[t] = run[t]
                \/ /\ run'[t].phase = "dead" /\ Blank(t)
                   /\ run[t].phase \notin {"idle", "end"}
                   /\ run'[t].kind = run[t].kind /\ run'[t].asked = run[t].asked
  <2>1. CASE run'[t] = run[t]
    BY <1>1, <2>1
  <2>2. CASE run'[t] = [run[t] EXCEPT !.phase = "dead", !.mem = Memory]
    <3>1. /\ DOMAIN run'[t] = DOMAIN run[t] /\ run'[t].phase = "dead" /\ Blank(t)
          /\ run'[t].kind = run[t].kind /\ run'[t].host = run[t].host
          /\ run'[t].asked = run[t].asked /\ run'[t].verdict = run[t].verdict
      BY <1>1, <2>2 DEF IsRun, Blank
    <3>2. IsRun(run'[t])
      BY <1>1, <3>1, EmptyMemory DEF IsRun, RunPhases, Blank
    <3>3. run[t].phase \notin {"idle", "end"} \/ run'[t] = run[t]
      BY <1>2
    <3> QED
      BY <3>1, <3>2, <3>3
  <2> QED
    BY <1>2, <2>1, <2>2
<1>4. ASSUME NEW r \in Requests
      PROVE  /\ IsReq(req'[r])
             /\ \/ req'[r] = req[r]
                \/ /\ req'[r].phase = "lost" /\ Forgets(r) /\ SameWish(r)
                   /\ p = "api" /\ InApi(r)
  <2>1. CASE req'[r] = req[r]
    BY <1>1, <2>1
  <2>2. CASE req'[r] = [req[r] EXCEPT !.phase = "lost", !.mem = Memory] /\ InApi(r) /\ p = "api"
    <3>1. /\ DOMAIN req'[r] = DOMAIN req[r] /\ req'[r].phase = "lost" /\ Forgets(r) /\ SameWish(r)
      BY <1>1, <2>2 DEF IsReq, Forgets, SameWish, SameJob
    <3>2. "lost" \in ReqPhases(req[r].op)
      BY <1>1, <2>2 DEF InApi, IsReq, ReqPhases, None
    <3>3. IsReq(req'[r])
      BY <1>1, <3>1, <3>2, EmptyMemory DEF IsReq, Forgets, SameWish, SameJob, Memory
    <3> QED
      BY <2>2, <3>1, <3>3
  <2> QED
    BY <1>2, <2>1, <2>2
<1> QED
  BY <1>2, <1>3, <1>4 DEF Restart

\* The step of one actor.
RunAction(t) ==
  \/ Classify(t) \/ Decide(t) \/ Whitelisted(t) \/ Verify(t) \/ WriteVerdict(t)
  \/ QueueRead(t) \/ QueuePending(t) \/ QueueTruncate(t) \/ QueueDump(t)
ReqAction(r) ==
  \/ FindPending(r) \/ ReadBook(r) \/ Ask(r) \/ BookTruncate(r) \/ BookDump(r)
  \/ PendingTruncate(r) \/ PendingDump(r) \/ ReloadRead(r) \/ ReloadInstall(r)

Loads(p) == LoadFile(p) \/ PublishEngine(p)

LEMMA Steps ==
  ASSUME [Next]_vars
  PROVE  \/ \E t \in Runs : RunAction(t) /\ Noted(t)
         \/ \E r \in Requests : ReqAction(r) /\ Noted(r)
         \/ \E r \in Requests : (Click(r) \/ Submit(r) \/ StartPromote(r)) /\ UNCHANGED history
         \/ WriteFails
         \/ \E p \in Processes : Loads(p) \/ Restart(p)
         \/ UNCHANGED vars
<1>1. \A t \in Runs : RunStep(t) => RunAction(t)
  BY DEF RunStep, RunAction, queue_promotion_candidates,
         queue_decision_promotion_candidates, Queue
<1>2. \A r \in Requests : ReqStep(r) => ReqAction(r)
  BY DEF ReqStep, ReqAction, Process, approve_pending_rule, reject_pending_rule,
         approve_pending_decision_rule, reject_pending_decision_rule, main, create_rule,
         delete_rule, toggle_rule, create_whitelist_entry, update_whitelist_entry,
         delete_whitelist_entry
<1> QED
  BY <1>1, <1>2 DEF Next, Loads

\* What is loaded has the shape of an engine, and nobody else notices.
LEMMA LoadsDoes ==
  ASSUME TypeOK, NEW p \in Processes, Loads(p)
  PROVE  EnginesTyped' /\ UNCHANGED <<files, run, req, verdicts, history, torn>>
<1>1. UNCHANGED <<files, run, req, verdicts, history, torn>>
  BY DEF Loads, LoadFile, PublishEngine
<1>2. EnginesTyped
  BY DEF TypeOK
<1>3. CASE LoadFile(p)
  <2> DEFINE k == loading[p].file
             old == loading[p].built
             new == [old EXCEPT ![k] = EnabledKeys(k)]
             loaded == IF rules[k].torn THEN Unbuilt ELSE [file |-> NextFile[k], built |-> new]
  <2>1. k \in Books /\ IsEngine(old)
    BY <1>2, <1>3 DEF EnginesTyped, LoadFile
  <2>2. IsEngine(new)
    BY <2>1 DEF IsEngine, Books, Kinds
  <2>3. NextFile[k] \in Books \cup {"end"}
    BY <2>1 DEF NextFile, Books, Kinds
  <2>4. loading' = [loading EXCEPT ![p] = loaded] /\ engine' = engine
    BY <1>3 DEF LoadFile
  <2>5. /\ DOMAIN loaded = {"file", "built"} /\ loaded.file \in Books \cup {"end"}
        /\ IsEngine(loaded.built)
    <3> HIDE DEF new
    <3> QED
      BY <2>2, <2>3, UnbuiltTyped
  <2> HIDE DEF loaded
  <2> QED
    BY <1>1, <1>2, <2>4, <2>5 DEF EnginesTyped
<1>4. CASE PublishEngine(p)
  BY <1>1, <1>2, <1>4, UnbuiltTyped DEF EnginesTyped, PublishEngine
<1> QED
  BY <1>3, <1>4 DEF Loads

LEMMA WriteFailsDoes ==
  ASSUME TypeOK, WriteFails
  PROVE  /\ \/ \E t \in Runs : /\ OnlyRun(t) /\ IsRun(run'[t]) /\ NextKind(t)
                               /\ Blank(t) /\ run'[t].phase \in {"queue", "end"}
                               /\ run'[t].kind = "dec" /\ run[t].phase \in Writing
            \/ \E r \in Requests : /\ OnlyReq(r) /\ IsReq(req'[r]) /\ Forgets(r)
                                   /\ SameWish(r) /\ req'[r].phase = "over"
                                   /\ req[r].phase \in Writing
         /\ torn' = TRUE /\ UNCHANGED <<files, engines, verdicts, history>>
<1>1. torn' = TRUE /\ UNCHANGED <<files, engines, verdicts, history>>
  BY DEF WriteFails
<1>2. CASE \E t \in Runs : run[t].phase \in Writing /\ NextKind(t) /\ UNCHANGED req
  BY <1>1, <1>2, NextKindDoes
<1>3. CASE \E r \in Requests : /\ req[r].phase \in Writing /\ GotoReq(r, "over")
                               /\ UNCHANGED run
  <2>1. PICK r \in Requests : req[r].phase \in Writing /\ GotoReq(r, "over") /\ UNCHANGED run
    BY <1>3
  <2>2. req[r].op \in {"approve", "reject", "promote", "create", "toggle", "update", "delete"}
    BY <2>1 DEF TypeOK, ActorsTyped, IsReq, ReqPhases, Writing
  <2>3. "over" \in ReqPhases(req[r].op)
    BY <2>2 DEF ReqPhases, None
  <2> QED
    BY <1>1, <2>1, <2>3, GotoReqDoes
<1> QED
  BY <1>1, <1>2, <1>3 DEF WriteFails

LEMMA ActorsStayTyped ==
  /\ \A t \in Runs : TypeOK /\ OnlyRun(t) /\ IsRun(run'[t]) => ActorsTyped'
  /\ \A r \in Requests : TypeOK /\ OnlyReq(r) /\ IsReq(req'[r]) => ActorsTyped'
BY DEF TypeOK, ActorsTyped, OnlyRun, OnlyReq

LEMMA LogStaysTyped ==
  ASSUME LogTyped, NEW t \in Runs, NEW k \in Kinds, NEW label \in Labels, NEW llm \in BOOLEAN,
         log' = [log EXCEPT ![k][t] = Logged(label, llm)]
  PROVE  LogTyped'
<1>1. Logged(label, llm) \in LogEntry
  BY DEF Logged, LogEntry
<1> QED
  BY <1>1 DEF LogTyped

LEMMA VerdictStaysTyped ==
  ASSUME LogTyped, NEW t \in Runs, NEW k \in Kinds, NEW lg \in [Runs -> LogEntry],
         NEW v \in {"passed", "failed"}, log' = [log EXCEPT ![k] = [lg EXCEPT ![t].qa = v]]
  PROVE  LogTyped'
<1>1. [lg[t] EXCEPT !.qa = v] \in LogEntry
  BY DEF LogEntry
<1>2. [lg EXCEPT ![t].qa = v] \in [Runs -> LogEntry]
  BY <1>1
<1> QED
  BY <1>2 DEF LogTyped

LEMMA RunTypes ==
  ASSUME TypeOK, NEW t \in Runs, RunAction(t)
  PROVE  TypeOK'
<1>1. OnlyRun(t) /\ IsRun(run'[t])
  BY ClassifyDoes, DecideDoes, WhitelistedDoes, VerifyDoes, WriteVerdictDoes, QueueReadDoes,
     QueuePendingDoes, QueueTruncateDoes, QueueDumpDoes DEF RunAction
<1>2. ActorsTyped'
  BY <1>1, ActorsStayTyped
<1>3. RulesTyped' /\ EnginesTyped'
  <2>1. UNCHANGED <<rules, engine, loading>>
    BY DEF RunAction, Classify, Decide, Whitelisted, Verify, WriteVerdict, Queue, QueueRead,
           QueuePending, QueueTruncate, QueueDump, files, engines
  <2> QED
    BY <2>1 DEF TypeOK, RulesTyped, EnginesTyped
<1>4. IsQueue(pending')
  <2>1. CASE QueueTruncate(t) \/ QueueDump(t)
    BY <2>1, QueueTruncateDoes, QueueDumpDoes, EmptyMemory
    DEF TypeOK, ActorsTyped, IsRun, IsMemory, Memory
  <2>2. CASE ~(QueueTruncate(t) \/ QueueDump(t))
    <3>1. pending' = pending
      BY <2>2, ClassifyDoes, DecideDoes, WhitelistedDoes, VerifyDoes, WriteVerdictDoes,
         QueueReadDoes, QueuePendingDoes DEF RunAction, files
    <3> QED
      BY <3>1 DEF TypeOK
  <2> QED
    BY <2>1, <2>2
<1>5. verdicts' \in [Runs -> SUBSET {"passed", "failed"}]
  <2>1. CASE Verify(t)
    BY <2>1, VerifyDoes DEF TypeOK
  <2>2. CASE ~Verify(t)
    BY <2>2, ClassifyDoes, DecideDoes, WhitelistedDoes, WriteVerdictDoes, QueueReadDoes,
       QueuePendingDoes, QueueTruncateDoes, QueueDumpDoes DEF RunAction, TypeOK
  <2> QED
    BY <2>1, <2>2
<1>6. LogTyped'
  <2>1. CASE Classify(t)
    <3>1. CASE log' = log
      BY <3>1 DEF TypeOK, LogTyped
    <3>2. CASE \E label \in Labels : log' = [log EXCEPT !["clf"][t] = Logged(label, TRUE)]
      BY <3>2, LogStaysTyped DEF TypeOK, Kinds
    <3> QED
      BY <2>1, <3>1, <3>2, ClassifyDoes
  <2>4. CASE Decide(t)
    <3>1. CASE log' = log
      BY <3>1 DEF TypeOK, LogTyped
    <3>2. CASE \E llm \in BOOLEAN, label \in Labels \ {None} :
                 log' = [log EXCEPT !["dec"][t] = Logged(label, llm)]
      BY <3>2, LogStaysTyped DEF TypeOK, Kinds
    <3> QED
      BY <2>4, <3>1, <3>2, DecideDoes
  <2>2. CASE WriteVerdict(t)
    <3>1. /\ log' = [log EXCEPT !["clf"] = [run[t].mem.log EXCEPT ![t].qa = run[t].verdict]]
          /\ run[t].phase = "qa_write"
      BY <2>2, WriteVerdictDoes
    <3>2. run[t].mem.log \in [Runs -> LogEntry] /\ run[t].verdict \in {"passed", "failed"}
      BY <3>1 DEF TypeOK, ActorsTyped, IsRun, IsMemory
    <3> QED
      BY <3>1, <3>2, VerdictStaysTyped DEF TypeOK, Kinds
  <2>3. CASE ~(Classify(t) \/ Decide(t) \/ WriteVerdict(t))
    <3>1. log' = log
      BY <2>3, WhitelistedDoes, VerifyDoes, QueueReadDoes,
         QueuePendingDoes, QueueTruncateDoes, QueueDumpDoes DEF RunAction, files
    <3> QED
      BY <3>1 DEF TypeOK, LogTyped
  <2> QED
    BY <2>1, <2>2, <2>3, <2>4
<1> QED
  BY <1>2, <1>3, <1>4, <1>5, <1>6 DEF TypeOK

LEMMA ReqTypes ==
  ASSUME TypeOK, NEW r \in Requests, ReqAction(r) \/ Click(r) \/ Submit(r) \/ StartPromote(r)
  PROVE  TypeOK'
<1>1. OnlyReq(r) /\ IsReq(req'[r]) /\ log' = log /\ verdicts' = verdicts
  BY FindPendingDoes, ReadBookDoes, AskDoes, BookTruncateDoes, BookDumpDoes,
     PendingTruncateDoes, PendingDumpDoes, ReloadReadDoes, ReloadInstallDoes, ChooseDoes, StartPromoteDoes
  DEF ReqAction, files
<1>2. ActorsTyped'
  BY <1>1, ActorsStayTyped
<1>3. EnginesTyped'
  <2>1. CASE ReloadInstall(r)
    <3> DEFINE k == req[r].mem.file
    <3>1. /\ engine' = [engine EXCEPT !["api"][k] = req[r].mem.keys] /\ loading' = loading
          /\ k \in Books /\ EnginesTyped
      BY <2>1, ReloadInstallDoes DEF TypeOK
    <3>2. [engine["api"] EXCEPT ![k] = req[r].mem.keys] = Unloaded
          \/ IsEngine([engine["api"] EXCEPT ![k] = req[r].mem.keys])
      <4>1. CASE engine["api"] = Unloaded
        BY <3>1, <4>1 DEF Unloaded, Books, Kinds
      <4>2. CASE IsEngine(engine["api"])
        BY <3>1, <4>2 DEF IsEngine, Books, Kinds
      <4> QED
        BY <3>1, <4>1, <4>2 DEF EnginesTyped, Processes
    <3> QED
      BY <3>1, <3>2 DEF EnginesTyped
  <2>2. CASE ~ReloadInstall(r)
    <3>1. UNCHANGED engines
      BY <2>2, FindPendingDoes, ReadBookDoes, AskDoes, BookTruncateDoes, BookDumpDoes,
         PendingTruncateDoes, PendingDumpDoes, ReloadReadDoes, ChooseDoes, StartPromoteDoes
      DEF ReqAction
    <3> QED
      BY <3>1 DEF engines, TypeOK, EnginesTyped
  <2> QED
    BY <2>1, <2>2
<1>4. IsQueue(pending')
  <2>1. CASE PendingTruncate(r) \/ PendingDump(r)
    BY <2>1, PendingTruncateDoes, PendingDumpDoes, EmptyMemory
    DEF TypeOK, ActorsTyped, IsReq, IsMemory, Memory
  <2>2. CASE ~(PendingTruncate(r) \/ PendingDump(r))
    <3>1. pending' = pending
      BY <2>2, FindPendingDoes, ReadBookDoes, AskDoes, BookTruncateDoes, BookDumpDoes,
         ReloadReadDoes, ReloadInstallDoes, ChooseDoes, StartPromoteDoes DEF ReqAction, files
    <3> QED
      BY <3>1 DEF TypeOK
  <2> QED
    BY <2>1, <2>2
<1>5. RulesTyped'
  <2>1. CASE BookTruncate(r) \/ BookDump(r)
    <3>1. \E b : IsBook(b) /\ \E f \in {TornFile, File(b)} :
                   rules' = [rules EXCEPT ![req[r].kind] = f]
      BY <2>1, BookTruncateDoes, BookDumpDoes DEF TypeOK, ActorsTyped, IsReq, IsMemory
    <3>2. IsFile(TornFile)
      BY EmptyIsSeq DEF IsFile, IsBook, TornFile
    <3>3. \A b : IsBook(b) => IsFile(File(b))
      BY DEF IsFile, File
    <3> QED
      BY <3>1, <3>2, <3>3 DEF TypeOK, RulesTyped
  <2>2. CASE ~(BookTruncate(r) \/ BookDump(r))
    <3>1. rules' = rules
      BY <2>2, FindPendingDoes, ReadBookDoes, AskDoes, PendingTruncateDoes, PendingDumpDoes,
         ReloadReadDoes, ReloadInstallDoes, ChooseDoes, StartPromoteDoes DEF ReqAction, files
    <3> QED
      BY <3>1 DEF TypeOK, RulesTyped
  <2> QED
    BY <2>1, <2>2
<1> QED
  BY <1>1, <1>2, <1>3, <1>4, <1>5 DEF TypeOK, LogTyped

LEMMA StepType ==
  ASSUME TypeOK, [Next]_vars
  PROVE  TypeOK'
<1>1. CASE \E p \in Processes : Loads(p)
  BY <1>1, LoadsDoes DEF files, TypeOK, ActorsTyped, LogTyped, RulesTyped
<1>2. CASE WriteFails
  <2>1. ActorsTyped'
    BY <1>2, WriteFailsDoes, ActorsStayTyped
  <2> QED
    BY <1>2, <2>1, WriteFailsDoes DEF files, engines, TypeOK, LogTyped, RulesTyped, EnginesTyped
<1>3. CASE \E p \in Processes : Restart(p)
  <2>1. ActorsTyped' /\ UNCHANGED <<files, verdicts>>
    BY <1>3, RestartDoes DEF ActorsTyped
  <2>2. EnginesTyped'
    BY <1>3, RestartDoes, UnbuiltTyped DEF EnginesTyped, TypeOK
  <2> QED
    BY <2>1, <2>2 DEF files, TypeOK, LogTyped, RulesTyped
<1>4. CASE UNCHANGED vars
  BY <1>4 DEF vars, files, engines, TypeOK, ActorsTyped, LogTyped, RulesTyped, EnginesTyped
<1> QED
  BY <1>1, <1>2, <1>3, <1>4, RunTypes, ReqTypes, Steps

(***************************************************************************)
(* The files, the runs and the requests keep their shapes.                 *)
(***************************************************************************)
THEOREM TypeCorrect == Spec => []TypeOK
BY InitType, StepType, PTL DEF Spec

-----------------------------------------------------------------------------
(***************************************************************************)
(* What is offered or promoted rests on verified runs: so do all copies    *)
(* that anybody holds in memory, of the log, of the queue, of the book and *)
(* of the candidates.  The log of the decisions is never verified at all.  *)
(***************************************************************************)
PassedIn(v, key) == {t \in Runs : KeyOf[t] = key /\ "passed" \in v[t]}

Earned(v, key, count) ==
  key \in ShippedKeys \/ /\ count \in Nat /\ count >= MinCount
                         /\ count <= Cardinality(PassedIn(v, key))

QueueEarned(v, q) == \A k \in Kinds : \A e \in Elements(q[k]) : Earned(v, e.key, e.count)
BookEarned(v, b)  == \A x \in Elements(b) : x.by # "create" => Earned(v, x.key, x.count)
LogEarned(v, lg)  == \A t \in Runs : lg[t].qa = "passed" => "passed" \in v[t]

MemoryEarned(v, m) ==
  /\ QueueEarned(v, m.queue) /\ LogEarned(v, m.log)
  /\ \A c \in m.cands : Earned(v, c.key, c.count)
RunEarned(v, t, m) ==
  /\ MemoryEarned(v, m.mem)
  /\ m.phase = "qa_write" /\ m.verdict = "passed" => "passed" \in v[t]
ReqEarned(v, m) ==
  /\ MemoryEarned(v, m.mem)
  /\ m.kind \in Kinds => BookEarned(v, m.mem.book)
  /\ m.op = "approve" /\ m.phase = "book" => Earned(v, m.got.key, m.got.count)

FilesEarned(v) ==
  /\ LogEarned(v, log["clf"]) /\ \A t \in Runs : log["dec"][t].qa # "passed"
  /\ QueueEarned(v, pending) /\ \A k \in Kinds : BookEarned(v, rules[k].data)
ActorsEarned(v) ==
  /\ \A t \in Runs : RunEarned(v, t, run[t])
  /\ \A r \in Requests : ReqEarned(v, req[r])
EarnedInv == TypeOK /\ FilesEarned(verdicts) /\ ActorsEarned(verdicts)

\* A verdict takes nothing away.
Grows(v, w) == \A t \in Runs : v[t] \subseteq w[t]

LEMMA EarnedGrows ==
  ASSUME NEW v, NEW w, Grows(v, w)
  PROVE  /\ \A key, count : Earned(v, key, count) => Earned(w, key, count)
         /\ \A q : QueueEarned(v, q) => QueueEarned(w, q)
         /\ \A b : BookEarned(v, b) => BookEarned(w, b)
         /\ \A lg : LogEarned(v, lg) => LogEarned(w, lg)
         /\ \A m : MemoryEarned(v, m) => MemoryEarned(w, m)
         /\ \A t \in Runs : \A m : RunEarned(v, t, m) => RunEarned(w, t, m)
         /\ \A m : ReqEarned(v, m) => ReqEarned(w, m)
<1>1. ASSUME NEW key, NEW count, Earned(v, key, count)
      PROVE  Earned(w, key, count)
  <2>1. PassedIn(v, key) \subseteq PassedIn(w, key)
    BY DEF PassedIn, Grows
  <2>2. IsFiniteSet(PassedIn(w, key)) /\ IsFiniteSet(PassedIn(v, key))
    BY FS_Subset, PromotionAssumption DEF PassedIn
  <2>3. /\ Cardinality(PassedIn(v, key)) <= Cardinality(PassedIn(w, key))
        /\ Cardinality(PassedIn(v, key)) \in Nat /\ Cardinality(PassedIn(w, key)) \in Nat
    BY <2>1, <2>2, FS_Subset, FS_CardinalityType
  <2> QED
    BY <1>1, <2>3, PromotionAssumption DEF Earned
<1>2. \A q : QueueEarned(v, q) => QueueEarned(w, q)
  BY <1>1 DEF QueueEarned
<1>3. \A b : BookEarned(v, b) => BookEarned(w, b)
  BY <1>1 DEF BookEarned
<1>4. \A lg : LogEarned(v, lg) => LogEarned(w, lg)
  BY DEF LogEarned, Grows
<1>5. \A m : MemoryEarned(v, m) => MemoryEarned(w, m)
  BY <1>1, <1>2, <1>4 DEF MemoryEarned
<1>6. \A t \in Runs : \A m : RunEarned(v, t, m) => RunEarned(w, t, m)
  BY <1>5 DEF RunEarned, Grows
<1>7. \A m : ReqEarned(v, m) => ReqEarned(w, m)
  BY <1>1, <1>3, <1>5 DEF ReqEarned
<1> QED
  BY <1>1, <1>2, <1>3, <1>4, <1>5, <1>6, <1>7

\* A candidate rests on the verified entries of the log it was found in.
LEMMA CandidatesEarned ==
  ASSUME TypeOK, NEW v, FilesEarned(v), NEW k \in Kinds, NEW c \in Candidates(k, log[k])
  PROVE  Earned(v, c.key, c.count)
<1> DEFINE supporters == Support(log[k], c.key, c.label)
<1>1. /\ c \in Patterns /\ c.count = Cardinality(supporters) /\ c.count # 0
  <2>1. c \in Patterns /\ c.count = Cardinality(supporters)
    BY DEF Candidates, find_promotion_candidates, find_patterns
  <2> QED
    BY <2>1 DEF Patterns
<1>2. CASE k = "clf"
  <2>1. c.count >= MinCount
    BY <1>2 DEF Candidates, find_promotion_candidates
  <2>2. supporters \subseteq PassedIn(v, c.key)
    BY <1>2 DEF Support, Verified, PassedIn, FilesEarned, LogEarned
  <2>3. IsFiniteSet(PassedIn(v, c.key))
    BY FS_Subset, PromotionAssumption DEF PassedIn
  <2>4. Cardinality(supporters) <= Cardinality(PassedIn(v, c.key)) /\ IsFiniteSet(supporters)
    BY <2>2, <2>3, FS_Subset
  <2>5. c.count \in Nat
    BY <1>1, <2>4, FS_CardinalityType
  <2> QED
    BY <1>1, <2>1, <2>4, <2>5 DEF Earned
<1>3. CASE k = "dec"
  <2>1. supporters = {}
    BY <1>3 DEF Support, Verified, FilesEarned
  <2> QED
    BY <1>1, <2>1, FS_EmptySet
<1> QED
  BY <1>2, <1>3 DEF Kinds

LEMMA EmptyEarned == \A v : MemoryEarned(v, Memory) /\ QueueEarned(v, EmptyQueue) /\ BookEarned(v, << >>)
<1>1. \A v : QueueEarned(v, EmptyQueue) /\ BookEarned(v, << >>)
  BY EmptyIsSeq DEF QueueEarned, EmptyQueue, BookEarned, Kinds
<1>2. \A v : LogEarned(v, Memory.log)
  BY DEF LogEarned, Memory, NoEntry
<1> QED
  BY <1>1, <1>2 DEF MemoryEarned, Memory

LEMMA InitEarned == Init => EarnedInv
<1> SUFFICES ASSUME Init PROVE EarnedInv
  OBVIOUS
<1>1. PICK scene \in Scenes :
        /\ log = [k \in Kinds |-> [t \in Runs |->
              IF t \in scene.over /\ k = "clf"
                THEN [label |-> "x", llm |-> TRUE, qa |-> "passed"] ELSE NoEntry]]
        /\ run = [t \in Runs |->
              [InitRun EXCEPT !.phase = IF t \in scene.over THEN "end" ELSE "idle"]]
        /\ req = [r \in Requests |->
              [InitReq EXCEPT !.phase = IF r \in scene.asking THEN "idle" ELSE "over"]]
        /\ verdicts = [t \in Runs |-> IF t \in scene.over THEN {"passed"} ELSE {}]
  BY DEF Init
<1>2. LogEarned(verdicts, log["clf"]) /\ \A t \in Runs : log["dec"][t].qa # "passed"
  BY <1>1 DEF LogEarned, NoEntry, Kinds
<1>3. QueueEarned(verdicts, pending)
  <2> SUFFICES ASSUME NEW k \in Kinds, NEW e \in Elements(pending[k])
               PROVE  e.key \in ShippedKeys
    BY DEF QueueEarned, Earned
  <2>1. pending \in InitPending /\ pending[k] \in Seq(Waits)
    BY PromotionAssumption DEF Init
  <2>2. e \in Waits
    BY <2>1, TypedSeq
  <2> QED
    BY <2>1, <2>2 DEF Waits, ShippedKeys
<1>4. \A k \in Kinds : BookEarned(verdicts, rules[k].data)
  <2> SUFFICES ASSUME NEW k \in Kinds, NEW x \in Elements(rules[k].data)
               PROVE  x.key \in ShippedKeys
    BY DEF BookEarned, Earned
  <2>1. rules \in InitRules /\ k \in Books
    BY DEF Init, Books
  <2>2. rules[k] \in [torn : {FALSE}, data : Seq(Ruling)]
    BY <2>1, PromotionAssumption
  <2>3. rules[k].data \in Seq(Ruling)
    BY <2>2
  <2>4. x \in Ruling
    BY <2>3, TypedSeq
  <2> QED
    BY <2>1, <2>4 DEF Ruling, ShippedKeys
<1>5. ASSUME NEW t \in Runs PROVE RunEarned(verdicts, t, run[t])
  <2>1. run[t].mem = Memory /\ run[t].phase \in {"idle", "end"}
    BY <1>1 DEF InitRun
  <2> QED
    BY <2>1, EmptyEarned DEF RunEarned
<1>6. ASSUME NEW r \in Requests PROVE ReqEarned(verdicts, req[r])
  <2>1. req[r].mem = Memory /\ req[r].phase \in {"idle", "over"}
    BY <1>1 DEF InitReq
  <2>2. req[r].mem.book = << >>
    BY <2>1 DEF Memory
  <2> QED
    BY <2>1, <2>2, EmptyEarned DEF ReqEarned
<1> QED
  BY <1>2, <1>3, <1>4, <1>5, <1>6, InitType DEF EarnedInv, FilesEarned, ActorsEarned

\* A step that leaves the files, or leaves them earned, and one actor so.
LEMMA RunStaysEarned ==
  ASSUME EarnedInv, TypeOK', NEW t \in Runs, OnlyRun(t), Grows(verdicts, verdicts'),
         RunEarned(verdicts', t, run'[t]), FilesEarned(verdicts)'
  PROVE  EarnedInv'
BY EarnedGrows DEF EarnedInv, ActorsEarned, OnlyRun

LEMMA ReqStaysEarned ==
  ASSUME EarnedInv, TypeOK', NEW r \in Requests, OnlyReq(r), UNCHANGED verdicts,
         ReqEarned(verdicts, req'[r]), FilesEarned(verdicts)'
  PROVE  EarnedInv'
BY DEF EarnedInv, ActorsEarned, OnlyReq

LEMMA BlankEarned ==
  ASSUME NEW t \in Runs, Blank(t), run'[t].phase # "qa_write"
  PROVE  RunEarned(verdicts', t, run'[t])
BY EmptyEarned DEF RunEarned, Blank

LEMMA ForgetsEarned ==
  ASSUME NEW r \in Requests, Forgets(r), req'[r].phase # "book"
  PROVE  ReqEarned(verdicts, req'[r])
<1>1. req'[r].mem.book = << >>
  BY DEF Forgets, Memory
<1> QED
  BY <1>1, EmptyEarned DEF ReqEarned, Forgets

LEMMA SameFilesEarned ==
  ASSUME FilesEarned(verdicts), Grows(verdicts, verdicts'), UNCHANGED files
  PROVE  FilesEarned(verdicts)'
BY EarnedGrows DEF FilesEarned, files

LEMMA RunEarns ==
  ASSUME EarnedInv, NEW t \in Runs, RunAction(t)
  PROVE  EarnedInv'
<1> DEFINE v == verdicts
<1>1. /\ TypeOK /\ FilesEarned(v) /\ RunEarned(v, t, run[t]) /\ MemoryEarned(v, run[t].mem)
      /\ IsRun(run[t]) /\ IsMemory(run[t].mem)
  BY DEF EarnedInv, ActorsEarned, RunEarned, TypeOK, ActorsTyped, IsRun
<1>2. TypeOK'
  BY <1>1, RunTypes
<1>3. verdicts' = verdicts => Grows(verdicts, verdicts')
  BY DEF Grows
<1>4. CASE Classify(t)
  <2>1. /\ OnlyRun(t) /\ SameMind(t) /\ run'[t].phase = "decide"
        /\ UNCHANGED <<pending, rules, verdicts>>
    BY <1>1, <1>4, ClassifyDoes
  <2>2. LogEarned(v, log'["clf"]) /\ \A u \in Runs : log'["dec"][u].qa # "passed"
    <3>1. CASE log' = log
      BY <1>1, <3>1 DEF FilesEarned
    <3>2. CASE \E label \in Labels : log' = [log EXCEPT !["clf"][t] = Logged(label, TRUE)]
      BY <1>1, <3>2 DEF FilesEarned, LogEarned, Logged, TypeOK, LogTyped, Kinds
    <3> QED
      BY <1>1, <1>4, <3>1, <3>2, ClassifyDoes
  <2>3. FilesEarned(verdicts)'
    BY <1>1, <2>1, <2>2 DEF FilesEarned
  <2>4. RunEarned(verdicts', t, run'[t])
    BY <1>1, <2>1 DEF RunEarned, SameMind
  <2> QED
    BY <1>2, <1>3, <2>1, <2>3, <2>4, RunStaysEarned
<1>5. CASE Decide(t)
  <2>1. /\ OnlyRun(t) /\ SameMind(t) /\ run'[t].phase = "qa"
        /\ UNCHANGED <<pending, rules, verdicts>>
    BY <1>1, <1>5, DecideDoes
  <2>2. LogEarned(v, log'["clf"]) /\ \A u \in Runs : log'["dec"][u].qa # "passed"
    <3>1. CASE log' = log
      BY <1>1, <3>1 DEF FilesEarned
    <3>2. CASE \E llm \in BOOLEAN, label \in Labels \ {None} :
                 log' = [log EXCEPT !["dec"][t] = Logged(label, llm)]
      BY <1>1, <3>2 DEF FilesEarned, LogEarned, Logged, TypeOK, LogTyped, Kinds
    <3> QED
      BY <1>1, <1>5, <3>1, <3>2, DecideDoes
  <2>3. FilesEarned(verdicts)'
    BY <1>1, <2>1, <2>2 DEF FilesEarned
  <2>4. RunEarned(verdicts', t, run'[t])
    BY <1>1, <2>1 DEF RunEarned, SameMind
  <2> QED
    BY <1>2, <1>3, <2>1, <2>3, <2>4, RunStaysEarned
<1>6. CASE Whitelisted(t)
  <2>1. OnlyRun(t) /\ Blank(t) /\ run'[t].phase = "queue" /\ UNCHANGED <<files, verdicts>>
    BY <1>1, <1>6, WhitelistedDoes
  <2> QED
    BY <1>1, <1>2, <1>3, <2>1, RunStaysEarned, BlankEarned, SameFilesEarned
<1>7. CASE Verify(t)
  <2>1. PICK w \in {"passed", "failed"} :
         /\ verdicts' = [verdicts EXCEPT ![t] = @ \cup {w}]
         /\ OnlyRun(t) /\ UNCHANGED files
         /\ \/ Blank(t) /\ run'[t].phase \in {"qa", "queue"}
            \/ /\ run'[t].phase = "qa_write" /\ run'[t].verdict = w
               /\ run'[t].mem.log = log["clf"]
               /\ run'[t].mem.queue = run[t].mem.queue /\ run'[t].mem.cands = run[t].mem.cands
    BY <1>1, <1>7, VerifyDoes
  <2>2. Grows(verdicts, verdicts') /\ w \in verdicts'[t]
    BY <1>1, <2>1 DEF Grows, TypeOK
  <2>3. FilesEarned(verdicts)'
    BY <1>1, <2>1, <2>2, SameFilesEarned
  <2>4. RunEarned(verdicts', t, run'[t])
    <3>1. CASE Blank(t) /\ run'[t].phase \in {"qa", "queue"}
      BY <3>1, BlankEarned
    <3>2. CASE ~(Blank(t) /\ run'[t].phase \in {"qa", "queue"})
      <4>1. MemoryEarned(verdicts', run[t].mem)
        BY <1>1, <2>2, EarnedGrows
      <4>2. LogEarned(verdicts', log["clf"])
        BY <1>1, <2>2, EarnedGrows DEF FilesEarned
      <4>3. MemoryEarned(verdicts', run'[t].mem)
        BY <2>1, <3>2, <4>1, <4>2 DEF MemoryEarned
      <4> QED
        BY <2>1, <2>2, <3>2, <4>3 DEF RunEarned
    <3> QED
      BY <3>1, <3>2
  <2> QED
    BY <1>2, <2>1, <2>2, <2>3, <2>4, RunStaysEarned
<1>8. CASE WriteVerdict(t)
  <2>1. /\ OnlyRun(t) /\ Blank(t) /\ run'[t].phase \in {"qa", "queue"}
        /\ run[t].phase = "qa_write"
        /\ log' = [log EXCEPT !["clf"] = [run[t].mem.log EXCEPT ![t].qa = run[t].verdict]]
        /\ UNCHANGED <<pending, rules, verdicts>>
    BY <1>1, <1>8, WriteVerdictDoes
  <2>2. LogEarned(v, run[t].mem.log) /\ run[t].mem.log \in [Runs -> LogEntry]
    BY <1>1 DEF MemoryEarned, IsMemory
  <2>3. LogEarned(v, log'["clf"])
    <3>1. log'["clf"] = [run[t].mem.log EXCEPT ![t].qa = run[t].verdict]
      BY <1>1, <2>1 DEF TypeOK, LogTyped, Kinds
    <3>2. log'["clf"][t].qa = run[t].verdict
      BY <2>2, <3>1 DEF LogEntry
    <3>3. \A u \in Runs \ {t} : log'["clf"][u] = run[t].mem.log[u]
      BY <2>2, <3>1
    <3>4. run[t].verdict = "passed" => "passed" \in v[t]
      BY <1>1, <2>1 DEF RunEarned
    <3> QED
      BY <2>2, <3>2, <3>3, <3>4 DEF LogEarned
  <2>4. \A u \in Runs : log'["dec"][u].qa # "passed"
    BY <1>1, <2>1 DEF FilesEarned, TypeOK, LogTyped, Kinds
  <2>5. FilesEarned(verdicts)'
    BY <1>1, <2>1, <2>3, <2>4 DEF FilesEarned
  <2> QED
    BY <1>2, <1>3, <2>1, <2>5, RunStaysEarned, BlankEarned
<1>9. CASE QueueRead(t)
  <2>1. OnlyRun(t) /\ UNCHANGED <<files, verdicts>>
    BY <1>1, <1>9, QueueReadDoes
  <2>2. RunEarned(verdicts', t, run'[t])
    <3>1. CASE NextKind(t)
      BY <1>1, <2>1, <3>1, NextKindDoes, BlankEarned DEF OnlyRun
    <3>2. CASE /\ run'[t].phase = "pending"
               /\ run'[t].mem.cands = Candidates(run[t].kind, log[run[t].kind])
               /\ run'[t].mem.queue = run[t].mem.queue /\ run'[t].mem.log = run[t].mem.log
      <4>1. \A c \in run'[t].mem.cands : Earned(v, c.key, c.count)
        BY <1>1, <3>2, CandidatesEarned DEF IsRun
      <4> QED
        BY <1>1, <2>1, <3>2, <4>1 DEF RunEarned, MemoryEarned
    <3> QED
      BY <1>1, <1>9, <3>1, <3>2, QueueReadDoes
  <2> QED
    BY <1>1, <1>2, <1>3, <2>1, <2>2, RunStaysEarned, SameFilesEarned
<1>10. CASE QueuePending(t)
  <2>1. OnlyRun(t) /\ UNCHANGED <<files, verdicts>>
    BY <1>1, <1>10, QueuePendingDoes
  <2>2. RunEarned(verdicts', t, run'[t])
    <3>1. CASE NextKind(t)
      BY <1>1, <2>1, <3>1, NextKindDoes, BlankEarned DEF OnlyRun
    <3>2. ASSUME /\ run'[t].phase = "truncate"
                 /\ run'[t].mem.cands = run[t].mem.cands /\ run'[t].mem.log = run[t].mem.log,
                 NEW new \in NewCandidates(run[t].mem.cands, run[t].mem.book,
                                           pending[run[t].kind]),
                 run'[t].mem.queue =
                   [pending EXCEPT ![run[t].kind] = Enqueued(pending[run[t].kind], new)]
          PROVE  RunEarned(verdicts', t, run'[t])
      <4>1. /\ IsSeq(new) /\ \A c \in Elements(new) : c \in run[t].mem.cands
        BY <1>1, NewFacts DEF IsMemory
      <4>2. \A c \in Elements(new) : Earned(v, c.key, c.count)
        BY <1>1, <4>1 DEF MemoryEarned
      <4>3. ASSUME NEW k \in Kinds, NEW e \in Elements(run'[t].mem.queue[k])
            PROVE  Earned(v, e.key, e.count)
        <5>1. CASE e \in Elements(pending[k])
          BY <1>1, <5>1 DEF FilesEarned, QueueEarned
        <5>2. CASE e \notin Elements(pending[k])
          <6>1. k = run[t].kind /\ e \in Elements(Enqueued(pending[k], new))
            BY <1>1, <3>2, <4>3, <5>2 DEF TypeOK, IsQueue
          <6>2. \E c \in Elements(new) : e.key = c.key /\ e.count = c.count
            BY <1>1, <4>1, <5>2, <6>1, EnqueuedFacts DEF TypeOK, IsQueue
          <6> QED
            BY <4>2, <6>2
        <5> QED
          BY <5>1, <5>2
      <4>4. QueueEarned(v, run'[t].mem.queue)
        BY <4>3 DEF QueueEarned
      <4> QED
        BY <1>1, <2>1, <3>2, <4>4 DEF RunEarned, MemoryEarned
    <3> QED
      BY <1>1, <1>10, <3>1, <3>2, QueuePendingDoes
  <2> QED
    BY <1>1, <1>2, <1>3, <2>1, <2>2, RunStaysEarned, SameFilesEarned
<1>11. CASE QueueTruncate(t)
  <2>1. /\ OnlyRun(t) /\ SameMind(t) /\ run'[t].phase = "dump" /\ pending' = EmptyQueue
        /\ UNCHANGED <<log, rules, verdicts>>
    BY <1>1, <1>11, QueueTruncateDoes
  <2>2. FilesEarned(verdicts)' /\ RunEarned(verdicts', t, run'[t])
    BY <1>1, <2>1, EmptyEarned DEF FilesEarned, RunEarned, SameMind
  <2> QED
    BY <1>2, <1>3, <2>1, <2>2, RunStaysEarned
<1>12. CASE QueueDump(t)
  <2>1. /\ OnlyRun(t) /\ NextKind(t) /\ pending' = run[t].mem.queue
        /\ UNCHANGED <<log, rules, verdicts, req>>
    BY <1>1, <1>12, QueueDumpDoes DEF OnlyRun
  <2>2. Blank(t) /\ run'[t].phase \in {"queue", "end"}
    BY <1>1, <2>1, NextKindDoes
  <2>3. FilesEarned(verdicts)'
    BY <1>1, <2>1 DEF FilesEarned, MemoryEarned
  <2> QED
    BY <1>2, <1>3, <2>1, <2>2, <2>3, RunStaysEarned, BlankEarned
<1> QED
  BY <1>4, <1>5, <1>6, <1>7, <1>8, <1>9, <1>10, <1>11, <1>12 DEF RunAction

\* A rules file after a write of a book.
LEMMA WrittenEarned ==
  ASSUME EarnedInv, NEW k \in Books, NEW b, k \in Kinds => BookEarned(verdicts, b),
         \E f \in {TornFile, File(b)} : rules' = [rules EXCEPT ![k] = f],
         UNCHANGED <<log, pending, verdicts>>
  PROVE  FilesEarned(verdicts)'
<1>1. PICK f \in {TornFile, File(b)} : rules' = [rules EXCEPT ![k] = f]
  OBVIOUS
<1>2. k \in Kinds => BookEarned(verdicts, f.data)
  BY EmptyEarned DEF TornFile, File
<1>3. \A j \in Kinds : BookEarned(verdicts, rules'[j].data)
  BY <1>1, <1>2 DEF EarnedInv, FilesEarned, TypeOK, RulesTyped, Books
<1> QED
  BY <1>3 DEF EarnedInv, FilesEarned

LEMMA ReqEarns ==
  ASSUME EarnedInv, NEW r \in Requests,
         ReqAction(r) \/ Click(r) \/ Submit(r) \/ StartPromote(r)
  PROVE  EarnedInv'
<1> DEFINE v == verdicts
<1>1. /\ TypeOK /\ FilesEarned(v) /\ ReqEarned(v, req[r]) /\ MemoryEarned(v, req[r].mem)
      /\ IsReq(req[r]) /\ IsMemory(req[r].mem) /\ req[r].kind \in Books
  BY DEF EarnedInv, ActorsEarned, ReqEarned, TypeOK, ActorsTyped, IsReq
<1>2. TypeOK'
  BY <1>1, ReqTypes
<1>3. UNCHANGED files /\ UNCHANGED verdicts => FilesEarned(verdicts)'
  BY <1>1 DEF FilesEarned, files
<1>4. CASE FindPending(r)
  <2>1. OnlyReq(r) /\ SameJob(r) /\ UNCHANGED files /\ UNCHANGED verdicts
    BY <1>1, <1>4, FindPendingDoes
  <2>2. ReqEarned(v, req'[r])
    <3>1. CASE Forgets(r) /\ req'[r].phase = "over"
      BY <3>1, ForgetsEarned
    <3>2. CASE ~(Forgets(r) /\ req'[r].phase = "over")
      <4> DEFINE k == req[r].kind
      <4>1. PICK i \in DOMAIN pending[k] :
              /\ req'[r].got = pending[k][i]
              /\ req'[r].mem.queue = [pending EXCEPT ![k] = Pop(pending[k], i)]
              /\ req'[r].mem.cands = req[r].mem.cands /\ req'[r].mem.book = req[r].mem.book
              /\ req'[r].mem.log = req[r].mem.log
        BY <1>1, <1>4, <3>2, FindPendingDoes
      <4>2. k \in Kinds /\ IsSeq(pending[k]) /\ DOMAIN pending = Kinds
        BY <1>1, <1>4, FindPendingDoes DEF TypeOK, IsQueue
      <4>3. \A e \in Elements(Pop(pending[k], i)) : e \in Elements(pending[k])
        BY <4>2, PopFacts
      <4>4. QueueEarned(v, req'[r].mem.queue)
        BY <1>1, <4>1, <4>2, <4>3 DEF FilesEarned, QueueEarned
      <4>5. pending[k][i] \in Elements(pending[k])
        BY DEF Elements
      <4>6. Earned(v, req'[r].got.key, req'[r].got.count)
        BY <1>1, <4>1, <4>2, <4>5 DEF FilesEarned, QueueEarned
      <4> QED
        BY <1>1, <2>1, <4>1, <4>4, <4>6 DEF ReqEarned, MemoryEarned, SameJob
    <3> QED
      BY <3>1, <3>2
  <2> QED
    BY <1>2, <1>3, <2>1, <2>2, ReqStaysEarned
<1>5. CASE StartPromote(r)
  <2>1. /\ OnlyReq(r) /\ IsReq(req'[r]) /\ req'[r].phase = "ask"
        /\ UNCHANGED files /\ UNCHANGED verdicts
        /\ \A c \in req'[r].mem.cands : c \in Candidates("clf", log["clf"])
        /\ req'[r].mem.book = rules["clf"].data
        /\ req'[r].mem.queue = req[r].mem.queue /\ req'[r].mem.log = req[r].mem.log
    BY <1>1, <1>5, StartPromoteDoes
  <2>2. \A c \in req'[r].mem.cands : Earned(v, c.key, c.count)
    BY <1>1, <2>1, CandidatesEarned DEF Kinds
  <2>3. BookEarned(v, req'[r].mem.book)
    BY <1>1, <2>1 DEF FilesEarned, Kinds
  <2>4. ReqEarned(v, req'[r])
    BY <1>1, <2>1, <2>2, <2>3 DEF ReqEarned, MemoryEarned
  <2> QED
    BY <1>2, <1>3, <2>1, <2>4, ReqStaysEarned
<1>6. CASE Ask(r)
  <2>1. /\ OnlyReq(r) /\ SameJob(r) /\ req[r].op = "promote"
        /\ UNCHANGED files /\ UNCHANGED verdicts
    BY <1>1, <1>6, AskDoes
  <2>2. req[r].kind = "clf" /\ BookEarned(v, req[r].mem.book)
    BY <1>1, <2>1 DEF ReqEarned, IsReq, Kinds
  <2>3. ReqEarned(v, req'[r])
    <3>1. CASE Forgets(r) /\ req'[r].phase = "over"
      BY <3>1, ForgetsEarned
    <3>2. CASE ~(Forgets(r) /\ req'[r].phase = "over")
      <4> DEFINE b == req[r].mem.book
      <4>1. PICK c \in req[r].mem.cands :
               /\ req'[r].mem.cands = req[r].mem.cands \ {c}
               /\ \/ req'[r].phase = "ask" /\ req'[r].mem.book = b
                  \/ /\ req'[r].phase = "book_truncate"
                     /\ req'[r].mem.book =
                          Append(b, Rule(NextRuleId(b), c.key, "promote", c.count))
               /\ req'[r].mem.queue = req[r].mem.queue /\ req'[r].mem.log = req[r].mem.log
        BY <1>1, <1>6, <3>2, AskDoes
      <4>2. Earned(v, c.key, c.count)
        BY <1>1 DEF MemoryEarned
      <4>3. BookEarned(v, req'[r].mem.book)
        <5> DEFINE x == Rule(NextRuleId(b), c.key, "promote", c.count)
        <5>1. x.key = c.key /\ x.count = c.count
          BY DEF Rule
        <5>2. IsSeq(b)
          BY <1>1 DEF IsMemory, IsBook
        <5> HIDE DEF x
        <5>3. Elements(Append(b, x)) = Elements(b) \cup {x}
          BY <5>2, AppendFacts
        <5>4. BookEarned(v, Append(b, x))
          BY <2>2, <4>2, <5>1, <5>3 DEF BookEarned
        <5> QED
          BY <2>2, <4>1, <5>4 DEF x
      <4>4. req'[r].phase # "book"
        BY <4>1
      <4> QED
        BY <1>1, <4>1, <4>3, <4>4 DEF ReqEarned, MemoryEarned
    <3> QED
      BY <3>1, <3>2
  <2> QED
    BY <1>2, <1>3, <2>1, <2>3, ReqStaysEarned
<1>7. CASE ReadBook(r)
  <2>1. /\ OnlyReq(r) /\ SameWish(r) /\ req[r].phase = "book"
        /\ req[r].op \in {"approve", "create", "toggle", "update", "delete"}
        /\ UNCHANGED files /\ UNCHANGED verdicts
    BY <1>1, <1>7, ReadBookDoes
  <2>2. ReqEarned(v, req'[r])
    <3>1. CASE Forgets(r) /\ req'[r].phase = "over"
      BY <3>1, ForgetsEarned
    <3>2. CASE ~(Forgets(r) /\ req'[r].phase = "over")
      <4> DEFINE k == req[r].kind
                 b == rules[k].data
      <4>1. /\ req[r].op \in {"toggle", "delete", "update"}
                 => FirstWithId(b, req[r].entry.id) # 0
            /\ req'[r].phase = "book_truncate" /\ req'[r].mem.book = Edited(r, b)
            /\ req'[r].mem.queue = req[r].mem.queue /\ req'[r].mem.cands = req[r].mem.cands
            /\ req'[r].mem.log = req[r].mem.log
        BY <1>1, <1>7, <3>2, ReadBookDoes
      <4>2. IsBook(b)
        BY <1>1 DEF TypeOK, RulesTyped, IsFile
      <4>3. \A x \in Elements(Edited(r, b)) :
              \/ x \in Elements(b)
              \/ /\ req[r].op = "approve" /\ x.by = "approve"
                 /\ x.key = req[r].got.key /\ x.count = req[r].got.count
              \/ req[r].op = "create" /\ x.by = "create"
              \/ /\ req[r].op = "toggle"
                 /\ \E y \in Elements(b) : x.key = y.key /\ x.by = y.by /\ x.count = y.count
              \/ req[r].op = "update"
        BY <2>1, <4>1, <4>2, EditedFacts
      <4>4. ASSUME k \in Kinds PROVE BookEarned(v, Edited(r, b))
        <5>1. BookEarned(v, b) /\ req[r].op # "update"
          BY <1>1, <4>4 DEF FilesEarned, IsReq, Kinds
        <5>2. req[r].op = "approve" => Earned(v, req[r].got.key, req[r].got.count)
          BY <1>1, <2>1 DEF ReqEarned
        <5> HIDE DEF b
        <5> QED
          BY <4>3, <5>1, <5>2 DEF BookEarned
      <4> QED
        BY <1>1, <2>1, <4>1, <4>4 DEF ReqEarned, MemoryEarned, SameWish, SameJob
    <3> QED
      BY <3>1, <3>2
  <2> QED
    BY <1>2, <1>3, <2>1, <2>2, ReqStaysEarned
<1>8. CASE BookTruncate(r) \/ BookDump(r)
  <2>1. /\ OnlyReq(r) /\ SameWish(r) /\ req'[r].mem = req[r].mem /\ req'[r].phase # "book"
        /\ \E f \in {TornFile, File(req[r].mem.book)} :
             rules' = [rules EXCEPT ![req[r].kind] = f]
        /\ UNCHANGED <<log, pending, verdicts>>
    BY <1>1, <1>8, BookTruncateDoes, BookDumpDoes
  <2>2. FilesEarned(verdicts)'
    BY <1>1, <2>1, WrittenEarned DEF ReqEarned
  <2>3. ReqEarned(v, req'[r])
    BY <1>1, <2>1 DEF ReqEarned, SameWish, SameJob
  <2> QED
    BY <1>2, <2>1, <2>2, <2>3, ReqStaysEarned
<1>9. CASE PendingTruncate(r)
  <2>1. /\ OnlyReq(r) /\ SameWish(r) /\ req'[r].mem = req[r].mem /\ req'[r].phase = "dump"
        /\ pending' = EmptyQueue /\ UNCHANGED <<log, rules, verdicts>>
    BY <1>1, <1>9, PendingTruncateDoes
  <2>2. FilesEarned(verdicts)' /\ ReqEarned(v, req'[r])
    BY <1>1, <2>1, EmptyEarned DEF FilesEarned, ReqEarned, SameWish, SameJob
  <2> QED
    BY <1>2, <2>1, <2>2, ReqStaysEarned
<1>10. CASE PendingDump(r)
  <2>1. /\ OnlyReq(r) /\ Forgets(r) /\ req'[r].phase \in {"reload", "over"}
        /\ pending' = req[r].mem.queue /\ UNCHANGED <<log, rules, verdicts>>
    BY <1>1, <1>10, PendingDumpDoes
  <2>2. FilesEarned(verdicts)'
    BY <1>1, <2>1 DEF FilesEarned, MemoryEarned
  <2> QED
    BY <1>2, <2>1, <2>2, ReqStaysEarned, ForgetsEarned
<1>11. CASE ReloadRead(r) \/ ReloadInstall(r)
  <2>1. /\ OnlyReq(r) /\ SameWish(r)
        /\ req'[r].mem = Memory \/ SameCopies(r)
        /\ req'[r].phase # "book" /\ UNCHANGED files /\ UNCHANGED verdicts
    BY <1>1, <1>11, ReloadReadDoes, ReloadInstallDoes
  <2>2. CASE req'[r].mem = Memory
    BY <1>2, <1>3, <2>1, <2>2, ReqStaysEarned, ForgetsEarned DEF Forgets
  <2>3. CASE SameCopies(r)
    <3>1. ReqEarned(v, req'[r])
      BY <1>1, <2>1, <2>3 DEF ReqEarned, MemoryEarned, SameCopies, SameWish, SameJob
    <3> QED
      BY <1>2, <1>3, <2>1, <3>1, ReqStaysEarned
  <2> QED
    BY <2>1, <2>2, <2>3
<1>12. CASE Click(r) \/ Submit(r)
  <2>1. /\ OnlyReq(r) /\ req'[r].mem = req[r].mem /\ req[r].kind = "clf"
        /\ \/ req'[r].phase = "queue"
           \/ req'[r].phase = "book" /\ req'[r].op # "approve"
        /\ UNCHANGED files /\ UNCHANGED verdicts
    BY <1>1, <1>12, ChooseDoes
  <2>2. BookEarned(v, req'[r].mem.book)
    BY <1>1, <2>1 DEF ReqEarned, Kinds
  <2>3. ReqEarned(v, req'[r])
    BY <1>1, <2>1, <2>2 DEF ReqEarned
  <2> QED
    BY <1>2, <1>3, <2>1, <2>3, ReqStaysEarned
<1> QED
  BY <1>4, <1>5, <1>6, <1>7, <1>8, <1>9, <1>10, <1>11, <1>12 DEF ReqAction

LEMMA StepEarns ==
  ASSUME EarnedInv, [Next]_vars
  PROVE  EarnedInv'
<1>1. TypeOK /\ TypeOK'
  BY StepType DEF EarnedInv
<1>2. UNCHANGED <<files, verdicts>> => FilesEarned(verdicts)'
  BY DEF EarnedInv, FilesEarned, files
<1>3. CASE (\E p \in Processes : Loads(p)) \/ UNCHANGED vars
  <2>1. UNCHANGED <<files, verdicts, run, req>>
    BY <1>1, <1>3, LoadsDoes DEF vars, files
  <2> QED
    BY <1>1, <1>2, <2>1 DEF EarnedInv, ActorsEarned
<1>4. CASE WriteFails
  <2>1. UNCHANGED <<files, verdicts>> /\ Grows(verdicts, verdicts')
    BY <1>1, <1>4, WriteFailsDoes DEF Grows
  <2>2. CASE \E t \in Runs : OnlyRun(t) /\ Blank(t) /\ run'[t].phase \in {"queue", "end"}
    BY <1>1, <1>2, <2>1, <2>2, RunStaysEarned, BlankEarned
  <2>3. CASE \E r \in Requests : OnlyReq(r) /\ Forgets(r) /\ req'[r].phase = "over"
    BY <1>1, <1>2, <2>1, <2>3, ReqStaysEarned, ForgetsEarned
  <2> QED
    BY <1>1, <1>4, <2>2, <2>3, WriteFailsDoes
<1>5. CASE \E p \in Processes : Restart(p)
  <2>1. /\ UNCHANGED <<files, verdicts>>
        /\ \A t \in Runs : run'[t] = run[t] \/ (run'[t].phase = "dead" /\ Blank(t))
        /\ \A r \in Requests : req'[r] = req[r] \/ (req'[r].phase = "lost" /\ Forgets(r))
    <3>1. PICK p \in Processes : Restart(p)
      BY <1>5
    <3>2. UNCHANGED <<files, verdicts>>
      BY <1>1, <3>1, RestartDoes
    <3>3. \A t \in Runs : run'[t] = run[t] \/ (run'[t].phase = "dead" /\ Blank(t))
      BY <1>1, <3>1, RestartDoes
    <3>4. \A r \in Requests : req'[r] = req[r] \/ (req'[r].phase = "lost" /\ Forgets(r))
      BY <1>1, <3>1, RestartDoes
    <3> QED
      BY <3>2, <3>3, <3>4
  <2>2. \A t \in Runs : RunEarned(verdicts', t, run'[t])
    BY <2>1, BlankEarned DEF EarnedInv, ActorsEarned
  <2>3. \A r \in Requests : ReqEarned(verdicts', req'[r])
    BY <2>1, ForgetsEarned DEF EarnedInv, ActorsEarned
  <2> QED
    BY <1>1, <1>2, <2>1, <2>2, <2>3 DEF EarnedInv, ActorsEarned
<1> QED
  BY <1>3, <1>4, <1>5, RunEarns, ReqEarns, Steps

LEMMA EarnedImplies == EarnedInv => RestsOnVerified
<1> SUFFICES ASSUME EarnedInv, NEW k \in Kinds,
                    NEW e \in Entries(k) \cup {x \in Book(k) : x.by # "create"}
             PROVE  \/ e.key \in ShippedKeys
                    \/ e.count >= MinCount /\ e.count <= Cardinality(PassedRuns(e.key))
  BY DEF RestsOnVerified
<1>1. Earned(verdicts, e.key, e.count)
  BY DEF EarnedInv, FilesEarned, QueueEarned, BookEarned, Entries, Book
<1>2. PassedRuns(e.key) = PassedIn(verdicts, e.key)
  BY DEF PassedRuns, PassedIn
<1> QED
  BY <1>1, <1>2 DEF Earned

(***************************************************************************)
(* What waits or was promoted rests on as many verified runs as it says.   *)
(***************************************************************************)
THEOREM VerifiedOnly == Spec => []RestsOnVerified
BY InitEarned, StepEarns, EarnedImplies, PTL DEF Spec

-----------------------------------------------------------------------------
(***************************************************************************)
(* A file is torn while the request that truncated it fills it.            *)
(***************************************************************************)
Filling(m, k) == m.phase = "book_dump" /\ m.kind = k

TornWhileFilled ==
  \A k \in Books : rules[k].torn => \E r \in Requests : Filling(req[r], k)
TornInv == TypeOK /\ (~torn => TornWhileFilled)

LEMMA InitTorn == Init => TornInv
<1> SUFFICES ASSUME Init PROVE TornWhileFilled
  BY InitType DEF TornInv
<1> SUFFICES ASSUME NEW k \in Books PROVE ~rules[k].torn
  BY DEF TornWhileFilled
<1>1. rules[k] \in [torn : {FALSE}, data : Seq(Ruling)]
  BY PromotionAssumption DEF Init
<1> QED
  BY <1>1

LEMMA RunTorn ==
  ASSUME TornInv, NEW t \in Runs, RunAction(t)
  PROVE  TornInv' /\ UNCHANGED <<rules, req, torn, engines>>
<1>1. TypeOK'
  BY RunTypes DEF TornInv
<1>2. UNCHANGED <<rules, req, torn, engines>>
  BY DEF RunAction, Classify, Decide, Whitelisted, Verify, WriteVerdict, Queue, QueueRead,
         QueuePending, QueueTruncate, QueueDump, files
<1> QED
  BY <1>1, <1>2 DEF TornInv, TornWhileFilled

LEMMA ReqTorn ==
  ASSUME TornInv, NEW r \in Requests,
         ReqAction(r) \/ Click(r) \/ Submit(r) \/ StartPromote(r)
  PROVE  TornInv' /\ OnlyReq(r) /\ torn' = torn
<1>1. TypeOK /\ TypeOK' /\ IsReq(req[r]) /\ req[r].kind \in Books
  BY ReqTypes DEF TornInv, TypeOK, ActorsTyped, IsReq
<1>2. OnlyReq(r) /\ torn' = torn
  BY <1>1, FindPendingDoes, ReadBookDoes, AskDoes, BookTruncateDoes, BookDumpDoes,
     PendingTruncateDoes, PendingDumpDoes, ReloadReadDoes, ReloadInstallDoes, ChooseDoes,
     StartPromoteDoes
  DEF ReqAction
<1>3. \A q \in Requests \ {r} : req'[q] = req[q]
  BY <1>2 DEF OnlyReq
<1> SUFFICES ASSUME ~torn, NEW k \in Books, rules'[k].torn
             PROVE  \E q \in Requests : Filling(req'[q], k)
  BY <1>1, <1>2 DEF TornInv, TornWhileFilled
<1>4. CASE BookTruncate(r)
  <2>1. /\ SameWish(r) /\ req[r].phase = "book_truncate" /\ req'[r].phase = "book_dump"
        /\ rules' = [rules EXCEPT ![req[r].kind] = TornFile]
    BY <1>1, <1>4, BookTruncateDoes
  <2>2. Filling(req'[r], req[r].kind) /\ \A j \in Books : ~Filling(req[r], j)
    BY <2>1 DEF SameWish, SameJob, Filling
  <2>3. CASE k = req[r].kind
    BY <2>2, <2>3
  <2>4. CASE k # req[r].kind
    BY <1>1, <1>3, <2>1, <2>2, <2>4 DEF TornInv, TornWhileFilled, TypeOK, RulesTyped
  <2> QED
    BY <2>3, <2>4
<1>5. CASE BookDump(r)
  <2>1. rules' = [rules EXCEPT ![req[r].kind] = File(req[r].mem.book)]
    BY <1>1, <1>5, BookDumpDoes
  <2>2. k # req[r].kind
    BY <1>1, <2>1 DEF TypeOK, RulesTyped, File
  <2>3. rules[k].torn
    BY <1>1, <2>1, <2>2 DEF TypeOK, RulesTyped
  <2>4. PICK q \in Requests : Filling(req[q], k)
    BY <2>3 DEF TornInv, TornWhileFilled
  <2>5. q # r
    BY <2>2, <2>4 DEF Filling
  <2> QED
    BY <1>3, <2>4, <2>5
<1>6. CASE ~BookTruncate(r) /\ ~BookDump(r)
  <2>1. rules' = rules /\ req[r].phase # "book_dump"
    BY <1>1, <1>6, FindPendingDoes, ReadBookDoes, AskDoes, PendingTruncateDoes,
       PendingDumpDoes, ReloadReadDoes, ReloadInstallDoes, ChooseDoes, StartPromoteDoes
    DEF ReqAction, files
  <2>2. PICK q \in Requests : Filling(req[q], k)
    BY <2>1 DEF TornInv, TornWhileFilled
  <2> QED
    BY <1>3, <2>1, <2>2 DEF Filling
<1> QED
  BY <1>4, <1>5, <1>6

LEMMA StepTorn ==
  ASSUME TornInv, [Next]_vars
  PROVE  TornInv'
<1>1. TypeOK /\ TypeOK'
  BY StepType DEF TornInv
<1>2. CASE \E p \in Processes : Loads(p)
  BY <1>1, <1>2, LoadsDoes DEF TornInv, TornWhileFilled, files
<1>3. CASE WriteFails
  BY <1>1, <1>3, WriteFailsDoes DEF TornInv
<1>4. ASSUME NEW p \in Processes, Restart(p) PROVE TornInv'
  <2>1. /\ rules' = rules
        /\ torn' = \/ torn
                   \/ \E t \in Runs : run'[t] # run[t] /\ run[t].phase \in Writing
                   \/ \E r \in Requests : req'[r] # req[r] /\ req[r].phase \in Writing
    BY <1>1, <1>4, RestartDoes DEF files
  <2>2. ~torn' => ~torn /\ \A r \in Requests : req[r].phase \in Writing => req'[r] = req[r]
    BY <2>1
  <2>3. ~torn' => \A r \in Requests, k \in Books : Filling(req[r], k) => Filling(req'[r], k)
    BY <2>2 DEF Filling, Writing
  <2> QED
    BY <1>1, <2>1, <2>2, <2>3 DEF TornInv, TornWhileFilled
<1>5. CASE UNCHANGED vars
  BY <1>1, <1>5 DEF TornInv, TornWhileFilled, vars, files
<1> QED
  BY <1>2, <1>3, <1>4, <1>5, RunTorn, ReqTorn, Steps

-----------------------------------------------------------------------------
(***************************************************************************)
(* The engine of the API has the rules of each file, but for those of whom *)
(* a request that has written rules has yet to tell it, and for the        *)
(* command line.  What a reload, or the first load, has read and not yet   *)
(* installed is what the file holds: unless it was overtaken.              *)
(***************************************************************************)
Late(m) == \/ m.phase \in {"book_dump"} \cup Reloading
           \/ m.op = "approve" /\ m.phase \in {"truncate", "dump"}
ToTell(m, k) == m.op = "promote" \/ (Late(m) /\ k \notin ReadBefore[m.mem.file])

InHandRight ==
  /\ \A r \in Requests : req[r].phase = "install" =>
                           req[r].mem.keys = EnabledKeys(req[r].mem.file)
  /\ \A k \in ReadBefore[loading["api"].file] : loading["api"].built[k] = EnabledKeys(k)
StaleWhileLate ==
  engine["api"].loaded =>
    \A k \in Books : engine["api"][k] = EnabledKeys(k) \/ \E r \in Requests : ToTell(req[r], k)
FollowInv == TornInv /\ (~torn /\ ~overtaken => InHandRight /\ StaleWhileLate)

LEMMA NextFacts ==
  /\ ReadBefore["clf"] = {} /\ ReadBefore["end"] = Books
  /\ \A k \in Books : /\ NextFile[k] \in Books \cup {"end"} /\ k \notin ReadBefore[k]
                      /\ ReadBefore[NextFile[k]] = ReadBefore[k] \cup {k}
                      /\ ReadBefore[k] \subseteq Books
BY DEF NextFile, ReadBefore, Books, Kinds

LEMMA InitFollows == Init => FollowInv
<1> SUFFICES ASSUME Init PROVE InHandRight /\ StaleWhileLate
  BY InitTorn DEF FollowInv
<1>1. ~engine["api"].loaded /\ loading["api"].file = "clf"
  BY UnbuiltTyped DEF Init, Unloaded, Processes
<1>2. \A r \in Requests : req[r].phase # "install"
  BY DEF Init, InitReq
<1> QED
  BY <1>1, <1>2, NextFacts DEF InHandRight, StaleWhileLate

\* The rules and the engines of the API stay, nobody reads, and whoever was late is so still.
LEMMA StillFollows ==
  ASSUME FollowInv, TornInv', rules' = rules,
         engine'["api"] = engine["api"], loading'["api"] = loading["api"],
         ~torn' /\ ~overtaken' => ~torn /\ ~overtaken,
         \A r \in Requests :
           /\ req'[r].phase = "install" => req'[r] = req[r]
           /\ ~torn' => \A k \in Books : ToTell(req[r], k) => ToTell(req'[r], k)
  PROVE  FollowInv'
<1> SUFFICES ASSUME ~torn', ~overtaken' PROVE InHandRight' /\ StaleWhileLate'
  BY DEF FollowInv
<1>1. \A k : EnabledKeys(k)' = EnabledKeys(k)
  BY DEF EnabledKeys
<1>2. InHandRight'
  BY <1>1 DEF FollowInv, InHandRight
<1>3. StaleWhileLate'
  BY <1>1 DEF FollowInv, StaleWhileLate
<1> QED
  BY <1>2, <1>3

\* Who writes a file that somebody has in hand overtakes him.
LEMMA InHandStays ==
  ASSUME FollowInv, ~torn, NEW r \in Requests, Noted(r), ~overtaken', loading' = loading,
         TypeOK, \A q \in Requests : req'[q].phase = "install" => req'[q] = req[q]
  PROVE  InHandRight'
<1>1. ~overtaken /\ \A k \in Books : InHand(k) => rules'[k] = rules[k]
  BY DEF Noted
<1>2. \A k \in Books : InHand(k) => EnabledKeys(k)' = EnabledKeys(k)
  BY <1>1 DEF EnabledKeys
<1>3. InHandRight
  BY <1>1 DEF FollowInv
<1>4. ASSUME NEW q \in Requests, req'[q].phase = "install"
      PROVE  (req[q].mem.keys = EnabledKeys(req[q].mem.file))'
  <2>1. req'[q] = req[q] /\ req[q].phase = "install"
    BY <1>4
  <2>2. req[q].mem.file \in Books
    BY DEF TypeOK, ActorsTyped, IsReq, IsMemory
  <2>3. PICK k \in Books : k = req[q].mem.file
    BY <2>2
  <2>4. InHand(k)
    BY <2>1, <2>3 DEF InHand
  <2>5. req[q].mem.keys = EnabledKeys(k)
    BY <1>3, <2>1, <2>3 DEF InHandRight
  <2> QED
    BY <1>1, <2>1, <2>3, <2>4, <2>5 DEF EnabledKeys
<1>5. ASSUME NEW k \in ReadBefore[loading["api"].file]
      PROVE  loading["api"].built[k] = EnabledKeys(k)'
  <2>1. k \in Books
    BY NextFacts DEF TypeOK, EnginesTyped, Processes
  <2> QED
    BY <1>2, <1>3, <2>1 DEF InHand, InHandRight
<1> QED
  BY <1>4, <1>5 DEF InHandRight

LEMMA ReqFollows ==
  ASSUME FollowInv, NEW r \in Requests,
         \/ ReqAction(r) /\ Noted(r)
         \/ (Click(r) \/ Submit(r) \/ StartPromote(r)) /\ UNCHANGED history
  PROVE  FollowInv'
<1>1. /\ TypeOK /\ TypeOK' /\ IsReq(req[r]) /\ IsReq(req'[r])
      /\ TornInv' /\ OnlyReq(r) /\ torn' = torn
  BY ReqTorn DEF FollowInv, TornInv, TypeOK, ActorsTyped
<1>2. \A q \in Requests \ {r} : req'[q] = req[q]
  BY <1>1 DEF OnlyReq
<1>3. ~overtaken' => ~overtaken
  BY DEF Noted, history
<1>4. CASE \/ Click(r) \/ Submit(r) \/ StartPromote(r) \/ FindPending(r) \/ ReadBook(r) \/ Ask(r)
           \/ PendingTruncate(r) \/ PendingDump(r)
  <2>1. UNCHANGED <<rules, engines>>
    BY <1>1, <1>4, ChooseDoes, StartPromoteDoes, FindPendingDoes, ReadBookDoes, AskDoes,
       PendingTruncateDoes, PendingDumpDoes DEF files
  <2>2. /\ req[r].phase \in {"idle", "queue", "book", "ask", "truncate", "dump"}
        /\ req'[r].phase # "install"
    BY <1>1, <1>4, ChooseDoes, StartPromoteDoes, FindPendingDoes, ReadBookDoes, AskDoes,
       PendingTruncateDoes, PendingDumpDoes
  <2>3. req[r].op = "promote" => req'[r].op = "promote"
    BY <1>1, <1>4, ChooseDoes, StartPromoteDoes, FindPendingDoes, ReadBookDoes, AskDoes,
       PendingTruncateDoes, PendingDumpDoes DEF SameWish, SameJob, None
  <2>4. ASSUME Late(req[r]) PROVE Late(req'[r]) /\ req'[r].mem.file = "clf"
    <3>1. req[r].op = "approve" /\ req[r].phase \in {"truncate", "dump"}
      BY <2>2, <2>4 DEF Late, Reloading
    <3>2. PendingTruncate(r) \/ PendingDump(r)
      BY <1>1, <1>4, <3>1, ChooseDoes, StartPromoteDoes, FindPendingDoes, ReadBookDoes, AskDoes
    <3>3. req'[r].op = "approve" /\ req'[r].phase \in {"dump", "reload"}
      BY <1>1, <3>1, <3>2, PendingTruncateDoes, PendingDumpDoes DEF SameWish, SameJob
    <3>4. req[r].mem.file = "clf"
      BY <1>1, <3>1 DEF IsReq, Reloading
    <3>5. req'[r].mem = req[r].mem \/ req'[r].mem = Memory
      BY <1>1, <3>2, PendingTruncateDoes, PendingDumpDoes DEF Forgets
    <3> QED
      BY <3>3, <3>4, <3>5 DEF Late, Reloading, Memory
  <2>5. \A k \in Books : ToTell(req[r], k) => ToTell(req'[r], k)
    BY <2>3, <2>4, NextFacts DEF ToTell
  <2> QED
    BY <1>1, <1>2, <1>3, <2>1, <2>2, <2>5, StillFollows DEF engines
<1>5. CASE BookTruncate(r) \/ BookDump(r)
  <2>1. /\ SameWish(r) /\ req[r].phase \in {"book_truncate", "book_dump"}
        /\ req'[r].mem = req[r].mem /\ UNCHANGED engines
        /\ \/ req'[r].phase = "book_dump"
           \/ req'[r].phase = CASE req[r].op = "approve" -> "truncate"
                                [] req[r].op = "promote" -> "ask"
                                [] OTHER                 -> "reload"
    BY <1>1, <1>5, BookTruncateDoes, BookDumpDoes
  <2>2. req[r].mem.file = "clf" /\ req'[r].phase # "install" /\ Noted(r)
    BY <1>1, <1>5, <2>1, ChooseDoes, StartPromoteDoes DEF IsReq, Reloading
  <2>3. req'[r].op = "promote" \/ Late(req'[r])
    BY <2>1 DEF SameWish, SameJob, Late, Reloading
  <2>4. \A k \in Books : ToTell(req'[r], k)
    BY <2>1, <2>2, <2>3, NextFacts DEF ToTell
  <2>5. StaleWhileLate'
    BY <2>4 DEF StaleWhileLate
  <2>6. ~torn /\ ~overtaken' => InHandRight'
    BY <1>1, <1>2, <2>1, <2>2, InHandStays DEF engines
  <2> QED
    BY <1>1, <2>5, <2>6 DEF FollowInv
<1>6. CASE ReloadRead(r)
  <2> DEFINE k == req[r].mem.file
  <2>1. /\ req[r].phase = "reload" /\ req[r].op # "promote" /\ SameWish(r) /\ k \in Books
        /\ rules' = rules /\ UNCHANGED engines
        /\ \/ /\ Forgets(r) /\ req'[r].phase = "over"
              /\ ~engine["api"].loaded \/ rules[k].torn
           \/ /\ req'[r].phase = "install" /\ req'[r].mem.file = k
              /\ req'[r].mem.keys = EnabledKeys(k)
    BY <1>1, <1>6, ReloadReadDoes DEF files
  <2>2. \A j : EnabledKeys(j)' = EnabledKeys(j)
    BY <2>1 DEF EnabledKeys
  <2> SUFFICES ASSUME ~torn, ~overtaken PROVE InHandRight' /\ StaleWhileLate'
    BY <1>1, <1>3 DEF FollowInv
  <2>3. InHandRight /\ StaleWhileLate /\ TornWhileFilled
    BY DEF FollowInv, TornInv
  <2>4. InHandRight'
    BY <1>2, <2>1, <2>2, <2>3 DEF InHandRight, engines
  <2>5. ASSUME engine["api"].loaded, NEW j \in Books, engine["api"][j] # EnabledKeys(j)
        PROVE  \E q \in Requests : ToTell(req'[q], j)
    <3>1. PICK q \in Requests : ToTell(req[q], j)
      BY <2>3, <2>5 DEF StaleWhileLate
    <3>2. CASE q # r
      BY <1>2, <3>1, <3>2
    <3>3. CASE q = r /\ req'[r].phase = "install"
      BY <2>1, <3>1, <3>3 DEF ToTell, Late, Reloading, SameWish, SameJob
    <3>4. CASE req'[r].phase # "install"
      <4>1. PICK f \in Requests : Filling(req[f], k)
        BY <2>1, <2>3, <2>5, <3>4 DEF TornWhileFilled
      <4>2. f # r /\ req'[f] = req[f] /\ req[f].phase = "book_dump"
        BY <1>2, <2>1, <4>1 DEF Filling
      <4>3. req[f].mem.file = "clf"
        BY <1>1, <4>2 DEF TypeOK, ActorsTyped, IsReq, Reloading
      <4> QED
        BY <4>2, <4>3, NextFacts DEF ToTell, Late
    <3> QED
      BY <3>2, <3>3, <3>4
  <2>6. StaleWhileLate'
    BY <2>1, <2>2, <2>5 DEF StaleWhileLate, engines
  <2> QED
    BY <2>4, <2>6
<1>7. CASE ReloadInstall(r)
  <2> DEFINE k == req[r].mem.file
  <2>1. /\ req[r].phase = "install" /\ req[r].op # "promote" /\ SameWish(r) /\ k \in Books
        /\ rules' = rules /\ UNCHANGED loading
        /\ engine' = [engine EXCEPT !["api"][k] = req[r].mem.keys]
        /\ \/ req'[r].phase = "over" /\ NextFile[k] = "end"
           \/ req'[r].phase = "reload" /\ req'[r].mem.file = NextFile[k]
    BY <1>1, <1>7, ReloadInstallDoes DEF files
  <2>2. \A j : EnabledKeys(j)' = EnabledKeys(j)
    BY <2>1 DEF EnabledKeys
  <2> SUFFICES ASSUME ~torn, ~overtaken PROVE InHandRight' /\ StaleWhileLate'
    BY <1>1, <1>3 DEF FollowInv
  <2>3. InHandRight /\ StaleWhileLate
    BY DEF FollowInv
  <2>4. InHandRight'
    BY <1>2, <2>1, <2>2, <2>3 DEF InHandRight
  <2>5. /\ engine'["api"].loaded = engine["api"].loaded
        /\ engine["api"].loaded => /\ engine'["api"][k] = req[r].mem.keys
                                   /\ \A j \in Books \ {k} : engine'["api"][j] = engine["api"][j]
    <3>1. engine'["api"] = [engine["api"] EXCEPT ![k] = req[r].mem.keys]
      BY <1>1, <2>1 DEF TypeOK, EnginesTyped, Processes
    <3>2. k # "loaded" /\ \A j \in Books : j # "loaded"
      BY <2>1 DEF Books, Kinds
    <3>3. "loaded" \in DOMAIN engine["api"] /\ (engine["api"].loaded => Books \subseteq DOMAIN engine["api"])
      BY <1>1 DEF TypeOK, EnginesTyped, Processes, IsEngine, Unloaded
    <3> DEFINE e == engine["api"]
               v == req[r].mem.keys
    <3>4. \A j \in DOMAIN e : [e EXCEPT ![k] = v][j] = IF j = k THEN v ELSE e[j]
      OBVIOUS
    <3>5. engine'["api"] = [e EXCEPT ![k] = v]
      BY <3>1
    <3> HIDE DEF e, v, k
    <3>6. engine["api"] = e /\ req[r].mem.keys = v
      BY DEF e, v
    <3>7. k \in Books
      BY <2>1
    <3> QED
      BY <3>2, <3>3, <3>4, <3>5, <3>6, <3>7
  <2>6. ASSUME engine["api"].loaded, NEW j \in Books, engine'["api"][j] # EnabledKeys(j)
        PROVE  \E q \in Requests : ToTell(req'[q], j)
    <3>1. j # k
      BY <2>1, <2>3, <2>5, <2>6 DEF InHandRight
    <3>2. PICK q \in Requests : ToTell(req[q], j)
      BY <2>3, <2>5, <2>6, <3>1 DEF StaleWhileLate
    <3>3. CASE q # r
      BY <1>2, <3>2, <3>3
    <3>4. CASE q = r
      <4>1. j \notin ReadBefore[k]
        BY <2>1, <3>2, <3>4 DEF ToTell
      <4>2. j \notin ReadBefore[NextFile[k]] /\ NextFile[k] # "end"
        BY <2>1, <3>1, <4>1, NextFacts
      <4> QED
        BY <2>1, <4>2 DEF ToTell, Late, Reloading
    <3> QED
      BY <3>3, <3>4
  <2>7. StaleWhileLate'
    BY <2>2, <2>5, <2>6 DEF StaleWhileLate
  <2> QED
    BY <2>4, <2>7
<1> QED
  BY <1>4, <1>5, <1>6, <1>7 DEF ReqAction

\* What a first load has read of the files is right, and so is the engine it ends with.
LEMMA LoadsFollow ==
  ASSUME FollowInv, NEW p \in Processes, Loads(p)
  PROVE  FollowInv'
<1>1. /\ TypeOK /\ TypeOK' /\ UNCHANGED <<rules, req, torn, overtaken>>
  BY LoadsDoes, StepType DEF FollowInv, TornInv, files, history, Next, Loads
<1>2. TornInv'
  BY <1>1 DEF FollowInv, TornInv, TornWhileFilled
<1>3. \A j : EnabledKeys(j)' = EnabledKeys(j)
  BY <1>1 DEF EnabledKeys
<1>4. CASE p # "api"
  <2>1. engine'["api"] = engine["api"] /\ loading'["api"] = loading["api"]
    BY <1>1, <1>4 DEF Loads, LoadFile, PublishEngine, TypeOK, EnginesTyped, Processes
  <2> QED
    BY <1>1, <1>2, <2>1, StillFollows
<1>5. CASE p = "api"
  <2> SUFFICES ASSUME ~torn, ~overtaken PROVE InHandRight' /\ StaleWhileLate'
    BY <1>1, <1>2 DEF FollowInv
  <2>1. InHandRight /\ StaleWhileLate
    BY DEF FollowInv
  <2>2. CASE LoadFile(p)
    <3> DEFINE k == loading["api"].file
               old == loading["api"].built
               new == [old EXCEPT ![k] = EnabledKeys(k)]
               loaded == IF rules[k].torn THEN Unbuilt ELSE [file |-> NextFile[k], built |-> new]
    <3>1. /\ k \in Books /\ IsEngine(old) /\ engine' = engine
          /\ loading' = [loading EXCEPT !["api"] = loaded]
      BY <1>1, <1>5, <2>2 DEF LoadFile, TypeOK, EnginesTyped
    <3>2. loading'["api"] = loaded
      <4> HIDE DEF loaded
      <4> QED
        BY <1>1, <3>1 DEF TypeOK, EnginesTyped, Processes
    <3>3. new[k] = EnabledKeys(k) /\ \A j \in Books \ {k} : new[j] = old[j]
      BY <3>1 DEF IsEngine
    <3>4. \A j \in ReadBefore[loaded.file] : loaded.built[j] = EnabledKeys(j)
      <4>1. CASE rules[k].torn
        BY <4>1, UnbuiltTyped, NextFacts
      <4>2. CASE ~rules[k].torn
        <5>1. loaded.file = NextFile[k] /\ loaded.built = new
          BY <4>2
        <5>2. \A j \in ReadBefore[k] : j \in Books \ {k} /\ old[j] = EnabledKeys(j)
          BY <2>1, <3>1, NextFacts DEF InHandRight
        <5> HIDE DEF new, loaded
        <5> QED
          BY <3>1, <3>3, <5>1, <5>2, NextFacts
      <4> QED
        BY <4>1, <4>2
    <3> HIDE DEF loaded
    <3>5. InHandRight'
      BY <1>1, <1>3, <2>1, <3>2, <3>4 DEF InHandRight
    <3>6. StaleWhileLate'
      BY <1>1, <1>3, <2>1, <3>1 DEF StaleWhileLate
    <3> QED
      BY <3>5, <3>6
  <2>3. CASE PublishEngine(p)
    <3>1. /\ engine'["api"] = loading["api"].built /\ loading["api"].file = "end"
          /\ loading'["api"] = Unbuilt
      BY <1>1, <1>5, <2>3 DEF PublishEngine, TypeOK, EnginesTyped
    <3>2. \A j \in Books : engine'["api"][j] = EnabledKeys(j)'
      BY <1>3, <2>1, <3>1, NextFacts DEF InHandRight
    <3>3. InHandRight'
      BY <1>1, <1>3, <2>1, <3>1, UnbuiltTyped, NextFacts DEF InHandRight
    <3> QED
      BY <3>2, <3>3 DEF StaleWhileLate
  <2> QED
    BY <2>2, <2>3 DEF Loads
<1> QED
  BY <1>4, <1>5

LEMMA RestartFollows ==
  ASSUME FollowInv, NEW p \in Processes, Restart(p), TornInv'
  PROVE  FollowInv'
<1>1. /\ TypeOK
      /\ \A r \in Requests : \/ req'[r] = req[r]
                             \/ req'[r].phase = "lost" /\ p = "api"
      /\ engine' = [engine EXCEPT ![p] = Unloaded]
      /\ loading' = [loading EXCEPT ![p] = Unbuilt]
      /\ rules' = rules /\ overtaken' = overtaken /\ (~torn' => ~torn)
  BY RestartDoes DEF FollowInv, TornInv, files, history
<1>2. CASE p # "api"
  <2>1. /\ engine'["api"] = engine["api"] /\ loading'["api"] = loading["api"]
        /\ \A r \in Requests : req'[r] = req[r]
    BY <1>1, <1>2 DEF TypeOK, EnginesTyped, Processes
  <2> QED
    BY <1>1, <2>1, StillFollows
<1>3. CASE p = "api"
  <2> SUFFICES ASSUME ~torn, ~overtaken PROVE InHandRight' /\ StaleWhileLate'
    BY <1>1 DEF FollowInv
  <2>1. engine'["api"] = Unloaded /\ loading'["api"] = Unbuilt
    BY <1>1, <1>3 DEF TypeOK, EnginesTyped
  <2>2. \A j : EnabledKeys(j)' = EnabledKeys(j)
    BY <1>1 DEF EnabledKeys
  <2>3. InHandRight
    BY DEF FollowInv
  <2>4. InHandRight'
    BY <1>1, <2>1, <2>2, <2>3, UnbuiltTyped, NextFacts DEF InHandRight
  <2> QED
    BY <2>1, <2>4 DEF StaleWhileLate, Unloaded
<1> QED
  BY <1>2, <1>3

LEMMA StepFollows ==
  ASSUME FollowInv, [Next]_vars
  PROVE  FollowInv'
<1>1. TypeOK /\ TornInv /\ TornInv'
  BY StepTorn DEF FollowInv, TornInv
<1>2. ASSUME NEW t \in Runs, RunAction(t), Noted(t) PROVE FollowInv'
  <2>1. UNCHANGED <<rules, req, torn, engines>>
    BY <1>1, <1>2, RunTorn
  <2>2. ~overtaken' => ~overtaken
    BY <1>2 DEF Noted
  <2> QED
    BY <1>1, <2>1, <2>2, StillFollows DEF engines
<1>3. CASE WriteFails
  BY <1>1, <1>3, WriteFailsDoes DEF FollowInv
<1>4. CASE UNCHANGED vars
  BY <1>1, <1>4, StillFollows DEF vars, files, engines, history
<1> QED
  BY <1>1, <1>2, <1>3, <1>4, ReqFollows, LoadsFollow, RestartFollows, Steps

LEMMA FollowImplies == FollowInv => EngineFollowsRules
<1> SUFFICES ASSUME FollowInv, ApiAtRest, ~overtaken, engine["api"].loaded PROVE UpToDate
  BY DEF EngineFollowsRules
<1>1. StaleWhileLate
  BY DEF FollowInv, ApiAtRest
<1>2. \A r \in Requests, k \in Books : ~ToTell(req[r], k)
  BY DEF ApiAtRest, InApi, ToTell, Late, Reloading
<1> QED
  BY <1>1, <1>2 DEF StaleWhileLate, UpToDate

(***************************************************************************)
(* The engine of the API has the enabled rules of the files whenever its   *)
(* requests are over: every request that writes rules reads all files      *)
(* again, and one that meets a torn file leaves it to the request that     *)
(* tore it.  The reads of a reload, those of other reloads, of the first   *)
(* load and the writes interleave as they like; excepted is only the       *)
(* write of a file that a slower reload or load has read and not installed.*)
(***************************************************************************)
THEOREM EngineFollows == Spec => []EngineFollowsRules
BY InitFollows, StepFollows, FollowImplies, PTL DEF Spec

-----------------------------------------------------------------------------
(***************************************************************************)
(* A pattern is approved once.  In files of which nobody is writing one,   *)
(* no pattern waits twice, has two approved rules, or waits and has one;   *)
(* who is writing has in memory files of which that is true.               *)
(***************************************************************************)
WaitOnce(q)       == \A i, j \in DOMAIN q : q[i].key = q[j].key => i = j
RuleOnce(b)       == \A i, j \in DOMAIN b :
                       b[i].by = "approve" /\ b[j].by = "approve" /\ b[i].key = b[j].key => i = j
RuleOrWait(q, b)  == \A i \in DOMAIN b, j \in DOMAIN q : b[i].by = "approve" => b[i].key # q[j].key
Apart(q, b)       == WaitOnce(q) /\ RuleOnce(b) /\ RuleOrWait(q, b)
FilesApart(q, fs) == \A k \in Kinds : Apart(q[k], fs[k].data)

\* A list without one of its elements.
LEMMA PopApart ==
  ASSUME NEW q, IsSeq(q), NEW b, Apart(q, b), NEW i \in DOMAIN q
  PROVE  Apart(Pop(q, i), b) /\ \A j \in DOMAIN Pop(q, i) : Pop(q, i)[j].key # q[i].key
<1> DEFINE p == Pop(q, i)
<1>1. /\ Len(q) \in Nat /\ DOMAIN q = 1 .. Len(q) /\ i \in 1 .. Len(q)
      /\ IsSeq(p) /\ Len(p) = Len(q) - 1
      /\ \A j \in 1 .. Len(q) - 1 : p[j] = IF j < i THEN q[j] ELSE q[j + 1]
  BY SeqFacts, PopFacts
<1>2. DOMAIN p = 1 .. Len(q) - 1
  BY <1>1, SeqFacts
<1> DEFINE from(j) == IF j < i THEN j ELSE j + 1
<1>3. \A j \in 1 .. Len(q) - 1 : p[j] = q[from(j)] /\ from(j) \in 1 .. Len(q) /\ from(j) # i
  BY <1>1
<1>4. \A j, l \in 1 .. Len(q) - 1 : from(j) = from(l) => j = l
  BY <1>1
<1> HIDE DEF p, from
<1>5. WaitOnce(p) /\ RuleOrWait(p, b)
  BY <1>1, <1>2, <1>3, <1>4 DEF Apart, WaitOnce, RuleOrWait
<1>6. \A j \in DOMAIN p : p[j].key # q[i].key
  BY <1>1, <1>2, <1>3 DEF Apart, WaitOnce
<1> QED
  BY <1>5, <1>6 DEF p, Apart

LEMMA PopBookApart ==
  ASSUME NEW q, NEW b, IsSeq(b), Apart(q, b), NEW i \in DOMAIN b
  PROVE  Apart(q, Pop(b, i))
<1> DEFINE p == Pop(b, i)
<1>1. /\ Len(b) \in Nat /\ DOMAIN b = 1 .. Len(b) /\ i \in 1 .. Len(b)
      /\ IsSeq(p) /\ Len(p) = Len(b) - 1
      /\ \A j \in 1 .. Len(b) - 1 : p[j] = IF j < i THEN b[j] ELSE b[j + 1]
  BY SeqFacts, PopFacts
<1>2. DOMAIN p = 1 .. Len(b) - 1
  BY <1>1, SeqFacts
<1> DEFINE from(j) == IF j < i THEN j ELSE j + 1
<1>3. \A j \in 1 .. Len(b) - 1 : p[j] = b[from(j)] /\ from(j) \in 1 .. Len(b)
  BY <1>1
<1>4. \A j, l \in 1 .. Len(b) - 1 : from(j) = from(l) => j = l
  BY <1>1
<1> HIDE DEF p, from
<1>5. ASSUME NEW j \in DOMAIN p, NEW l \in DOMAIN p,
             p[j].by = "approve", p[l].by = "approve", p[j].key = p[l].key
      PROVE  j = l
  <2>1. from(j) = from(l)
    BY <1>1, <1>2, <1>3, <1>5 DEF Apart, RuleOnce
  <2> QED
    BY <1>2, <1>4, <2>1
<1>6. RuleOrWait(q, p)
  BY <1>1, <1>2, <1>3 DEF Apart, RuleOrWait
<1> QED
  BY <1>5, <1>6 DEF p, Apart, RuleOnce

\* A new rule: approved, of a pattern that neither waits nor rules, or not.
LEMMA AppendApart ==
  ASSUME NEW q, NEW b, IsSeq(b), Apart(q, b), NEW x,
         x.by = "approve" => /\ \A i \in DOMAIN b : b[i].by = "approve" => b[i].key # x.key
                             /\ \A j \in DOMAIN q : q[j].key # x.key
  PROVE  Apart(q, Append(b, x))
<1> DEFINE a == Append(b, x)
<1>1. /\ Len(b) \in Nat /\ DOMAIN b = 1 .. Len(b) /\ IsSeq(a) /\ Len(a) = Len(b) + 1
      /\ \A i \in 1 .. Len(b) : a[i] = b[i]
      /\ a[Len(b) + 1] = x
  BY SeqFacts, AppendFacts
<1>2. DOMAIN a = 1 .. Len(b) + 1
  BY <1>1, SeqFacts
<1> HIDE DEF a
<1>3. \A i \in DOMAIN a : \/ i \in DOMAIN b /\ a[i] = b[i]
                          \/ i = Len(b) + 1 /\ a[i] = x
  BY <1>1, <1>2
<1>4. ASSUME NEW i \in DOMAIN a, NEW j \in DOMAIN a,
             a[i].by = "approve", a[j].by = "approve", a[i].key = a[j].key
      PROVE  i = j
  <2>1. CASE i \in DOMAIN b /\ a[i] = b[i] /\ j \in DOMAIN b /\ a[j] = b[j]
    BY <1>4, <2>1 DEF Apart, RuleOnce
  <2>2. CASE i = Len(b) + 1 /\ a[i] = x /\ j = Len(b) + 1 /\ a[j] = x
    BY <2>2
  <2>3. CASE i \in DOMAIN b /\ a[i] = b[i] /\ j = Len(b) + 1 /\ a[j] = x
    BY <1>4, <2>3
  <2>4. CASE i = Len(b) + 1 /\ a[i] = x /\ j \in DOMAIN b /\ a[j] = b[j]
    BY <1>4, <2>4
  <2> QED
    BY <1>3, <2>1, <2>2, <2>3, <2>4
<1>5. RuleOnce(a)
  BY <1>4 DEF RuleOnce
<1>6. RuleOrWait(q, a)
  BY <1>3 DEF Apart, RuleOrWait
<1> QED
  BY <1>5, <1>6 DEF a, Apart

LEMMA EditApart ==
  ASSUME NEW q, NEW b, IsSeq(b), Apart(q, b), NEW i \in DOMAIN b, NEW x,
         x.key = b[i].key, x.by = b[i].by
  PROVE  Apart(q, [b EXCEPT ![i] = x])
<1> DEFINE e == [b EXCEPT ![i] = x]
<1>1. DOMAIN e = DOMAIN b /\ \A j \in DOMAIN b : e[j].key = b[j].key /\ e[j].by = b[j].by
  OBVIOUS
<1> HIDE DEF e
<1>2. RuleOnce(e) /\ RuleOrWait(q, e)
  BY <1>1 DEF Apart, RuleOnce, RuleOrWait
<1> QED
  BY <1>2 DEF e, Apart

\* What the promoter queues neither waits nor rules yet.
LEMMA EnqueuedApart ==
  ASSUME NEW q, IsSeq(q), NEW b, Apart(q, b), NEW cands, IsFiniteSet(cands),
         NEW new \in NewCandidates(cands, b, q)
  PROVE  Apart(Enqueued(q, new), b)
<1> DEFINE e == Enqueued(q, new)
<1>1. /\ IsSeq(new)
      /\ \A c \in Elements(new) : ~Covered(c.key, b) /\ ~AlreadyPending(c.key, q)
      /\ \A i, j \in 1 .. Len(new) : new[i].key = new[j].key => i = j
  BY NewFacts
<1>2. /\ Len(q) \in Nat /\ DOMAIN q = 1 .. Len(q) /\ Len(new) \in Nat
      /\ DOMAIN new = 1 .. Len(new)
  BY <1>1, SeqFacts
<1>3. /\ IsSeq(e) /\ Len(e) = Len(q) + Len(new)
      /\ \A i \in 1 .. Len(q) : e[i] = q[i]
      /\ \A i \in 1 .. Len(new) : e[Len(q) + i] = PendingEntry(Len(q) + i, new[i])
  BY <1>1, EnqueuedFacts
<1>4. DOMAIN e = 1 .. Len(q) + Len(new)
  BY <1>3, SeqFacts
<1> HIDE DEF e
<1>5. \A i \in 1 .. Len(new) : e[Len(q) + i].key = new[i].key
  <2>1. \A n, c : PendingEntry(n, c).key = c.key
    BY DEF PendingEntry
  <2> QED
    BY <1>3, <2>1
<1>6. \A i \in 1 .. Len(new) :
        /\ \A j \in DOMAIN q : q[j].key # new[i].key
        /\ \A j \in DOMAIN b : b[j].key # new[i].key
  BY <1>1, <1>2 DEF Covered, AlreadyPending, Elements
<1>7. \A i \in DOMAIN e : \/ i \in DOMAIN q /\ e[i] = q[i]
                          \/ \E l \in 1 .. Len(new) : i = Len(q) + l /\ e[i].key = new[l].key
  <2> SUFFICES ASSUME NEW i \in DOMAIN e, i \notin DOMAIN q
               PROVE  \E l \in 1 .. Len(new) : i = Len(q) + l /\ e[i].key = new[l].key
    BY <1>2, <1>3
  <2>1. i - Len(q) \in 1 .. Len(new) /\ i = Len(q) + (i - Len(q))
    BY <1>2, <1>4
  <2> QED
    BY <1>5, <2>1
<1>8. ASSUME NEW i \in DOMAIN e, NEW j \in DOMAIN e, e[i].key = e[j].key
      PROVE  i = j
  <2> DEFINE Old(n)    == n \in DOMAIN q /\ e[n] = q[n]
             New(n, l) == n = Len(q) + l /\ e[n].key = new[l].key
  <2>1. CASE Old(i) /\ Old(j)
    BY <1>8, <2>1 DEF Apart, WaitOnce
  <2>2. CASE Old(i) /\ \E l \in 1 .. Len(new) : New(j, l)
    BY <1>6, <1>8, <2>2
  <2>3. CASE Old(j) /\ \E l \in 1 .. Len(new) : New(i, l)
    BY <1>6, <1>8, <2>3
  <2>4. ASSUME NEW l \in 1 .. Len(new), New(i, l), NEW m \in 1 .. Len(new), New(j, m)
        PROVE  i = j
    BY <1>1, <1>8, <2>4
  <2> QED
    BY <1>7, <2>1, <2>2, <2>3, <2>4
<1>9. RuleOrWait(e, b)
  BY <1>6, <1>7 DEF Apart, RuleOrWait
<1> QED
  BY <1>8, <1>9 DEF e, Apart, WaitOnce

\* The edits that approve nothing.
LEMMA EditedApart ==
  ASSUME NEW r \in Requests, NEW book, IsBook(book), NEW q, Apart(q, book),
         req[r].op \in {"create", "toggle", "delete"},
         req[r].op \in {"toggle", "delete"} => FirstWithId(book, req[r].entry.id) # 0
  PROVE  Apart(q, Edited(r, book))
<1> DEFINE i == FirstWithId(book, req[r].entry.id)
<1>1. IsSeq(book)
  BY DEF IsBook
<1>2. CASE req[r].op = "create"
  <2> DEFINE x == Rule(NextRuleId(book), req[r].entry.key, "create", 0)
  <2>1. Edited(r, book) = Append(book, x) /\ x.by = "create"
    BY <1>2 DEF Edited, Rule
  <2> HIDE DEF x
  <2> QED
    BY <1>1, <2>1, AppendApart
<1>3. ASSUME req[r].op \in {"toggle", "delete"} PROVE i \in DOMAIN book /\ book[i] \in Elements(book)
  BY <1>1, <1>3, FirstFacts, SeqFacts
<1>4. CASE req[r].op = "toggle"
  <2> DEFINE x == [book[i] EXCEPT !.enabled = ~@]
  <2>1. Edited(r, book) = [book EXCEPT ![i] = x]
    BY <1>4 DEF Edited
  <2>2. DOMAIN book[i] = {"id", "key", "enabled", "by", "count"}
    BY <1>3, <1>4 DEF IsBook
  <2>3. x.key = book[i].key /\ x.by = book[i].by
    BY <2>2
  <2>4. i \in DOMAIN book
    BY <1>3, <1>4
  <2> HIDE DEF x, i
  <2>5. Apart(q, [book EXCEPT ![i] = x])
    BY <1>1, <2>3, <2>4, EditApart
  <2> QED
    BY <2>1, <2>5
<1>5. CASE req[r].op = "delete"
  <2>1. Edited(r, book) = Pop(book, i)
    BY <1>5 DEF Edited
  <2> QED
    BY <1>1, <1>3, <1>5, <2>1, PopBookApart
<1> QED
  BY <1>2, <1>4, <1>5

\* Who has read a file it will write: Holds, of a run and of a request.
RunHolds(m) == m.phase \in Writing \cup {"qa_write", "pending"}
ReqHolds(m) == m.phase \in Writing \cup {"ask"} \/ (m.phase = "book" /\ m.op = "approve")
NoneWrites  == /\ \A t \in Runs : run[t].phase \notin Writing
               /\ \A r \in Requests : req[r].phase \notin Writing

\* What a run, a request has in memory, if q waits and fs rules.
RunApart(m, fs) ==
  /\ m.phase = "pending" => m.mem.book = fs[m.kind].data
  /\ m.phase \in {"truncate", "dump"} => FilesApart(m.mem.queue, fs)
Waiting(m, q) == IF m.op = "approve" THEN m.mem.queue ELSE q
ReqApart(m, q, fs) ==
  /\ m.phase = "ask" => m.mem.book = fs["clf"].data
  /\ m.phase = "book" /\ m.op = "approve" =>
       \E i \in DOMAIN q[m.kind] :
         /\ m.got = q[m.kind][i]
         /\ m.mem.queue = [q EXCEPT ![m.kind] = Pop(q[m.kind], i)]
  /\ m.phase \in {"book_truncate", "book_dump"} =>
       \A k \in Kinds :
         Apart(Waiting(m, q)[k], IF k = m.kind THEN m.mem.book ELSE fs[k].data)
  /\ m.phase \in {"truncate", "dump"} => FilesApart(m.mem.queue, fs)

OnceInv ==
  /\ TypeOK
  /\ ~clash /\ ~torn =>
       /\ NoneWrites => FilesApart(pending, rules)
       /\ \A t \in Runs : RunApart(run[t], rules)
       /\ \A r \in Requests : ReqApart(req[r], pending, rules)

\* The shipped files: no pattern waits twice, or has two rules that were
\* approved, or waits and has one.
ShippedApart == \A q \in InitPending, fs \in InitRules : FilesApart(q, fs)

LEMMA InitOnce == ShippedApart => (Init => OnceInv)
<1> SUFFICES ASSUME ShippedApart, Init PROVE OnceInv
  OBVIOUS
<1>1. FilesApart(pending, rules)
  BY DEF Init, ShippedApart
<1>2. \A t \in Runs : run[t].phase \in {"idle", "end"}
  BY DEF Init, InitRun
<1>3. \A r \in Requests : req[r].phase \in {"idle", "over"}
  BY DEF Init, InitReq
<1> QED
  BY <1>1, <1>2, <1>3, InitType DEF OnceInv, RunApart, ReqApart

\* Who holds nothing remembers nothing.
LEMMA FreeHands ==
  /\ \A m, fs : ~RunHolds(m) => RunApart(m, fs)
  /\ \A m, q, fs : ~ReqHolds(m) => ReqApart(m, q, fs)
BY DEF RunHolds, ReqHolds, RunApart, ReqApart, Writing

\* An actor that moves without a clash is the only one that holds a copy.
LEMMA RunAlone ==
  ASSUME NEW t \in Runs, Noted(t), ~clash'
  PROVE  /\ ~clash /\ \A u \in Runs \ {t} : ~RunHolds(run[u])
         /\ \A r \in Requests : ~ReqHolds(req[r])
BY PromotionAssumption DEF Noted, Holds, RunHolds, ReqHolds

LEMMA ReqAlone ==
  ASSUME NEW r \in Requests, Noted(r), ~clash'
  PROVE  /\ ~clash /\ \A t \in Runs : ~RunHolds(run[t])
         /\ \A q \in Requests \ {r} : ~ReqHolds(req[q])
BY PromotionAssumption DEF Noted, Holds, RunHolds, ReqHolds

LEMMA RunStaysOnce ==
  ASSUME OnceInv, TypeOK', NEW t \in Runs, Noted(t), OnlyRun(t), torn' = torn,
         ~clash' /\ ~torn =>
           /\ RunApart(run'[t], rules')
           /\ run'[t].phase \notin Writing => FilesApart(pending', rules')
  PROVE  OnceInv'
<1> SUFFICES ASSUME ~clash', ~torn
             PROVE  /\ NoneWrites' => FilesApart(pending', rules')
                    /\ \A u \in Runs : RunApart(run'[u], rules')
                    /\ \A r \in Requests : ReqApart(req'[r], pending', rules')
  BY DEF OnceInv
<1>1. NoneWrites' => FilesApart(pending', rules')
  BY DEF NoneWrites
<1>2. \A u \in Runs : RunApart(run'[u], rules')
  BY RunAlone, FreeHands DEF OnlyRun
<1>3. \A r \in Requests : ReqApart(req'[r], pending', rules')
  BY RunAlone, FreeHands DEF OnlyRun
<1> QED
  BY <1>1, <1>2, <1>3

LEMMA ReqStaysOnce ==
  ASSUME OnceInv, TypeOK', NEW r \in Requests, Noted(r), OnlyReq(r), torn' = torn,
         ~clash' /\ ~torn =>
           /\ ReqApart(req'[r], pending', rules')
           /\ req'[r].phase \notin Writing => FilesApart(pending', rules')
  PROVE  OnceInv'
<1> SUFFICES ASSUME ~clash', ~torn
             PROVE  /\ NoneWrites' => FilesApart(pending', rules')
                    /\ \A u \in Runs : RunApart(run'[u], rules')
                    /\ \A q \in Requests : ReqApart(req'[q], pending', rules')
  BY DEF OnceInv
<1>1. NoneWrites' => FilesApart(pending', rules')
  BY DEF NoneWrites
<1>2. \A u \in Runs : RunApart(run'[u], rules')
  BY ReqAlone, FreeHands DEF OnlyReq
<1>3. \A q \in Requests : ReqApart(req'[q], pending', rules')
  BY ReqAlone, FreeHands DEF OnlyReq
<1> QED
  BY <1>1, <1>2, <1>3

LEMMA RunOnce ==
  ASSUME OnceInv, NEW t \in Runs, RunAction(t), Noted(t)
  PROVE  OnceInv'
<1>1. TypeOK /\ TypeOK' /\ IsRun(run[t]) /\ IsMemory(run[t].mem) /\ run[t].kind \in Kinds
  BY RunTypes DEF OnceInv, TypeOK, ActorsTyped, IsRun
<1>2. UNCHANGED <<rules, req, torn>>
  BY DEF RunAction, Classify, Decide, Whitelisted, Verify, WriteVerdict, Queue, QueueRead,
         QueuePending, QueueTruncate, QueueDump, files
<1>3. OnlyRun(t)
  BY <1>1, ClassifyDoes, DecideDoes, WhitelistedDoes, VerifyDoes, WriteVerdictDoes,
     QueueReadDoes, QueuePendingDoes, QueueTruncateDoes, QueueDumpDoes DEF RunAction
<1> SUFFICES ASSUME ~clash', ~torn
             PROVE  /\ RunApart(run'[t], rules')
                    /\ run'[t].phase \notin Writing => FilesApart(pending', rules')
  BY <1>1, <1>2, <1>3, RunStaysOnce
<1>4. RunApart(run[t], rules)
  BY RunAlone DEF OnceInv
<1>5. run[t].phase \notin Writing => FilesApart(pending, rules)
  <2>1. NoneWrites => FilesApart(pending, rules)
    BY RunAlone DEF OnceInv
  <2> QED
    BY <2>1, RunAlone DEF NoneWrites, RunHolds, ReqHolds
<1>6. CASE Classify(t) \/ Decide(t) \/ Whitelisted(t) \/ Verify(t) \/ WriteVerdict(t)
  <2>1. run[t].phase \in {"idle", "decide", "qa", "qa_write"} /\ pending' = pending
    BY <1>6 DEF Classify, Decide, Whitelisted, Verify, WriteVerdict, files
  <2>2. run'[t].phase \in {"decide", "qa", "qa_write", "queue"}
    BY <1>1, <1>6, ClassifyDoes, DecideDoes, WhitelistedDoes, VerifyDoes, WriteVerdictDoes
  <2> QED
    BY <1>2, <1>5, <2>1, <2>2 DEF RunApart, Writing
<1>7. CASE QueueRead(t)
  <2>1. run[t].phase = "queue" /\ pending' = pending
    BY <1>1, <1>7, QueueReadDoes DEF files
  <2>2. CASE NextKind(t)
    <3>1. run'[t].phase \in {"queue", "end"}
      BY <1>1, <1>2, <2>2, NextKindDoes
    <3> QED
      BY <1>2, <1>5, <2>1, <3>1 DEF RunApart, Writing
  <2>3. CASE /\ run'[t].phase = "pending" /\ run'[t].kind = run[t].kind
             /\ run'[t].mem.book = rules[run[t].kind].data
    BY <1>2, <1>5, <2>1, <2>3 DEF RunApart, Writing
  <2> QED
    BY <1>1, <1>7, <2>2, <2>3, QueueReadDoes
<1>8. CASE QueuePending(t)
  <2>1. run[t].phase = "pending" /\ pending' = pending
    BY <1>1, <1>8, QueuePendingDoes DEF files
  <2>2. FilesApart(pending, rules) /\ run[t].mem.book = rules[run[t].kind].data
    BY <1>4, <1>5, <2>1 DEF RunApart, Writing
  <2>3. CASE NextKind(t)
    <3>1. run'[t].phase \in {"queue", "end"}
      BY <1>1, <1>2, <2>3, NextKindDoes
    <3> QED
      BY <1>2, <2>1, <2>2, <3>1 DEF RunApart, Writing
  <2>4. CASE ~NextKind(t)
    <3> DEFINE k == run[t].kind
               m == run[t].mem
    <3>1. PICK new \in NewCandidates(m.cands, m.book, pending[k]) :
            /\ run'[t].phase = "truncate"
            /\ run'[t].mem.queue = [pending EXCEPT ![k] = Enqueued(pending[k], new)]
      BY <1>1, <1>8, <2>4, QueuePendingDoes
    <3>2. /\ IsSeq(pending[k]) /\ DOMAIN pending = Kinds /\ IsFiniteSet(m.cands)
          /\ Apart(pending[k], m.book)
      BY <1>1, <2>2 DEF TypeOK, IsQueue, IsMemory, FilesApart
    <3>3. Apart(Enqueued(pending[k], new), m.book)
      BY <3>1, <3>2, EnqueuedApart
    <3>4. FilesApart(run'[t].mem.queue, rules)
      BY <1>1, <2>2, <3>1, <3>2, <3>3 DEF FilesApart
    <3> QED
      BY <1>2, <3>1, <3>4 DEF RunApart, Writing
  <2> QED
    BY <2>3, <2>4
<1>9. CASE QueueTruncate(t)
  <2>1. /\ run[t].phase = "truncate" /\ run'[t].phase = "dump"
        /\ run'[t].mem = run[t].mem
    BY <1>1, <1>9, QueueTruncateDoes DEF SameMind
  <2> QED
    BY <1>2, <1>4, <2>1 DEF RunApart, Writing
<1>10. CASE QueueDump(t)
  <2>1. run[t].phase = "dump" /\ NextKind(t) /\ pending' = run[t].mem.queue
    BY <1>1, <1>10, QueueDumpDoes
  <2>2. run'[t].phase \in {"queue", "end"}
    BY <1>1, <1>2, <2>1, NextKindDoes
  <2> QED
    BY <1>2, <1>4, <2>1, <2>2 DEF RunApart
<1> QED
  BY <1>6, <1>7, <1>8, <1>9, <1>10 DEF RunAction

LEMMA ReqOnce ==
  ASSUME OnceInv, NEW r \in Requests, ReqAction(r), Noted(r)
  PROVE  OnceInv'
<1>1. /\ TypeOK /\ TypeOK' /\ IsReq(req[r]) /\ IsMemory(req[r].mem) /\ req[r].kind \in Books
      /\ IsFile(rules[req[r].kind]) /\ DOMAIN pending = Kinds
  BY ReqTypes DEF OnceInv, TypeOK, ActorsTyped, IsReq, RulesTyped, IsQueue
<1>2. OnlyReq(r) /\ torn' = torn
  BY <1>1, FindPendingDoes, ReadBookDoes, AskDoes, BookTruncateDoes, BookDumpDoes,
     PendingTruncateDoes, PendingDumpDoes, ReloadReadDoes, ReloadInstallDoes DEF ReqAction
<1> DEFINE k == req[r].kind
           m == req[r].mem
<1> SUFFICES ASSUME ~clash', ~torn
             PROVE  /\ ReqApart(req'[r], pending', rules')
                    /\ req'[r].phase \notin Writing => FilesApart(pending', rules')
  BY <1>1, <1>2, ReqStaysOnce
<1>3. ReqApart(req[r], pending, rules)
  BY ReqAlone DEF OnceInv
<1>4. req[r].phase \notin Writing => FilesApart(pending, rules)
  <2>1. NoneWrites => FilesApart(pending, rules)
    BY ReqAlone DEF OnceInv
  <2> QED
    BY <2>1, ReqAlone DEF NoneWrites, RunHolds, ReqHolds
<1>5. CASE FindPending(r)
  <2>1. /\ SameJob(r) /\ req[r].phase = "queue" /\ k \in Kinds /\ pending' = pending
        /\ rules' = rules /\ req[r].op \in {"approve", "reject"}
    BY <1>1, <1>5, FindPendingDoes DEF files
  <2>2. FilesApart(pending, rules)
    BY <1>4, <2>1 DEF Writing
  <2>3. CASE req'[r].phase = "over"
    BY <2>1, <2>2, <2>3 DEF ReqApart
  <2>4. CASE req'[r].phase # "over"
    <3>1. PICK i \in DOMAIN pending[k] :
            /\ req'[r].phase = IF req[r].op = "reject" THEN "truncate" ELSE "book"
            /\ req'[r].got = pending[k][i]
            /\ req'[r].mem.queue = [pending EXCEPT ![k] = Pop(pending[k], i)]
      BY <1>1, <1>5, <2>4, FindPendingDoes
    <3>2. Apart(Pop(pending[k], i), rules[k].data)
      BY <1>1, <2>1, <2>2, PopApart DEF TypeOK, IsQueue, FilesApart
    <3>3. FilesApart(req'[r].mem.queue, rules)
      BY <1>1, <2>2, <3>1, <3>2 DEF FilesApart
    <3>4. CASE req[r].op = "reject"
      BY <2>1, <3>1, <3>3, <3>4 DEF ReqApart, Writing
    <3>5. CASE req[r].op = "approve"
      BY <2>1, <2>2, <3>1, <3>5 DEF ReqApart, SameJob
    <3> QED
      BY <2>1, <3>4, <3>5
  <2> QED
    BY <2>3, <2>4
<1>6. CASE ReadBook(r)
  <2> DEFINE b == rules[k].data
  <2>1. /\ SameWish(r) /\ req[r].phase = "book" /\ pending' = pending /\ rules' = rules
        /\ req[r].op \in {"approve", "create", "toggle", "update", "delete"}
    BY <1>1, <1>6, ReadBookDoes DEF files
  <2>2. FilesApart(pending, rules)
    BY <1>4, <2>1 DEF Writing
  <2>3. CASE req'[r].phase = "over"
    BY <2>1, <2>2, <2>3 DEF ReqApart
  <2>4. CASE req'[r].phase # "over"
    <3>1. /\ req[r].op \in {"toggle", "delete", "update"}
               => FirstWithId(b, req[r].entry.id) # 0
          /\ req'[r].phase = "book_truncate" /\ req'[r].mem.book = Edited(r, b)
          /\ req'[r].mem.queue = m.queue
      BY <1>1, <1>6, <2>4, ReadBookDoes
    <3>2. IsBook(b) /\ IsSeq(b)
      BY <1>1 DEF IsFile, IsBook
    <3>3. CASE req[r].op = "approve"
      <4>1. k \in Kinds
        BY <1>1, <3>3 DEF IsReq
      <4>2. PICK i \in DOMAIN pending[k] :
              /\ req[r].got = pending[k][i]
              /\ m.queue = [pending EXCEPT ![k] = Pop(pending[k], i)]
        BY <1>3, <2>1, <3>3 DEF ReqApart
      <4>3. /\ Apart(Pop(pending[k], i), b)
            /\ \A j \in DOMAIN Pop(pending[k], i) : Pop(pending[k], i)[j].key # req[r].got.key
        BY <1>1, <2>2, <4>1, <4>2, PopApart DEF TypeOK, IsQueue, FilesApart
      <4>4. \A j \in DOMAIN b : b[j].by = "approve" => b[j].key # req[r].got.key
        BY <2>2, <4>1, <4>2 DEF FilesApart, Apart, RuleOrWait
      <4> DEFINE x == Rule(NextRuleId(b), req[r].got.key, "approve", req[r].got.count)
      <4>5. Edited(r, b) = Append(b, x) /\ x.key = req[r].got.key
        BY <3>3 DEF Edited, Rule
      <4> HIDE DEF x, b
      <4>6. Apart(Pop(pending[k], i), Append(b, x))
        BY <3>2, <4>3, <4>4, <4>5, AppendApart
      <4>7. req'[r].op = "approve" /\ req'[r].kind = k
        BY <2>1, <3>3 DEF SameWish, SameJob
      <4>8. ASSUME NEW j \in Kinds
            PROVE  Apart(req'[r].mem.queue[j],
                         IF j = k THEN req'[r].mem.book ELSE rules[j].data)
        BY <1>1, <2>2, <3>1, <4>1, <4>2, <4>5, <4>6 DEF FilesApart
      <4> QED
        BY <2>1, <3>1, <4>7, <4>8 DEF ReqApart, Waiting, Writing
    <3>4. CASE req[r].op # "approve"
      <4>1. req'[r].op # "approve" /\ req'[r].kind = k
        BY <2>1, <3>4 DEF SameWish, SameJob
      <4>2. ASSUME NEW j \in Kinds
            PROVE  Apart(pending[j], IF j = k THEN req'[r].mem.book ELSE rules[j].data)
        <5>1. CASE j = k
          <6>1. req[r].op \in {"create", "toggle", "delete"}
            BY <1>1, <2>1, <3>4, <5>1 DEF IsReq, Kinds
          <6>2. Apart(pending[j], b)
            BY <2>2, <5>1 DEF FilesApart
          <6> HIDE DEF b
          <6> QED
            BY <3>1, <3>2, <5>1, <6>1, <6>2, EditedApart
        <5>2. CASE j # k
          BY <2>2, <5>2 DEF FilesApart
        <5> QED
          BY <5>1, <5>2
      <4> QED
        BY <2>1, <3>1, <4>1, <4>2 DEF ReqApart, Waiting, Writing
    <3> QED
      BY <3>3, <3>4
  <2> QED
    BY <2>3, <2>4
<1>7. CASE Ask(r)
  <2>1. /\ SameJob(r) /\ req[r].phase = "ask" /\ req[r].op = "promote"
        /\ pending' = pending /\ rules' = rules
    BY <1>1, <1>7, AskDoes DEF files
  <2>2. FilesApart(pending, rules) /\ m.book = rules["clf"].data
    BY <1>3, <1>4, <2>1 DEF ReqApart, Writing
  <2>3. req[r].kind = "clf" /\ req'[r].kind = "clf" /\ req'[r].op = "promote"
    BY <1>1, <2>1 DEF IsReq, SameJob
  <2>4. CASE req'[r].phase = "over"
    BY <2>1, <2>2, <2>4 DEF ReqApart
  <2>5. CASE req'[r].phase = "ask" /\ req'[r].mem.book = m.book
    BY <2>1, <2>2, <2>5 DEF ReqApart
  <2>6. ASSUME NEW c \in m.cands, req'[r].phase = "book_truncate",
               req'[r].mem.book = Append(m.book, Rule(NextRuleId(m.book), c.key,
                                                     "promote", c.count))
        PROVE  /\ ReqApart(req'[r], pending', rules')
               /\ req'[r].phase \notin Writing => FilesApart(pending', rules')
    <3> DEFINE b == m.book
               x == Rule(NextRuleId(b), c.key, "promote", c.count)
    <3>1. x.by # "approve" /\ IsSeq(b) /\ Apart(pending["clf"], b)
      BY <1>1, <2>2 DEF Rule, IsMemory, IsBook, FilesApart, Kinds
    <3> HIDE DEF x, b
    <3>2. Apart(pending["clf"], Append(b, x))
      BY <3>1, AppendApart
    <3>3. Apart(pending["clf"], req'[r].mem.book)
      BY <2>6, <3>2 DEF x, b
    <3>4. ASSUME NEW j \in Kinds
          PROVE  Apart(pending[j], IF j = "clf" THEN req'[r].mem.book ELSE rules[j].data)
      BY <2>2, <3>3 DEF FilesApart
    <3> QED
      BY <2>1, <2>3, <2>6, <3>4 DEF ReqApart, Waiting, Writing
  <2> QED
    BY <1>1, <1>7, <2>4, <2>5, <2>6, AskDoes
<1>8. CASE BookTruncate(r)
  <2>1. /\ SameWish(r) /\ req'[r].mem = m /\ req[r].phase = "book_truncate"
        /\ req'[r].phase = "book_dump" /\ pending' = pending
        /\ rules' = [rules EXCEPT ![k] = TornFile]
    BY <1>1, <1>8, BookTruncateDoes
  <2>2. \A j \in Kinds : Apart(Waiting(req[r], pending)[j], IF j = k THEN m.book ELSE rules[j].data)
    BY <1>3, <2>1 DEF ReqApart
  <2>3. Waiting(req'[r], pending') = Waiting(req[r], pending) /\ req'[r].kind = k
    BY <2>1 DEF Waiting, SameWish, SameJob
  <2>4. \A j \in Kinds : j # k => rules'[j] = rules[j]
    BY <1>1, <2>1 DEF TypeOK, RulesTyped, Books
  <2> QED
    BY <2>1, <2>2, <2>3, <2>4 DEF ReqApart, Writing
<1>9. CASE BookDump(r)
  <2>1. /\ SameWish(r) /\ req'[r].mem = m /\ req[r].phase = "book_dump" /\ pending' = pending
        /\ req'[r].phase = CASE req[r].op = "approve" -> "truncate"
                             [] req[r].op = "promote" -> "ask"
                             [] OTHER                 -> "reload"
        /\ rules' = [rules EXCEPT ![k] = File(m.book)]
    BY <1>1, <1>9, BookDumpDoes
  <2>2. \A j \in Kinds : Apart(Waiting(req[r], pending)[j], IF j = k THEN m.book ELSE rules[j].data)
    BY <1>3, <2>1 DEF ReqApart
  <2>3. \A j \in Kinds : rules'[j].data = IF j = k THEN m.book ELSE rules[j].data
    BY <1>1, <2>1 DEF TypeOK, RulesTyped, Books, File
  <2>4. FilesApart(Waiting(req[r], pending), rules')
    BY <2>2, <2>3 DEF FilesApart
  <2>5. CASE req[r].op = "approve"
    BY <2>1, <2>4, <2>5 DEF Waiting, ReqApart, Writing
  <2>6. CASE req[r].op = "promote"
    <3>1. k = "clf" /\ rules'["clf"].data = m.book
      BY <1>1, <2>3, <2>6 DEF IsReq, Kinds
    <3> QED
      BY <2>1, <2>4, <2>6, <3>1 DEF Waiting, ReqApart, Writing
  <2>7. CASE req[r].op \notin {"approve", "promote"}
    BY <2>1, <2>4, <2>7 DEF Waiting, ReqApart, Writing
  <2> QED
    BY <2>5, <2>6, <2>7
<1>10. CASE PendingTruncate(r)
  <2>1. /\ req'[r].mem = m /\ req[r].phase = "truncate" /\ req'[r].phase = "dump"
        /\ rules' = rules
    BY <1>1, <1>10, PendingTruncateDoes
  <2> QED
    BY <1>3, <2>1 DEF ReqApart, Writing
<1>11. CASE PendingDump(r)
  <2>1. /\ req[r].phase = "dump" /\ req'[r].phase \in {"reload", "over"}
        /\ rules' = rules /\ pending' = m.queue
    BY <1>1, <1>11, PendingDumpDoes
  <2> QED
    BY <1>3, <2>1 DEF ReqApart, Writing
<1>12. CASE ReloadRead(r) \/ ReloadInstall(r)
  <2>1. /\ req[r].phase \in Reloading /\ req'[r].phase \in Reloading \cup {"over"}
        /\ rules' = rules /\ pending' = pending
    BY <1>1, <1>12, ReloadReadDoes, ReloadInstallDoes DEF files, Reloading
  <2> QED
    BY <1>4, <2>1 DEF ReqApart, Writing, Reloading
<1> QED
  BY <1>5, <1>6, <1>7, <1>8, <1>9, <1>10, <1>11, <1>12 DEF ReqAction

\* A request that begins: the command line reads the rules, a click nothing.
LEMMA BeginOnce ==
  ASSUME OnceInv, NEW r \in Requests, Click(r) \/ Submit(r) \/ StartPromote(r),
         UNCHANGED history
  PROVE  OnceInv'
<1>1. TypeOK /\ TypeOK'
  BY ReqTypes DEF OnceInv
<1>2. /\ OnlyReq(r) /\ UNCHANGED <<pending, rules, torn>>
      /\ req[r].phase = "idle" /\ req'[r].phase \notin Writing
  BY <1>1, ChooseDoes, StartPromoteDoes DEF files, Writing
<1>3. ReqApart(req'[r], pending, rules)
  <2>1. CASE StartPromote(r)
    BY <1>1, <2>1, StartPromoteDoes DEF ReqApart
  <2>2. CASE Click(r) \/ Submit(r)
    <3>1. \/ req'[r].phase = "queue"
          \/ req'[r].phase = "book" /\ req'[r].op # "approve"
      BY <1>1, <2>2, ChooseDoes
    <3> QED
      BY <3>1 DEF ReqApart
  <2> QED
    BY <2>1, <2>2
<1>4. req[r].phase \notin Writing
  BY <1>2 DEF Writing
<1>5. NoneWrites' => NoneWrites
  BY <1>2, <1>4 DEF NoneWrites, OnlyReq
<1> QED
  BY <1>1, <1>2, <1>3, <1>5 DEF OnceInv, OnlyReq, history

LEMMA StepOnce ==
  ASSUME OnceInv, [Next]_vars
  PROVE  OnceInv'
<1>1. TypeOK /\ TypeOK'
  BY StepType DEF OnceInv
<1>2. CASE (\E p \in Processes : Loads(p)) \/ UNCHANGED vars
  <2>1. UNCHANGED <<pending, rules, run, req, clash, torn>>
    BY <1>1, <1>2, LoadsDoes DEF files, vars, history
  <2> QED
    BY <1>1, <2>1 DEF OnceInv, NoneWrites
<1>3. CASE WriteFails
  BY <1>1, <1>3, WriteFailsDoes DEF OnceInv
<1>4. ASSUME NEW p \in Processes, Restart(p) PROVE OnceInv'
  <2>1. /\ \A t \in Runs : run'[t] = run[t] \/ run'[t].phase = "dead"
        /\ \A r \in Requests : req'[r] = req[r] \/ req'[r].phase = "lost"
        /\ torn' = \/ torn
                   \/ \E t \in Runs : run'[t] # run[t] /\ run[t].phase \in Writing
                   \/ \E r \in Requests : req'[r] # req[r] /\ req[r].phase \in Writing
        /\ UNCHANGED <<pending, rules, clash>>
    BY <1>1, <1>4, RestartDoes DEF files, history
  <2> SUFFICES ASSUME ~clash, ~torn'
               PROVE  /\ NoneWrites' => FilesApart(pending, rules)
                      /\ \A t \in Runs : RunApart(run'[t], rules)
                      /\ \A r \in Requests : ReqApart(req'[r], pending, rules)
    BY <1>1, <2>1 DEF OnceInv
  <2>2. /\ ~torn /\ \A t \in Runs : run[t].phase \in Writing => run'[t] = run[t]
        /\ \A r \in Requests : req[r].phase \in Writing => req'[r] = req[r]
    BY <2>1
  <2>3. NoneWrites' => NoneWrites
    BY <2>2 DEF NoneWrites
  <2>4. \A t \in Runs : RunApart(run'[t], rules)
    BY <2>1, <2>2 DEF OnceInv, RunApart
  <2>5. \A r \in Requests : ReqApart(req'[r], pending, rules)
    BY <2>1, <2>2, FreeHands DEF OnceInv, ReqHolds, Writing
  <2> QED
    BY <2>2, <2>3, <2>4, <2>5 DEF OnceInv
<1> QED
  BY <1>2, <1>3, <1>4, RunOnce, ReqOnce, BeginOnce, Steps

LEMMA OnceImplies == OnceInv => ApprovedOnce
<1> SUFFICES ASSUME OnceInv, ~clash, ~torn, AtRest, NEW k \in Kinds
             PROVE  /\ \A i, j \in DOMAIN pending[k] :
                         pending[k][i].key = pending[k][j].key => i = j
                    /\ \A x, y \in Book(k) :
                         x.by = "approve" /\ y.by = "approve" /\ x.key = y.key => x = y
                    /\ \A x \in Book(k), e \in Entries(k) : x.by = "approve" => x.key # e.key
  BY DEF ApprovedOnce
<1>1. NoneWrites
  BY DEF AtRest, Holds, NoneWrites
<1>2. Apart(pending[k], rules[k].data)
  BY <1>1 DEF OnceInv, FilesApart
<1> QED
  BY <1>2 DEF Apart, WaitOnce, RuleOnce, RuleOrWait, Book, Entries, Elements

(***************************************************************************)
(* If it is true of the shipped files, no pattern waits twice, has two     *)
(* approved rules, or waits while an approved rule covers it, unless two   *)
(* actors were in a file at the same time or a write was cut short.        *)
(***************************************************************************)
THEOREM ApprovedOnlyOnce == ShippedApart => (Spec => []ApprovedOnce)
<1>1. ShippedApart /\ Init => OnceInv
  BY InitOnce
<1> QED
  BY <1>1, StepOnce, OnceImplies, PTL DEF Spec

-----------------------------------------------------------------------------
(***************************************************************************)
(* A frequent pattern is queued.  While nobody asks anything of the files  *)
(* but the runs, and no two of them at once, a pattern that is verified    *)
(* often enough rules or waits as soon as one run that asked has queued    *)
(* its candidates: or a run that asked has still to queue its own.         *)
(***************************************************************************)
\* A candidate is in the new entries unless its pattern rules or waits.
LEMMA NewAll ==
  ASSUME NEW cands, IsFiniteSet(cands), NEW book, NEW queue,
         NEW new \in NewCandidates(cands, book, queue), NEW c \in cands
  PROVE  \/ Covered(c.key, book) \/ AlreadyPending(c.key, queue)
         \/ \E i \in 1 .. Len(new) : new[i].key = c.key
<1> SUFFICES ASSUME ~Covered(c.key, book), ~AlreadyPending(c.key, queue)
             PROVE  \E i \in 1 .. Len(new) : new[i].key = c.key
  OBVIOUS
<1> DEFINE open == {x \in cands : ~Covered(x.key, book) /\ ~AlreadyPending(x.key, queue)}
<1>1. PICK P \in SUBSET open :
        /\ \A x \in open : \E p \in P : /\ p.key = x.key /\ p.size >= x.size
                                        /\ \A q \in P : q.key = p.key => q = p
        /\ new \in [1 .. Cardinality(P) -> P]
        /\ \A i, j \in 1 .. Cardinality(P) : i < j => new[i] # new[j] /\ new[i].size >= new[j].size
  BY Zenon DEF NewCandidates
<1>2. c \in open /\ open \subseteq cands
  OBVIOUS
<1> HIDE DEF open
<1>3. IsFiniteSet(P) /\ Cardinality(P) \in Nat
  BY <1>1, <1>2, FS_Subset, FS_CardinalityType
<1>4. Len(new) = Cardinality(P)
  BY <1>1, <1>3, ListIsSeq
<1>5. \A i, j \in 1 .. Cardinality(P) : new[i] = new[j] => i = j
  <2> SUFFICES ASSUME NEW i \in 1 .. Cardinality(P), NEW j \in 1 .. Cardinality(P),
                      new[i] = new[j], i # j
               PROVE  FALSE
    OBVIOUS
  <2>1. i < j \/ j < i
    BY <1>3
  <2> QED
    BY <1>1, <2>1
<1>6. new \in Injection(1 .. Cardinality(P), P)
  BY <1>1, <1>5 DEF Injection, IsInjective
<1>7. Cardinality(1 .. Cardinality(P)) = Cardinality(P)
  BY <1>3, FS_Interval
<1>8. new \in Surjection(1 .. Cardinality(P), P)
  BY <1>3, <1>6, <1>7, FS_Injection
<1>9. PICK p \in P : p.key = c.key
  BY <1>1, <1>2
<1> QED
  BY <1>4, <1>8, <1>9 DEF Surjection

Frequent(lg, key) == \E label \in Labels \ {None} :
                       Cardinality(Support(lg, key, label)) >= MinCount
AllSettled(lg, b, q) ==
  \A key \in Keys : Frequent(lg, key) => Covered(key, b) \/ AlreadyPending(key, q)

LEMMA FrequentIsCandidate ==
  ASSUME NEW lg, NEW key \in Keys, Frequent(lg, key)
  PROVE  \E c \in Candidates("clf", lg) : c.key = key
<1>1. PICK label \in Labels \ {None} : Cardinality(Support(lg, key, label)) >= MinCount
  BY DEF Frequent
<1> DEFINE n == Cardinality(Support(lg, key, label))
           c == [key |-> key, label |-> label, count |-> n, size |-> n]
<1>2. Support(lg, key, label) \subseteq Runs
  BY DEF Support, Verified
<1>3. n \in Nat /\ n <= Cardinality(Runs) /\ Cardinality(Runs) \in Nat /\ n >= 1
  <2>1. n \in Nat /\ n <= Cardinality(Runs) /\ Cardinality(Runs) \in Nat
    BY <1>2, PromotionAssumption, FS_Subset, FS_CardinalityType
  <2> QED
    BY <1>1, <2>1, PromotionAssumption
<1>4. c.key = key /\ c.label = label /\ c.count = n /\ c.size = n
  OBVIOUS
<1>5. c \in Patterns
  <2>1. n \in 1 .. Cardinality(Runs)
    BY <1>3
  <2> HIDE DEF n
  <2> QED
    BY <2>1 DEF Patterns
<1> HIDE DEF c
<1>6. c \in find_promotion_candidates(lg)
  <2>1. Support(lg, c.key, c.label) = Support(lg, key, label)
    BY <1>4
  <2> QED
    BY <1>1, <1>4, <1>5, <2>1 DEF find_promotion_candidates
<1> QED
  BY <1>4, <1>6 DEF Candidates

\* After new candidates of all that the log gives are queued, all is settled.
LEMMA QueuedSettles ==
  ASSUME NEW lg, NEW b, NEW p, IsSeq(p), NEW new \in NewCandidates(Candidates("clf", lg), b, p)
  PROVE  AllSettled(lg, b, Enqueued(p, new)) /\ (new = << >> => AllSettled(lg, b, p))
<1> DEFINE e == Enqueued(p, new)
           cands == Candidates("clf", lg)
<1> SUFFICES ASSUME NEW key \in Keys, Frequent(lg, key)
             PROVE  /\ Covered(key, b) \/ AlreadyPending(key, e)
                    /\ new = << >> => Covered(key, b) \/ AlreadyPending(key, p)
  BY DEF AllSettled
<1>1. PICK c \in cands : c.key = key
  BY FrequentIsCandidate
<1>2. IsFiniteSet(cands)
  BY CandidatesFinite DEF Kinds
<1>3. \/ Covered(key, b) \/ AlreadyPending(key, p)
      \/ \E i \in 1 .. Len(new) : new[i].key = key
  BY <1>1, <1>2, NewAll
<1>4. IsSeq(new)
  BY <1>2, NewFacts
<1>5. /\ IsSeq(e) /\ Len(e) = Len(p) + Len(new)
      /\ \A i \in 1 .. Len(p) : e[i] = p[i]
      /\ \A i \in 1 .. Len(new) : e[Len(p) + i] = PendingEntry(Len(p) + i, new[i])
  BY <1>4, EnqueuedFacts
<1> HIDE DEF e, cands
<1>6. /\ DOMAIN e = 1 .. Len(p) + Len(new) /\ DOMAIN p = 1 .. Len(p)
      /\ Len(p) \in Nat /\ Len(new) \in Nat
  BY <1>4, <1>5, SeqFacts
<1>7. AlreadyPending(key, p) => AlreadyPending(key, e)
  <2> SUFFICES ASSUME NEW i \in DOMAIN p, p[i].key = key PROVE \E j \in DOMAIN e : e[j].key = key
    BY DEF AlreadyPending, Elements
  <2>1. i \in DOMAIN e /\ e[i] = p[i]
    BY <1>5, <1>6
  <2> QED
    BY <2>1
<1>8. ASSUME NEW i \in 1 .. Len(new), new[i].key = key PROVE AlreadyPending(key, e)
  <2>1. \A n, x : PendingEntry(n, x).key = x.key
    BY DEF PendingEntry
  <2>2. Len(p) + i \in DOMAIN e /\ e[Len(p) + i].key = key
    BY <1>5, <1>6, <1>8, <2>1
  <2> QED
    BY <2>2 DEF AlreadyPending, Elements
<1>9. new = << >> => ~\E i \in 1 .. Len(new) : new[i].key = key
  OBVIOUS
<1> QED
  BY <1>3, <1>7, <1>8, <1>9

\* Where a run is on its way; what it has read; who asked and has queued,
\* or has still to queue, the candidates of the classifications.
RunOrder(m) ==
  /\ m.phase \in {"idle", "decide", "qa", "qa_write"} => m.kind = "clf"
  /\ m.phase = "idle" => ~m.asked["clf"]
  /\ m.phase = "end" /\ m.asked["clf"] => m.kind = "dec"
  /\ m.phase \in {"pending", "truncate", "dump"} /\ m.kind = "clf" => m.asked["clf"]
Owes(m) == m.asked["clf"] /\ m.kind = "clf"
Done(m) == m.asked["clf"] /\ m.kind = "dec"

DoneSettled(rn, lg, b, q) ==
  (\E t \in Runs : Done(rn[t])) => \/ \E u \in Runs : Owes(rn[u])
                                   \/ AllSettled(lg, b, q)
RunQueues(m, rn, lg, b, q) ==
  /\ m.phase = "qa_write" => m.asked["clf"] /\ m.mem.log = lg
  /\ m.phase = "pending" /\ m.kind = "clf" => /\ m.mem.cands = Candidates("clf", lg)
                                              /\ m.mem.book = b
  /\ m.phase \in {"truncate", "dump"} /\ m.kind = "clf" => AllSettled(lg, b, m.mem.queue["clf"])
  /\ m.phase = "truncate" /\ m.kind = "dec" => m.mem.queue["clf"] = q
  /\ m.phase = "dump" /\ m.kind = "dec" => DoneSettled(rn, lg, b, m.mem.queue["clf"])

OnlyRuns == ~clash /\ ~torn /\ \A r \in Requests : req[r].op = None
NoDump   == \A t \in Runs : run[t].phase # "dump"
QueuedInv ==
  /\ TornInv /\ \A t \in Runs : RunOrder(run[t])
  /\ OnlyRuns =>
       /\ \A t \in Runs : log["clf"][t].qa = "none" => run[t].asked["clf"]
       /\ NoDump => DoneSettled(run, log["clf"], rules["clf"].data, pending["clf"])
       /\ \A t \in Runs :
            RunQueues(run[t], run, log["clf"], rules["clf"].data, pending["clf"])

LEMMA InitQueued == Init => QueuedInv
<1> SUFFICES ASSUME Init PROVE QueuedInv
  OBVIOUS
<1>1. PICK scene \in Scenes :
        /\ log = [k \in Kinds |-> [t \in Runs |->
              IF t \in scene.over /\ k = "clf"
                THEN [label |-> "x", llm |-> TRUE, qa |-> "passed"] ELSE NoEntry]]
        /\ run = [t \in Runs |->
              [InitRun EXCEPT !.phase = IF t \in scene.over THEN "end" ELSE "idle"]]
  BY DEF Init
<1>2. \A t \in Runs : /\ run[t].phase \in {"idle", "end"} /\ run[t].kind = "clf"
                      /\ run[t].asked["clf"] = FALSE
  BY <1>1 DEF InitRun
<1>3. \A t \in Runs : log["clf"][t].qa # "none"
  BY <1>1 DEF NoEntry, Kinds
<1> QED
  BY <1>2, <1>3, InitTorn DEF QueuedInv, RunOrder, RunQueues, DoneSettled, Done

\* What a step of a run makes of the mark that it asked.
LEMMA RunAsks ==
  ASSUME TypeOK, NEW t \in Runs, RunAction(t)
  PROVE  \/ Classify(t) /\ run'[t].asked["clf"] = TRUE
         \/ (Classify(t) => log' = log) /\ run'[t].asked["clf"] = run[t].asked["clf"]
<1>1. IsRun(run[t]) /\ DOMAIN run = Runs
  BY DEF TypeOK, ActorsTyped
<1>2. CASE Classify(t)
  <2>1. CASE run' = [run EXCEPT ![t].phase = "decide"] /\ log' = log
    BY <1>1, <2>1 DEF IsRun
  <2>2. CASE run' = [run EXCEPT ![t].phase = "decide", ![t].asked.clf = TRUE]
    BY <1>1, <1>2, <2>2 DEF IsRun, Kinds
  <2> QED
    BY <1>2, <2>1, <2>2 DEF Classify
<1>3. CASE Decide(t)
  <2>1. PICK host \in Processes, llm \in BOOLEAN :
          \/ run' = [run EXCEPT ![t].phase = "qa", ![t].host = host]
          \/ run' = [run EXCEPT ![t].phase = "qa", ![t].host = host,
                                ![t].asked.dec = TRUE, ![t].pseudo_code = llm]
    BY <1>3 DEF Decide
  <2>2. CASE run' = [run EXCEPT ![t].phase = "qa", ![t].host = host]
    <3>1. run'[t].asked = run[t].asked
      BY <1>1, <2>2 DEF IsRun
    <3> QED
      BY <1>3, <3>1 DEF Decide, Classify
  <2>3. CASE run' = [run EXCEPT ![t].phase = "qa", ![t].host = host,
                                ![t].asked.dec = TRUE, ![t].pseudo_code = llm]
    <3>1. run'[t].asked["clf"] = run[t].asked["clf"]
      BY <1>1, <2>3 DEF IsRun, Kinds
    <3> QED
      BY <1>3, <3>1 DEF Decide, Classify
  <2> QED
    BY <2>1, <2>2, <2>3
<1>4. CASE RunAction(t) /\ ~Classify(t) /\ ~Decide(t)
  <2> SUFFICES run'[t].asked = run[t].asked
    BY <1>4
  <2>1. ASSUME NEW phase, Goto(t, phase) PROVE run'[t].asked = run[t].asked
    BY <1>1, <2>1 DEF Goto, IsRun
  <2>2. NextKind(t) => run'[t].asked = run[t].asked
    BY <1>1 DEF NextKind, IsRun
  <2>3. CASE Whitelisted(t)
    <3>1. Goto(t, "queue")
      BY <2>3 DEF Whitelisted
    <3> QED
      BY <2>1, <3>1, Zenon
  <2>4. CASE WriteVerdict(t)
    <3>1. PICK next : Goto(t, next)
      BY <2>4, Zenon DEF WriteVerdict
    <3> QED
      BY <2>1, <3>1, Zenon
  <2>5. CASE Verify(t)
    <3>1. CASE \E next : Goto(t, next)
      BY <2>1, <3>1, Zenon
    <3>2. CASE \E v \in {"passed", "failed"} :
                 run' = [run EXCEPT ![t] = [@ EXCEPT !.phase = "qa_write",
                                              !.verdict = v, !.mem.log = log["clf"]]]
      BY <1>1, <3>2 DEF IsRun
    <3> QED
      BY <2>5, <3>1, <3>2, Zenon DEF Verify
  <2>6. CASE QueueRead(t)
    <3> DEFINE k == run[t].kind
               cands == Candidates(k, log[k])
    <3>1. \/ NextKind(t)
          \/ run' = [run EXCEPT ![t] = [@ EXCEPT !.phase = "pending",
                                          !.mem.cands = cands, !.mem.book = rules[k].data]]
      BY <2>6 DEF QueueRead
    <3> HIDE DEF cands, k
    <3> QED
      BY <1>1, <2>2, <3>1 DEF IsRun
  <2>7. CASE QueuePending(t)
    <3>1. CASE \E q : run' = [run EXCEPT ![t] = [@ EXCEPT !.phase = "truncate", !.mem.queue = q]]
      BY <1>1, <3>1 DEF IsRun
    <3>2. NextKind(t) \/ \E q : run' = [run EXCEPT ![t] = [@ EXCEPT !.phase = "truncate",
                                                                    !.mem.queue = q]]
      BY <2>7 DEF QueuePending
    <3> QED
      BY <2>2, <3>1, <3>2
  <2>8. CASE QueueTruncate(t)
    BY <1>1, <2>8 DEF QueueTruncate, IsRun
  <2>9. CASE QueueDump(t)
    BY <2>2, <2>9 DEF QueueDump
  <2> QED
    BY <1>4, <2>3, <2>4, <2>5, <2>6, <2>7, <2>8, <2>9 DEF RunAction
<1> QED
  BY <1>2, <1>3, <1>4

\* While only runs move, the file of the classification rules is whole.
LEMMA RulesWhole ==
  ASSUME TornInv, OnlyRuns
  PROVE  \A k \in Books : ~rules[k].torn
<1> SUFFICES ASSUME NEW k \in Books, rules[k].torn PROVE FALSE
  OBVIOUS
<1>1. PICK r \in Requests : Filling(req[r], k)
  BY DEF TornInv, OnlyRuns, TornWhileFilled
<1>2. IsReq(req[r])
  BY DEF TornInv, TypeOK, ActorsTyped
<1>3. req[r].op = None /\ req[r].phase = "book_dump"
  BY <1>1 DEF OnlyRuns, Filling
<1>4. ReqPhases(None) = {"idle", "over"}
  BY DEF ReqPhases, None
<1>5. req[r].phase \in {"idle", "over"}
  BY <1>2, <1>3, <1>4 DEF IsReq
<1> QED
  BY <1>3, <1>5

LEMMA RunStaysOrdered ==
  ASSUME QueuedInv, NEW t \in Runs, RunAction(t)
  PROVE  RunOrder(run'[t])
<1>1. /\ TypeOK /\ RunOrder(run[t]) /\ IsRun(run[t])
  BY DEF QueuedInv, TornInv, TypeOK, ActorsTyped
<1> DEFINE a  == run[t].asked["clf"]
           a1 == run'[t].asked["clf"]
<1>2. ~Classify(t) => a1 = a
  <2>1. Classify(t) \/ a1 = a
    BY <1>1, RunAsks
  <2> QED
    BY <2>1
<1>3. CASE Classify(t)
  <2>1. run[t].phase = "idle" /\ run'[t].phase = "decide" /\ run'[t].kind = run[t].kind
    BY <1>1, <1>3, ClassifyDoes DEF SameMind
  <2> QED
    BY <1>1, <2>1 DEF RunOrder
<1>4. CASE Decide(t)
  <2>1. run[t].phase = "decide" /\ run'[t].phase = "qa" /\ run'[t].kind = run[t].kind
    BY <1>1, <1>4, DecideDoes DEF SameMind
  <2> QED
    BY <1>1, <2>1 DEF RunOrder
<1>5. CASE Whitelisted(t) \/ Verify(t) \/ WriteVerdict(t)
  <2>1. /\ run[t].phase \in {"qa", "qa_write"} /\ run'[t].phase \in {"qa", "qa_write", "queue"}
        /\ run'[t].kind = run[t].kind
    BY <1>1, <1>5, WhitelistedDoes, VerifyDoes, WriteVerdictDoes
  <2> QED
    BY <1>1, <2>1 DEF RunOrder
<1>6. CASE QueueRead(t)
  <2>1. CASE NextKind(t)
    <3>1. run'[t].phase \in {"queue", "end"} /\ run'[t].kind = "dec"
      BY <1>1, <1>6, <2>1, NextKindDoes DEF QueueRead
    <3> QED
      BY <3>1 DEF RunOrder
  <2>2. CASE ~NextKind(t)
    <3>1. run'[t].phase = "pending" /\ run'[t].kind = run[t].kind
      BY <1>1, <1>6, <2>2, QueueReadDoes
    <3>2. run[t].asked[run[t].kind]
      BY <1>6, <2>2 DEF QueueRead
    <3>3. ~Classify(t)
      BY <1>6 DEF QueueRead, Classify
    <3> QED
      BY <1>2, <3>1, <3>2, <3>3 DEF RunOrder
  <2> QED
    BY <2>1, <2>2
<1>7. CASE QueuePending(t) \/ QueueTruncate(t) \/ QueueDump(t)
  <2>1. CASE NextKind(t)
    <3>1. run'[t].phase \in {"queue", "end"} /\ run'[t].kind = "dec"
      BY <1>1, <1>7, <2>1, NextKindDoes DEF QueuePending, QueueDump, QueueTruncate
    <3> QED
      BY <3>1 DEF RunOrder
  <2>2. CASE ~NextKind(t)
    <3>1. /\ run[t].phase \in {"pending", "truncate"} /\ run'[t].phase \in {"truncate", "dump"}
          /\ run'[t].kind = run[t].kind
      BY <1>1, <1>7, <2>2, QueuePendingDoes, QueueTruncateDoes, QueueDumpDoes DEF SameMind
    <3>2. ~Classify(t)
      BY <3>1 DEF Classify
    <3> QED
      BY <1>1, <1>2, <3>1, <3>2 DEF RunOrder
  <2> QED
    BY <2>1, <2>2
<1> QED
  BY <1>3, <1>4, <1>5, <1>6, <1>7 DEF RunAction

\* A step of a run that keeps what it must keep.
LEMMA RunStaysQueued ==
  ASSUME QueuedInv, NEW t \in Runs, RunAction(t), Noted(t),
         OnlyRuns /\ ~clash' =>
           /\ \A u \in Runs : log'["clf"][u].qa = "none" => run'[u].asked["clf"]
           /\ NoDump' => DoneSettled(run', log'["clf"], rules["clf"].data, pending'["clf"])
           /\ RunQueues(run'[t], run', log'["clf"], rules["clf"].data, pending'["clf"])
  PROVE  QueuedInv'
<1>1. TypeOK /\ TornInv' /\ RunOrder(run'[t])
  BY RunTorn, RunStaysOrdered DEF QueuedInv, TornInv
<1>2. UNCHANGED <<rules, req, torn>>
  BY DEF RunAction, Classify, Decide, Whitelisted, Verify, WriteVerdict, Queue, QueueRead,
         QueuePending, QueueTruncate, QueueDump, files
<1>3. OnlyRun(t)
  BY <1>1, ClassifyDoes, DecideDoes, WhitelistedDoes, VerifyDoes, WriteVerdictDoes,
     QueueReadDoes, QueuePendingDoes, QueueTruncateDoes, QueueDumpDoes DEF RunAction
<1>4. \A u \in Runs : RunOrder(run'[u])
  BY <1>1, <1>3 DEF QueuedInv, OnlyRun
<1>5. ASSUME OnlyRuns'
      PROVE  OnlyRuns /\ ~clash' /\ \A u \in Runs \ {t} : ~RunHolds(run[u])
  BY <1>2, <1>5, RunAlone DEF OnlyRuns
<1>6. ASSUME OnlyRuns', NEW u \in Runs
      PROVE  RunQueues(run'[u], run', log'["clf"], rules["clf"].data, pending'["clf"])
  <2>1. CASE u = t
    BY <1>5, <1>6, <2>1
  <2>2. CASE u # t
    <3>1. run'[u].phase \notin Writing \cup {"qa_write", "pending"}
      BY <1>3, <1>5, <1>6, <2>2 DEF OnlyRun, RunHolds
    <3> QED
      BY <3>1 DEF RunQueues, Writing
  <2> QED
    BY <2>1, <2>2
<1> QED
  BY <1>1, <1>2, <1>4, <1>5, <1>6 DEF QueuedInv

\* Who owes is enough; who neither asked nor queued its own changes nothing.
LEMMA OwesEnough ==
  ASSUME NEW rn, NEW t \in Runs, Owes(rn[t])
  PROVE  \A lg, b, q : DoneSettled(rn, lg, b, q)
BY DEF DoneSettled

LEMMA SameMarks ==
  ASSUME NEW t \in Runs, OnlyRun(t), run'[t].asked["clf"] = run[t].asked["clf"],
         run'[t].kind = run[t].kind \/ ~run[t].asked["clf"]
  PROVE  /\ \A lg, b, q : DoneSettled(run, lg, b, q) => DoneSettled(run', lg, b, q)
         /\ \A lg : (\A u \in Runs : lg[u].qa = "none" => run[u].asked["clf"])
                      => \A u \in Runs : lg[u].qa = "none" => run'[u].asked["clf"]
<1>1. \A u \in Runs : /\ Done(run'[u]) => Done(run[u])
                      /\ Owes(run[u]) => Owes(run'[u])
                      /\ run'[u].asked["clf"] = run[u].asked["clf"]
  BY DEF OnlyRun, Done, Owes
<1> QED
  BY <1>1 DEF DoneSettled

LEMMA RunQueued ==
  ASSUME QueuedInv, NEW t \in Runs, RunAction(t), Noted(t)
  PROVE  QueuedInv'
<1> DEFINE lg == log["clf"]
           b  == rules["clf"].data
           q  == pending["clf"]
           m  == run[t].mem
           a  == run[t].asked["clf"]
<1>1. /\ TypeOK /\ IsRun(run[t]) /\ IsMemory(m) /\ run[t].kind \in Kinds /\ RunOrder(run[t])
      /\ IsSeq(q) /\ DOMAIN log = Kinds /\ DOMAIN pending = Kinds
  BY DEF QueuedInv, TornInv, TypeOK, ActorsTyped, IsRun, IsQueue, Kinds, LogTyped
<1>2. OnlyRun(t)
  BY <1>1, ClassifyDoes, DecideDoes, WhitelistedDoes, VerifyDoes, WriteVerdictDoes,
     QueueReadDoes, QueuePendingDoes, QueueTruncateDoes, QueueDumpDoes DEF RunAction
<1> SUFFICES ASSUME OnlyRuns, ~clash'
             PROVE  /\ \A u \in Runs : log'["clf"][u].qa = "none" => run'[u].asked["clf"]
                    /\ NoDump' => DoneSettled(run', log'["clf"], b, pending'["clf"])
                    /\ RunQueues(run'[t], run', log'["clf"], b, pending'["clf"])
  BY RunStaysQueued
<1>3. /\ \A u \in Runs : lg[u].qa = "none" => run[u].asked["clf"]
      /\ NoDump => DoneSettled(run, lg, b, q)
      /\ RunQueues(run[t], run, lg, b, q)
  BY DEF QueuedInv
<1>4. run[t].phase # "dump" => DoneSettled(run, lg, b, q)
  <2>1. \A u \in Runs \ {t} : run[u].phase # "dump"
    BY RunAlone DEF RunHolds, Writing
  <2> QED
    BY <1>3, <2>1 DEF NoDump
<1> DEFINE a1 == run'[t].asked["clf"]
<1>5. ~Classify(t) => a1 = a
  <2>1. Classify(t) \/ a1 = a
    BY <1>1, RunAsks
  <2> QED
    BY <2>1
<1>6. log'["clf"] = lg /\ a1 = a => \A u \in Runs : log'["clf"][u].qa = "none" => run'[u].asked["clf"]
  BY <1>2, <1>3 DEF OnlyRun
<1>7. a1 = a /\ (run'[t].kind = run[t].kind \/ ~a) =>
        \A q1 : DoneSettled(run, lg, b, q1) => DoneSettled(run', lg, b, q1)
  BY <1>2, SameMarks
<1> HIDE DEF lg, b, q
<1>8. CASE Classify(t)
  <2>1. /\ run[t].phase = "idle" /\ run'[t].phase = "decide" /\ run'[t].kind = run[t].kind
        /\ pending' = pending
        /\ \/ log' = log
           \/ \E label \in Labels : log' = [log EXCEPT !["clf"][t] = Logged(label, TRUE)]
    BY <1>1, <1>8, ClassifyDoes DEF SameMind
  <2>2. RunQueues(run'[t], run', log'["clf"], b, pending'["clf"])
    BY <2>1 DEF RunQueues
  <2>3. CASE a1 = TRUE
    <3>1. Owes(run'[t])
      BY <1>1, <2>1, <2>3 DEF RunOrder, Owes
    <3>2. \A u \in Runs \ {t} : log'["clf"][u] = lg[u]
      BY <1>1, <2>1 DEF Kinds, lg, TypeOK, LogTyped
    <3>3. \A u \in Runs : log'["clf"][u].qa = "none" => run'[u].asked["clf"]
      BY <1>2, <1>3, <2>3, <3>2 DEF OnlyRun
    <3> QED
      BY <2>2, <3>1, <3>3, OwesEnough
  <2>4. CASE log' = log /\ a1 = a
    BY <1>4, <1>6, <1>7, <2>1, <2>2, <2>4 DEF lg, q
  <2> QED
    BY <1>1, <1>8, <2>3, <2>4, RunAsks
<1>9. CASE Decide(t) \/ Whitelisted(t) \/ Verify(t)
  <2>1. /\ run[t].phase # "dump" /\ run'[t].kind = run[t].kind
        /\ run'[t].phase \in {"qa", "qa_write", "queue"}
        /\ log'["clf"] = lg /\ pending'["clf"] = q
    <3>1. CASE Decide(t)
      BY <1>1, <3>1, DecideDoes DEF SameMind, lg, q, Kinds, TypeOK, LogTyped
    <3>2. CASE Whitelisted(t) \/ Verify(t)
      BY <1>1, <3>2, WhitelistedDoes, VerifyDoes DEF files, lg, q
    <3> QED
      BY <1>9, <3>1, <3>2
  <2>2. a1 = a
    BY <1>5, <1>9 DEF Classify, Decide, Whitelisted, Verify
  <2>3. run'[t].phase = "qa_write" => run'[t].mem.log = lg /\ a1
    <3> SUFFICES ASSUME run'[t].phase = "qa_write" PROVE run'[t].mem.log = lg /\ a1
      OBVIOUS
    <3>1. Verify(t)
      BY <1>1, <1>9, WhitelistedDoes, DecideDoes
    <3>2. run'[t].mem.log = lg
      BY <1>1, <3>1, VerifyDoes DEF lg
    <3>3. lg[t].qa = "none"
      <4>1. ~\E next \in {"qa", "queue"} : Goto(t, next)
        <5> SUFFICES ASSUME NEW next \in {"qa", "queue"}, Goto(t, next) PROVE FALSE
          OBVIOUS
        <5>1. run'[t].phase = next
          BY <1>1 DEF Goto, IsRun, TypeOK, ActorsTyped
        <5> QED
          BY <5>1
      <4>2. (IF run[t].pseudo_code /\ lg[t].qa = "none" THEN TRUE
             ELSE \E next \in {"qa", "queue"} : Goto(t, next))
        BY <3>1, Zenon DEF Verify, lg
      <4> QED
        BY <4>1, <4>2
    <3> QED
      BY <1>3, <2>2, <3>2, <3>3
  <2>4. RunQueues(run'[t], run', lg, b, q)
    BY <2>1, <2>3 DEF RunQueues
  <2> QED
    BY <1>4, <1>6, <1>7, <2>1, <2>2, <2>4
<1>10. CASE WriteVerdict(t)
  <2>1. /\ run[t].phase = "qa_write" /\ run'[t].phase \in {"qa", "queue"}
        /\ run'[t].kind = run[t].kind
        /\ log' = [log EXCEPT !["clf"] = [m.log EXCEPT ![t].qa = run[t].verdict]]
    BY <1>1, <1>10, WriteVerdictDoes
  <2>2. a1 = a
    BY <1>5, <2>1 DEF Classify
  <2>3. a /\ m.log = lg
    BY <1>3, <2>1 DEF RunQueues
  <2>4. Owes(run'[t])
    BY <1>1, <2>1, <2>2, <2>3 DEF RunOrder, Owes
  <2>5. \A u \in Runs \ {t} : log'["clf"][u] = lg[u]
    BY <1>1, <2>1, <2>3 DEF lg, Kinds, TypeOK, LogTyped
  <2>6. \A u \in Runs : log'["clf"][u].qa = "none" => run'[u].asked["clf"]
    BY <1>2, <1>3, <2>2, <2>3, <2>5 DEF OnlyRun
  <2>7. RunQueues(run'[t], run', log'["clf"], b, pending'["clf"])
    BY <2>1 DEF RunQueues
  <2> QED
    BY <2>4, <2>6, <2>7, OwesEnough
<1>11. CASE QueueRead(t)
  <2>1. run[t].phase = "queue" /\ log'["clf"] = lg /\ pending'["clf"] = q
    BY <1>1, <1>11, QueueReadDoes DEF files, lg, q
  <2>2. a1 = a
    BY <1>5, <2>1 DEF Classify
  <2>3. DoneSettled(run, lg, b, q)
    BY <1>4, <2>1
  <2>4. CASE NextKind(t)
    <3>1. run'[t].phase \in {"queue", "end"} /\ run'[t].kind = "dec"
      BY <1>1, <1>11, <2>4, NextKindDoes DEF QueueRead
    <3>2. RunQueues(run'[t], run', lg, b, q)
      BY <3>1 DEF RunQueues
    <3>3. DoneSettled(run', lg, b, q)
      <4>1. CASE run[t].kind = "dec" \/ ~a
        BY <1>7, <2>2, <2>3, <3>1, <4>1
      <4>2. CASE run[t].kind = "clf" /\ a
        <5>1. ~rules["clf"].torn
          BY RulesWhole DEF QueuedInv, Books, Kinds
        <5>2. \/ Candidates("clf", lg) = {}
              \/ run' = [run EXCEPT ![t] = [@ EXCEPT !.phase = "pending",
                           !.mem.cands = Candidates("clf", lg), !.mem.book = b]]
          BY <1>11, <4>2, <5>1 DEF QueueRead, lg, b
        <5>3. CASE run' = [run EXCEPT ![t] = [@ EXCEPT !.phase = "pending",
                           !.mem.cands = Candidates("clf", lg), !.mem.book = b]]
          BY <1>1, <3>1, <5>3 DEF IsRun, TypeOK, ActorsTyped
        <5>4. CASE Candidates("clf", lg) = {}
          BY <5>4, FrequentIsCandidate DEF DoneSettled, AllSettled
        <5> QED
          BY <5>2, <5>3, <5>4
      <4> QED
        BY <1>1, <4>1, <4>2 DEF Kinds
    <3> QED
      BY <1>6, <2>1, <2>2, <3>2, <3>3
  <2>5. CASE /\ run'[t].phase = "pending" /\ run'[t].kind = run[t].kind
             /\ run'[t].mem.cands = Candidates(run[t].kind, log[run[t].kind])
             /\ run'[t].mem.book = rules[run[t].kind].data
    <3>1. RunQueues(run'[t], run', lg, b, q)
      BY <2>5 DEF RunQueues, lg, b
    <3> QED
      BY <1>6, <1>7, <2>1, <2>2, <2>3, <2>5, <3>1
  <2> QED
    BY <1>1, <1>11, <2>4, <2>5, QueueReadDoes
<1>12. CASE QueuePending(t)
  <2>1. run[t].phase = "pending" /\ log'["clf"] = lg /\ pending'["clf"] = q
    BY <1>1, <1>12, QueuePendingDoes DEF files, lg, q
  <2>2. a1 = a
    BY <1>5, <2>1 DEF Classify
  <2>3. DoneSettled(run, lg, b, q)
    BY <1>4, <2>1
  <2> DEFINE k == run[t].kind
             longer(new) == [pending EXCEPT ![k] = Enqueued(pending[k], new)]
  <2>4. PICK new \in NewCandidates(m.cands, m.book, pending[k]) :
          \/ NextKind(t) /\ new = << >>
          \/ run' = [run EXCEPT ![t] = [@ EXCEPT !.phase = "truncate", !.mem.queue = longer(new)]]
    BY <1>12 DEF QueuePending
  <2>5. k = "clf" => AllSettled(lg, b, Enqueued(q, new)) /\ (new = << >> => AllSettled(lg, b, q))
    <3> SUFFICES ASSUME k = "clf"
                 PROVE  AllSettled(lg, b, Enqueued(q, new)) /\ (new = << >> => AllSettled(lg, b, q))
      OBVIOUS
    <3>1. m.cands = Candidates("clf", lg) /\ m.book = b
      BY <1>3, <2>1 DEF RunQueues
    <3>2. new \in NewCandidates(Candidates("clf", lg), b, q)
      BY <2>4, <3>1 DEF q
    <3> QED
      BY <1>1, <3>2, QueuedSettles DEF q
  <2>6. CASE NextKind(t) /\ new = << >>
    <3>1. run'[t].phase \in {"queue", "end"} /\ run'[t].kind = "dec"
      BY <1>1, <1>12, <2>6, NextKindDoes DEF QueuePending
    <3>2. RunQueues(run'[t], run', lg, b, q)
      BY <3>1 DEF RunQueues
    <3>3. DoneSettled(run', lg, b, q)
      <4>1. CASE k = "dec"
        BY <1>7, <2>2, <2>3, <3>1, <4>1
      <4>2. CASE k = "clf"
        BY <2>5, <2>6, <4>2 DEF DoneSettled
      <4> QED
        BY <1>1, <4>1, <4>2 DEF Kinds
    <3> QED
      BY <1>6, <2>1, <2>2, <3>2, <3>3
  <2>7. CASE run' = [run EXCEPT ![t] = [@ EXCEPT !.phase = "truncate", !.mem.queue = longer(new)]]
    <3> DEFINE next == longer(new)
    <3>1. run' = [run EXCEPT ![t] = [@ EXCEPT !.phase = "truncate", !.mem.queue = next]]
      BY <2>7
    <3>2. /\ k = "clf" => next["clf"] = Enqueued(q, new)
          /\ k = "dec" => next["clf"] = q
      BY <1>1 DEF q, Kinds
    <3> HIDE DEF next
    <3>3. run'[t].phase = "truncate" /\ run'[t].kind = k /\ run'[t].mem.queue = next
      BY <1>1, <3>1 DEF IsRun, IsMemory, TypeOK, ActorsTyped
    <3>4. RunQueues(run'[t], run', lg, b, q)
      BY <2>5, <3>2, <3>3 DEF RunQueues
    <3> QED
      BY <1>6, <1>7, <2>1, <2>2, <2>3, <3>3, <3>4
  <2> QED
    BY <2>4, <2>6, <2>7
<1>13. CASE QueueTruncate(t)
  <2>1. /\ run[t].phase = "truncate" /\ run'[t].phase = "dump" /\ run'[t].kind = run[t].kind
        /\ run'[t].mem = m /\ log'["clf"] = lg
    BY <1>1, <1>13, QueueTruncateDoes DEF SameMind, lg
  <2>2. a1 = a
    BY <1>5, <2>1 DEF Classify
  <2>3. ~NoDump'
    BY <2>1 DEF NoDump
  <2>4. DoneSettled(run', lg, b, q)
    BY <1>4, <1>7, <2>1, <2>2
  <2>5. RunQueues(run'[t], run', lg, b, pending'["clf"])
    BY <1>3, <2>1, <2>4 DEF RunQueues
  <2> QED
    BY <1>6, <2>1, <2>2, <2>3, <2>5
<1>14. CASE QueueDump(t)
  <2>1. /\ run[t].phase = "dump" /\ NextKind(t) /\ pending' = m.queue /\ log'["clf"] = lg
        /\ req' = req
    BY <1>1, <1>2, <1>14, QueueDumpDoes DEF lg, OnlyRun
  <2>2. a1 = a
    BY <1>5, <2>1 DEF Classify
  <2>3. run'[t].phase \in {"queue", "end"} /\ run'[t].kind = "dec"
    BY <1>1, <2>1, NextKindDoes
  <2>4. DoneSettled(run', lg, b, m.queue["clf"])
    <3>1. CASE run[t].kind = "clf"
      BY <1>3, <2>1, <3>1 DEF RunQueues, DoneSettled
    <3>2. CASE run[t].kind = "dec"
      BY <1>3, <1>7, <2>1, <2>2, <2>3, <3>2 DEF RunQueues
    <3> QED
      BY <1>1, <3>1, <3>2 DEF Kinds
  <2>5. RunQueues(run'[t], run', lg, b, pending'["clf"])
    BY <2>3 DEF RunQueues
  <2> QED
    BY <1>6, <2>1, <2>2, <2>4, <2>5
<1> QED
  BY <1>8, <1>9, <1>10, <1>11, <1>12, <1>13, <1>14 DEF RunAction

\* Nobody but the runs: what else moves keeps their order.
LEMMA RequestQueued ==
  ASSUME QueuedInv, NEW r \in Requests,
         ReqAction(r) \/ Click(r) \/ Submit(r) \/ StartPromote(r)
  PROVE  QueuedInv'
<1>1. TypeOK /\ IsReq(req[r]) /\ TornInv'
  BY ReqTorn DEF QueuedInv, TornInv, TypeOK, ActorsTyped
<1>2. OnlyReq(r)
  BY <1>1, FindPendingDoes, ReadBookDoes, AskDoes, BookTruncateDoes, BookDumpDoes,
     PendingTruncateDoes, PendingDumpDoes, ReloadReadDoes, ReloadInstallDoes, ChooseDoes, StartPromoteDoes
  DEF ReqAction
<1>3. req'[r].op # None
  <2>1. CASE Click(r) \/ Submit(r) \/ StartPromote(r)
    BY <1>1, <2>1, ChooseDoes, StartPromoteDoes DEF None
  <2>2. CASE ReqAction(r)
    <3>1. SameJob(r)
      BY <1>1, <2>2, FindPendingDoes, ReadBookDoes, AskDoes, BookTruncateDoes, BookDumpDoes,
         PendingTruncateDoes, PendingDumpDoes, ReloadReadDoes, ReloadInstallDoes DEF ReqAction, SameWish
    <3>2. req[r].phase \notin {"idle", "over"}
      BY <2>2 DEF ReqAction, FindPending, ReadBook, Ask, BookTruncate, BookDump,
         PendingTruncate, PendingDump, ReloadRead, ReloadInstall
    <3>3. ReqPhases(None) = {"idle", "over"}
      BY DEF ReqPhases, None
    <3> QED
      BY <1>1, <3>1, <3>2, <3>3 DEF IsReq, SameJob
  <2> QED
    BY <2>1, <2>2
<1>4. ~OnlyRuns'
  BY <1>3 DEF OnlyRuns
<1>5. run' = run
  BY <1>2 DEF OnlyReq
<1> QED
  BY <1>1, <1>4, <1>5 DEF QueuedInv

LEMMA RestartQueued ==
  ASSUME QueuedInv, NEW p \in Processes, Restart(p), TornInv'
  PROVE  QueuedInv'
<1>1. /\ \A t \in Runs : \/ run'[t] = run[t]
                        \/ /\ run'[t].phase = "dead" /\ run[t].phase \notin {"idle", "end"}
                           /\ run'[t].kind = run[t].kind /\ run'[t].asked = run[t].asked
      /\ \A r \in Requests : req'[r] = req[r] \/ SameWish(r)
      /\ torn' = \/ torn
                 \/ \E t \in Runs : run'[t] # run[t] /\ run[t].phase \in Writing
                 \/ \E r \in Requests : req'[r] # req[r] /\ req[r].phase \in Writing
      /\ UNCHANGED <<log, pending, rules, clash>>
  BY RestartDoes DEF QueuedInv, TornInv, files, history
<1>2. \A t \in Runs : RunOrder(run'[t])
  BY <1>1 DEF QueuedInv, RunOrder
<1>3. ASSUME OnlyRuns'
      PROVE  OnlyRuns /\ \A t \in Runs : run[t].phase \in Writing => run'[t] = run[t]
  BY <1>1, <1>3 DEF OnlyRuns, SameWish, SameJob
<1>4. \A t \in Runs : /\ Done(run'[t]) <=> Done(run[t])
                      /\ Owes(run'[t]) <=> Owes(run[t])
                      /\ run'[t].asked["clf"] = run[t].asked["clf"]
  BY <1>1 DEF Done, Owes
<1>5. \A lg, b, q : DoneSettled(run, lg, b, q) => DoneSettled(run', lg, b, q)
  BY <1>4 DEF DoneSettled
<1> SUFFICES ASSUME OnlyRuns'
             PROVE  /\ \A t \in Runs : log["clf"][t].qa = "none" => run'[t].asked["clf"]
                    /\ NoDump' => DoneSettled(run', log["clf"], rules["clf"].data, pending["clf"])
                    /\ \A t \in Runs : RunQueues(run'[t], run', log["clf"], rules["clf"].data,
                                                pending["clf"])
  BY <1>1, <1>2 DEF QueuedInv
<1>6. NoDump' => NoDump
  BY <1>3 DEF NoDump, Writing
<1>7. ASSUME NEW t \in Runs
      PROVE  RunQueues(run'[t], run', log["clf"], rules["clf"].data, pending["clf"])
  <2>1. CASE run'[t].phase = "dead"
    BY <2>1 DEF RunQueues
  <2>2. CASE run'[t] = run[t]
    BY <1>3, <1>5, <2>2 DEF QueuedInv, RunQueues
  <2> QED
    BY <1>1, <2>1, <2>2
<1> QED
  BY <1>3, <1>4, <1>5, <1>6, <1>7 DEF QueuedInv

LEMMA StepQueued ==
  ASSUME QueuedInv, [Next]_vars
  PROVE  QueuedInv'
<1>1. TypeOK /\ TornInv'
  BY StepTorn DEF QueuedInv, TornInv
<1>2. CASE (\E p \in Processes : Loads(p)) \/ UNCHANGED vars
  <2>1. UNCHANGED <<log, pending, rules, run, req, clash, torn>>
    BY <1>1, <1>2, LoadsDoes DEF files, vars, history
  <2> QED
    BY <1>1, <2>1 DEF QueuedInv, OnlyRuns, NoDump
<1>3. CASE WriteFails
  <2>1. ~OnlyRuns'
    BY <1>1, <1>3, WriteFailsDoes DEF OnlyRuns
  <2>2. \A t \in Runs : RunOrder(run'[t])
    <3>1. CASE \E t \in Runs : /\ OnlyRun(t) /\ run'[t].kind = "dec"
                              /\ run'[t].phase \in {"queue", "end"}
      BY <3>1 DEF QueuedInv, RunOrder, OnlyRun
    <3>2. CASE run' = run
      BY <3>2 DEF QueuedInv
    <3> QED
      BY <1>1, <1>3, <3>1, <3>2, WriteFailsDoes DEF OnlyReq
  <2> QED
    BY <1>1, <2>1, <2>2 DEF QueuedInv
<1> QED
  BY <1>1, <1>2, <1>3, RunQueued, RequestQueued, RestartQueued, Steps

LEMMA QueuedImplies == QueuedInv => FrequentPatternQueued
<1> SUFFICES ASSUME QueuedInv, NEW t \in Runs, run[t].phase = "end", run[t].asked["clf"], OnlyRuns,
                    \A u \in Runs : run[u].phase \in {"idle", "end"},
                    NEW key \in Keys, NEW label \in Labels \ {None},
                    Cardinality({u \in Runs : /\ KeyOf[u] = key
                                              /\ log["clf"][u].label = label
                                              /\ log["clf"][u].llm
                                              /\ log["clf"][u].qa = "passed"}) >= MinCount
             PROVE  Covered(key, rules["clf"].data) \/ AlreadyPending(key, pending["clf"])
  BY DEF FrequentPatternQueued, OnlyRuns, Book, Entries, Covered, AlreadyPending
<1>1. {u \in Runs : /\ KeyOf[u] = key /\ log["clf"][u].label = label
                    /\ log["clf"][u].llm /\ log["clf"][u].qa = "passed"}
        = Support(log["clf"], key, label)
  BY DEF Support, Verified
<1>2. Frequent(log["clf"], key)
  BY <1>1 DEF Frequent
<1>3. \A u \in Runs : ~Owes(run[u])
  BY DEF QueuedInv, RunOrder, Owes
<1>4. Done(run[t]) /\ NoDump
  BY DEF QueuedInv, RunOrder, Done, NoDump
<1>5. AllSettled(log["clf"], rules["clf"].data, pending["clf"])
  BY <1>3, <1>4 DEF QueuedInv, DoneSettled
<1> QED
  BY <1>2, <1>5 DEF AllSettled

(***************************************************************************)
(* When a run that asked for a classification is over, no other is under   *)
(* way, and no request, clash or failed write came in between, every       *)
(* pattern verified MIN_PROMOTION_COUNT times rules or waits.              *)
(***************************************************************************)
THEOREM FrequentAreQueued == Spec => []FrequentPatternQueued
BY InitQueued, StepQueued, QueuedImplies, PTL DEF Spec
=============================================================================
