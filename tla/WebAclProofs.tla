---------------------------- MODULE WebAclProofs ----------------------------
(***************************************************************************)
(* The properties of the rules of Web ACLs, for any number of callers, Web *)
(* ACLs, rules and calls.  The invariant is the optimistic lock: as long   *)
(* as the token of a read is the current one, the rules read are current.  *)
(***************************************************************************)
EXTENDS WebAclProperties, TLAPS

IInv == TypeOK /\ PrioritiesDistinct /\ OptimisticLock

----------------------------------------------------------------------------
(* Sets of rules.                                                          *)

\* The highest priority of a ranked set is one of its priorities, or 0.
LEMMA MaxPriorityType ==
    ASSUME NEW rules \in SUBSET Rules, Ranked(rules)
    PROVE  /\ MaxPriority(rules) \in Nat
           /\ \A r \in rules : r.priority <= MaxPriority(rules)
<1> DEFINE P(p) == p \in {0} \cup {r.priority : r \in rules} /\ \A r \in rules : r.priority <= p
<1>1. \E p : P(p)
  <2>1. CASE rules = {}
    BY <2>1
  <2>2. CASE rules # {}
    <3>1. PICK top \in rules : \A r \in rules : r.priority <= top.priority
      BY <2>2 DEF Ranked
    <3>2. P(top.priority)
      BY <3>1
    <3> QED BY <3>2
  <2> QED BY <2>1, <2>2
<1>2. P(MaxPriority(rules))
  BY <1>1 DEF MaxPriority
<1> QED BY <1>2 DEF Rules

\* A rule is added above all others.
LEMMA ExtendedRules ==
    ASSUME NEW rules \in SUBSET Rules, NEW n \in RuleNames, Ranked(rules), Distinct(rules)
    PROVE  /\ Extended(rules, n) \in SUBSET Rules
           /\ Ranked(Extended(rules, n)) /\ Distinct(Extended(rules, n))
           /\ Without(Extended(rules, n), n) = Without(rules, n)
<1> DEFINE new == [name |-> n, priority |-> MaxPriority(rules) + 1]
<1>1. /\ new \in Rules
      /\ new.priority \in Nat /\ \A r \in rules : r.priority \in Nat /\ r.priority < new.priority
  <2>1. \A r \in rules : r.priority \in Nat
    BY DEF Rules
  <2> QED BY <2>1, MaxPriorityType DEF Rules
<1>2. Extended(rules, n) = rules \cup {new}
  BY DEF Extended
<1>3. Ranked(Extended(rules, n))
  <2> SUFFICES ASSUME NEW few \in SUBSET (rules \cup {new}), few # {}
               PROVE  \E top \in few : \A r \in few : r.priority <= top.priority
    BY <1>2 DEF Ranked
  <2>1. CASE new \in few
    <3>1. \A r \in few : r.priority <= new.priority
      BY <1>1
    <3> QED BY <2>1, <3>1
  <2>2. CASE new \notin few
    BY <2>2 DEF Ranked
  <2> QED BY <2>1, <2>2
<1>4. Distinct(Extended(rules, n))
  <2> SUFFICES ASSUME NEW r \in rules \cup {new}, NEW s \in rules \cup {new},
                      r.priority = s.priority
               PROVE  r = s
    BY <1>2 DEF Distinct
  <2>1. CASE r \in rules /\ s \in rules
    BY <2>1 DEF Distinct
  <2>2. CASE r \notin rules \/ s \notin rules
    BY <1>1, <2>2
  <2> QED BY <2>1, <2>2
<1>5. Without(Extended(rules, n), n) = Without(rules, n)
  BY <1>2 DEF Without
<1> QED BY <1>1, <1>2, <1>3, <1>4, <1>5

\* Taking rules away leaves the rest as it was.
LEMMA WithoutRules ==
    ASSUME NEW rules \in SUBSET Rules, NEW n, Ranked(rules), Distinct(rules)
    PROVE  /\ Without(rules, n) \in SUBSET Rules
           /\ Ranked(Without(rules, n)) /\ Distinct(Without(rules, n))
           /\ Without(Without(rules, n), n) = Without(rules, n)
BY DEF Without, Ranked, Distinct

----------------------------------------------------------------------------
(* The steps that leave the Web ACLs alone.                                *)

\* A handler that has returned, or is called.
LEMMA NoCallType == NoCall \in CallType /\ Nothing \in SeenType
BY WebAclAssumption DEF NoCall, Nothing, CallType, SeenType, RuleNames

LEMMA InitInvariant == Init => IInv
<1> SUFFICES ASSUME Init PROVE IInv
  OBVIOUS
<1> USE WebAclAssumption
<1>1. \A a \in Acls : /\ acl[a].rules \in SUBSET Rules
                      /\ Ranked(acl[a].rules) /\ Distinct(acl[a].rules)
                      /\ acl[a].live => acl[a].token > 0
  BY DEF Init, Ranked, Distinct
<1>2. acl \in [Acls -> [live : BOOLEAN, token : Nat, rules : SUBSET Rules]]
  <2>1. acl \in [Acls -> [live : BOOLEAN, token : {0, 1}, rules : Given \cup {{}}]]
    BY DEF Init
  <2> QED BY <2>1
<1>3. TypeOK
  <2>1. guardOf \in [Albs -> Acls \cup {NoAcl}] /\ ipSet \in [live : BOOLEAN, token : Nat, addrs : SUBSET Ips]
    BY DEF Init
  <2>2. /\ pc \in [Workers -> Places] /\ tries \in [Workers -> Nat] /\ calls \in Nat
        /\ call \in [Workers -> CallType] /\ seen \in [Workers -> SeenType]
    <3>1. pc \in [Workers -> Places]
      BY DEF Init, Places
    <3>2. tries \in [Workers -> Nat] /\ calls \in Nat
      BY DEF Init
    <3>3. call \in [Workers -> CallType]
      BY NoCallType, Zenon DEF Init
    <3>4. seen \in [Workers -> SeenType]
      BY NoCallType, Zenon DEF Init
    <3> QED BY <3>1, <3>2, <3>3, <3>4
  <2>3. \A w \in Workers : InPlace(call[w].op, pc[w]) /\ HasAcl(w)
    BY DEF Init, InPlace, HasAcl, NoCall
  <2> QED BY <1>2, <2>1, <2>2, <2>3 DEF TypeOK
<1>4. PrioritiesDistinct
  BY <1>1 DEF PrioritiesDistinct
<1>5. OptimisticLock
  BY <1>1 DEF OptimisticLock, Init, At
<1> QED BY <1>3, <1>4, <1>5 DEF IInv

\* What a step of w has to show: its own place, and that the lock of the others holds.
LEMMA WorkerStep ==
    ASSUME NEW w \in Workers, IInv,
           acl' \in [Acls -> [live : BOOLEAN, token : Nat, rules : SUBSET Rules]],
           PrioritiesDistinct',
           \A a \in Acls : (acl'[a].live => acl'[a].token > 0) /\ Ranked(acl'[a].rules),
           guardOf' \in [Albs -> Acls \cup {NoAcl}],
           ipSet' \in [live : BOOLEAN, token : Nat, addrs : SUBSET Ips],
           NEW p \in Places, NEW c \in CallType, NEW s \in SeenType,
           pc' = [pc EXCEPT ![w] = p], call' = [call EXCEPT ![w] = c],
           seen' = [seen EXCEPT ![w] = s],
           tries' \in [Workers -> Nat], calls' \in Nat,
           InPlace(c.op, p), HasAcl(w)',
           p = "update" => TokenIsCurrent(w)',
           \A x \in Workers : x # w /\ At(x, "update") => TokenIsCurrent(x)'
    PROVE  IInv'
<1>1. TypeOK'
  <2>1. \A x \in Workers : InPlace(call[x].op, pc[x])' /\ HasAcl(x)'
    <3> SUFFICES ASSUME NEW x \in Workers PROVE InPlace(call'[x].op, pc'[x]) /\ HasAcl(x)'
      OBVIOUS
    <3>1. CASE x = w
      BY <3>1 DEF IInv, TypeOK
    <3>2. CASE x # w
      BY <3>2 DEF IInv, TypeOK, HasAcl, At
    <3> QED BY <3>1, <3>2
  <2> QED BY <2>1 DEF IInv, TypeOK
<1>2. OptimisticLock'
  <2>1. \A x \in Workers : At(x, "update")' => TokenIsCurrent(x)'
    <3> SUFFICES ASSUME NEW x \in Workers, pc'[x] = "update" PROVE TokenIsCurrent(x)'
      BY DEF At
    <3>1. CASE x = w
      BY <3>1 DEF IInv, TypeOK
    <3>2. CASE x # w
      BY <3>2 DEF IInv, TypeOK, At
    <3> QED BY <3>1, <3>2
  <2> QED BY <2>1 DEF IInv, OptimisticLock
<1> QED BY <1>1, <1>2 DEF IInv

\* The locks of the others hold when no Web ACL changes, and when one is written
\* with a new token or deleted.
LEMMA OthersUnchanged ==
    ASSUME NEW w \in Workers, IInv, UNCHANGED acl,
           NEW c, NEW s, call' = [call EXCEPT ![w] = c], seen' = [seen EXCEPT ![w] = s]
    PROVE  \A x \in Workers : x # w /\ At(x, "update") => TokenIsCurrent(x)'
BY DEF IInv, TypeOK, OptimisticLock, TokenIsCurrent

LEMMA OthersOutdated ==
    ASSUME NEW w \in Workers, IInv, NEW a \in Acls,
           NEW v \in [live : BOOLEAN, token : Nat, rules : SUBSET Rules],
           acl' = [acl EXCEPT ![a] = v],
           v.token > acl[a].token \/ (~v.live /\ v.token = acl[a].token),
           NEW c, NEW s, call' = [call EXCEPT ![w] = c], seen' = [seen EXCEPT ![w] = s]
    PROVE  \A x \in Workers : x # w /\ At(x, "update") => TokenIsCurrent(x)'
<1> SUFFICES ASSUME NEW x \in Workers, x # w, At(x, "update") PROVE TokenIsCurrent(x)'
  OBVIOUS
<1>1. call'[x] = call[x] /\ seen'[x] = seen[x]
  BY DEF IInv, TypeOK
<1>2. TokenIsCurrent(x) /\ call[x].acl \in Acls
  <2>1. call[x].op \in {"apply", "remove", "blacklist"}
    BY DEF IInv, TypeOK, InPlace, At, IpPlaces
  <2> QED BY <2>1 DEF IInv, TypeOK, OptimisticLock, HasAcl
<1>3. acl[call[x].acl].token \in Nat /\ acl[a].token \in Nat /\ seen[x].token \in Nat
  BY <1>2 DEF IInv, TypeOK, SeenType
<1>4. CASE call[x].acl = a
  BY <1>1, <1>2, <1>3, <1>4 DEF TokenIsCurrent, IInv, TypeOK
<1>5. CASE call[x].acl # a
  BY <1>1, <1>2, <1>3, <1>5 DEF TokenIsCurrent, IInv, TypeOK
<1> QED BY <1>4, <1>5

\* A step that leaves every Web ACL as it is.
LEMMA LocalStep ==
    ASSUME NEW w \in Workers, IInv, UNCHANGED acl,
           guardOf' \in [Albs -> Acls \cup {NoAcl}],
           ipSet' \in [live : BOOLEAN, token : Nat, addrs : SUBSET Ips],
           NEW p \in Places, NEW c \in CallType, NEW s \in SeenType,
           pc' = [pc EXCEPT ![w] = p], call' = [call EXCEPT ![w] = c],
           seen' = [seen EXCEPT ![w] = s],
           tries' \in [Workers -> Nat], calls' \in Nat,
           InPlace(c.op, p), HasAcl(w)',
           p = "update" => TokenIsCurrent(w)'
    PROVE  IInv'
<1>1. /\ acl' \in [Acls -> [live : BOOLEAN, token : Nat, rules : SUBSET Rules]]
      /\ PrioritiesDistinct'
      /\ \A a \in Acls : (acl'[a].live => acl'[a].token > 0) /\ Ranked(acl'[a].rules)
  BY DEF IInv, TypeOK, PrioritiesDistinct, OptimisticLock
<1> QED BY <1>1, OthersUnchanged, WorkerStep

\* The handler goes on to its next call to AWS.
LEMMA GoesOn ==
    ASSUME NEW w \in Workers, IInv, UNCHANGED <<acl, call, calls>>,
           guardOf' \in [Albs -> Acls \cup {NoAcl}],
           ipSet' \in [live : BOOLEAN, token : Nat, addrs : SUBSET Ips],
           NEW p \in Places, NEW s \in SeenType,
           pc' = [pc EXCEPT ![w] = p], seen' = [seen EXCEPT ![w] = s],
           tries' \in [Workers -> Nat],
           InPlace(call[w].op, p), p # "create", ~At(w, "create"),
           p = "update" => TokenIsCurrent(w)'
    PROVE  IInv'
<1>1. /\ call[w] \in CallType /\ call' = [call EXCEPT ![w] = call[w]] /\ HasAcl(w)'
      /\ calls' \in Nat
  BY DEF IInv, TypeOK, HasAcl, At
<1> QED BY <1>1, LocalStep

\* The handler returns.
LEMMA EndsStep ==
    ASSUME NEW w \in Workers, IInv, UNCHANGED <<acl, calls>>,
           guardOf' \in [Albs -> Acls \cup {NoAcl}],
           ipSet' \in [live : BOOLEAN, token : Nat, addrs : SUBSET Ips],
           NEW result \in {"success", "failed"}, Ends(w, result)
    PROVE  IInv'
<1> DEFINE c == [NoCall EXCEPT !.status = result]
<1>1. c \in CallType /\ c.op = "none"
  BY NoCallType DEF CallType, NoCall
<1>2. HasAcl(w)'
  BY <1>1 DEF Ends, HasAcl, IInv, TypeOK
<1>3. tries' \in [Workers -> Nat] /\ calls' \in Nat
  BY DEF Ends, IInv, TypeOK
<1>4. /\ pc' = [pc EXCEPT ![w] = "idle"] /\ call' = [call EXCEPT ![w] = c]
      /\ seen' = [seen EXCEPT ![w] = Nothing]
  BY DEF Ends, Goto
<1>5. "idle" \in Places /\ "idle" # "update" /\ InPlace(c.op, "idle")
  BY <1>1 DEF Places, InPlace
<1> QED BY <1>1, <1>2, <1>3, <1>4, <1>5, NoCallType, LocalStep

\* A handler is called.
LEMMA BeginStep ==
    ASSUME NEW w \in Workers, IInv, NEW c \in CallType, NEW p \in Places, Begin(w, c, p),
           InPlace(c.op, p), p # "update",
           c.op \in {"apply", "remove", "blacklist"} => c.acl \in Acls,
           c.op = "create" => p = "create"
    PROVE  IInv'
<1>1. HasAcl(w)'
  BY DEF Begin, Goto, HasAcl, At, IInv, TypeOK
<1>2. /\ guardOf' \in [Albs -> Acls \cup {NoAcl}] /\ acl' = acl
      /\ ipSet' \in [live : BOOLEAN, token : Nat, addrs : SUBSET Ips]
      /\ tries' \in [Workers -> Nat] /\ calls' \in Nat
  BY DEF Begin, IInv, TypeOK
<1>3. /\ pc' = [pc EXCEPT ![w] = p] /\ call' = [call EXCEPT ![w] = c]
      /\ seen' = [seen EXCEPT ![w] = Nothing]
  BY DEF Begin, Goto
<1> QED BY <1>1, <1>2, <1>3, NoCallType, LocalStep

LEMMA CallsStep == ASSUME NEW w \in Workers, IInv, Calls(w) PROVE IInv'
<1>1. CASE \E n \in Names, b \in Albs : ApplyRule(w, n, b)
  <2> PICK n \in Names, b \in Albs : ApplyRule(w, n, b)
    BY <1>1
  <2>1. CASE \E a \in Acls : acl[a].live /\ Begin(w, [NoCall EXCEPT !.op = "apply", !.rule = n,
                                                 !.alb = b, !.acl = a], "get")
    <3> PICK a \in Acls : Begin(w, [NoCall EXCEPT !.op = "apply", !.rule = n,
                                                 !.alb = b, !.acl = a], "get")
      BY <2>1
    <3> DEFINE c == [NoCall EXCEPT !.op = "apply", !.rule = n, !.alb = b, !.acl = a]
    <3>1. c \in CallType /\ c.op = "apply" /\ c.acl = a
      BY NoCallType DEF CallType, NoCall, RuleNames
    <3>2. "get" \in Places /\ InPlace(c.op, "get")
      BY <3>1 DEF Places, InPlace
    <3> QED BY <3>1, <3>2, BeginStep
  <2>2. CASE Begin(w, [NoCall EXCEPT !.op = "create", !.rule = n, !.alb = b], "create")
    <3> DEFINE c == [NoCall EXCEPT !.op = "create", !.rule = n, !.alb = b]
    <3>1. c \in CallType /\ c.op = "create"
      BY NoCallType DEF CallType, NoCall, RuleNames
    <3>2. "create" \in Places /\ InPlace(c.op, "create")
      BY <3>1 DEF Places, InPlace
    <3> QED BY <2>2, <3>1, <3>2, BeginStep
  <2> QED BY <2>1, <2>2 DEF ApplyRule
<1>2. CASE \E n \in Names, a \in Acls, purge \in BOOLEAN : RemoveRule(w, n, a, purge)
  <2> PICK n \in Names, a \in Acls, purge \in BOOLEAN : RemoveRule(w, n, a, purge)
    BY <1>2
  <2> DEFINE c == [NoCall EXCEPT !.op = "remove", !.rule = n, !.acl = a, !.purge = purge]
  <2>1. c \in CallType /\ c.op = "remove" /\ c.acl = a
    BY NoCallType DEF CallType, NoCall, RuleNames
  <2>2. "get" \in Places /\ InPlace(c.op, "get")
    BY <2>1 DEF Places, InPlace
  <2> QED BY <2>1, <2>2, BeginStep DEF RemoveRule
<1>3. CASE \E a \in Acls : ApplyBlacklist(w, a)
  <2> PICK a \in Acls : ApplyBlacklist(w, a)
    BY <1>3
  <2> DEFINE c == [NoCall EXCEPT !.op = "blacklist", !.acl = a]
  <2>1. c \in CallType /\ c.op = "blacklist" /\ c.acl = a
    BY NoCallType DEF CallType, NoCall
  <2>2. "listIpSets" \in Places /\ InPlace(c.op, "listIpSets")
    BY <2>1 DEF Places, InPlace, IpPlaces
  <2> QED BY <2>1, <2>2, BeginStep DEF ApplyBlacklist
<1>4. CASE \E i \in Ips : AddIp(w, i) \/ RemoveIp(w, i)
  <2> PICK i \in Ips : AddIp(w, i) \/ RemoveIp(w, i)
    BY <1>4
  <2> PICK op \in {"addIp", "removeIp"} :
        Begin(w, [NoCall EXCEPT !.op = op, !.ip = i], "listIpSets")
    BY DEF AddIp, RemoveIp
  <2> DEFINE c == [NoCall EXCEPT !.op = op, !.ip = i]
  <2>1. c \in CallType /\ c.op \in {"addIp", "removeIp"}
    BY NoCallType DEF CallType, NoCall
  <2>2. "listIpSets" \in Places /\ InPlace(c.op, "listIpSets")
    BY <2>1 DEF Places, InPlace, IpPlaces
  <2> QED BY <2>1, <2>2, BeginStep
<1> QED BY <1>1, <1>2, <1>3, <1>4 DEF Calls

----------------------------------------------------------------------------
(* The steps that read Web ACLs, associate them, or edit the blacklist.    *)

\* Nothing but the place changes.
LEMMA Moves ==
    ASSUME NEW w \in Workers, IInv, UNCHANGED <<acl, call, calls, ipSet, seen>>,
           guardOf' \in [Albs -> Acls \cup {NoAcl}], tries' \in [Workers -> Nat],
           NEW p \in Places \ {"update", "create"}, Goto(w, p),
           InPlace(call[w].op, p), ~At(w, "create")
    PROVE  IInv'
<1>1. seen[w] \in SeenType /\ seen' = [seen EXCEPT ![w] = seen[w]]
  BY DEF IInv, TypeOK
<1>2. ipSet' \in [live : BOOLEAN, token : Nat, addrs : SUBSET Ips]
  BY DEF IInv, TypeOK
<1> QED BY <1>1, <1>2, GoesOn DEF Goto

LEMMA GetWebAclStep == ASSUME NEW w \in Workers, IInv, GetWebAcl(w) PROVE IInv'
<1>1. CASE Ends(w, "success")
  BY <1>1, EndsStep DEF GetWebAcl, IInv, TypeOK
<1>2. CASE ReadsAcl(w) /\ ~Ends(w, "success")
  <2> DEFINE a == call[w].acl
             s == [seen[w] EXCEPT !.token = acl[a].token, !.rules = acl[a].rules]
  <2>1. call[w].op \in {"apply", "remove", "blacklist"} /\ a \in Acls /\ ~At(w, "create")
    BY DEF GetWebAcl, At, IInv, TypeOK, InPlace, IpPlaces, HasAcl
  <2>2. s \in SeenType /\ seen' = [seen EXCEPT ![w] = s]
    BY <1>2, <2>1 DEF ReadsAcl, IInv, TypeOK, SeenType
  <2>3. PICK p \in {"listResources", "update"} :
             /\ pc' = [pc EXCEPT ![w] = p] /\ UNCHANGED <<call, tries>>
             /\ p = "listResources" => call[w].op = "remove"
    BY <1>2 DEF GetWebAcl, Goto
  <2>4. p \in Places /\ InPlace(call[w].op, p) /\ p # "create"
    BY <2>1, <2>3 DEF Places, InPlace, IpPlaces
  <2>5. TokenIsCurrent(w)'
    <3>1. acl[a].live /\ acl[a].token > 0 /\ acl[a].token \in Nat
      BY <2>1 DEF GetWebAcl, IInv, TypeOK, OptimisticLock
    <3>2. seen'[w].token = acl[a].token /\ seen'[w].rules = acl[a].rules
      BY <2>2 DEF IInv, TypeOK, SeenType
    <3> QED BY <2>3, <3>1, <3>2 DEF TokenIsCurrent, GetWebAcl
  <2> QED BY <2>1, <2>2, <2>3, <2>4, <2>5, GoesOn DEF GetWebAcl, IInv, TypeOK
<1> QED BY <1>1, <1>2 DEF GetWebAcl

LEMMA UpdateRefusedStep == ASSUME NEW w \in Workers, IInv, UpdateRefused(w) PROVE IInv'
<1>1. CASE Ends(w, "failed")
  BY <1>1, EndsStep DEF UpdateRefused, IInv, TypeOK
<1>2. CASE ~Ends(w, "failed")
  <2>1. /\ call[w].op \in {"apply", "remove"} /\ Goto(w, "get")
        /\ tries' \in [Workers -> Nat] /\ ~At(w, "create")
    BY <1>2 DEF UpdateRefused, IInv, TypeOK, At
  <2>2. "get" \in Places \ {"update", "create"} /\ InPlace(call[w].op, "get")
    BY <2>1 DEF Places, InPlace
  <2> QED BY <1>2, <2>1, <2>2, Moves DEF UpdateRefused, IInv, TypeOK
<1> QED BY <1>1, <1>2

LEMMA ListGuardedStep == ASSUME NEW w \in Workers, IInv, ListGuarded(w) PROVE IInv'
<1>1. CASE Ends(w, "success")
  BY <1>1, EndsStep DEF ListGuarded, IInv, TypeOK
<1>2. CASE ~Ends(w, "success")
  <2>1. /\ call[w].op = "apply" /\ Goto(w, "associate")
        /\ tries' \in [Workers -> Nat] /\ ~At(w, "create")
    BY <1>2 DEF ListGuarded, IInv, TypeOK, At, InPlace, IpPlaces
  <2>2. "associate" \in Places \ {"update", "create"} /\ InPlace(call[w].op, "associate")
    BY <2>1 DEF Places, InPlace
  <2> QED BY <1>2, <2>1, <2>2, Moves DEF ListGuarded, IInv, TypeOK
<1> QED BY <1>1, <1>2

LEMMA AssociateStep ==
    ASSUME NEW w \in Workers, IInv, Associate(w) \/ AlbUnknown(w) PROVE IInv'
<1>1. CASE Associate(w)
  <2>1. guardOf' \in [Albs -> Acls \cup {NoAcl}]
    BY <1>1 DEF Associate, IInv, TypeOK, CallType
  <2> QED BY <1>1, <2>1, EndsStep DEF Associate, IInv, TypeOK
<1>2. CASE AlbUnknown(w)
  <2>1. /\ pc' = [pc EXCEPT ![w] = "associate"] /\ tries' \in [Workers -> Nat]
        /\ InPlace(call[w].op, "associate") /\ ~At(w, "create")
    BY <1>2 DEF AlbUnknown, At, IInv, TypeOK
  <2>2. "associate" \in Places \ {"update", "create"}
    BY DEF Places
  <2> QED BY <1>2, <2>1, <2>2, Moves DEF AlbUnknown, Goto, IInv, TypeOK
<1> QED BY <1>1, <1>2

LEMMA GetForCleanupStep == ASSUME NEW w \in Workers, IInv, GetForCleanup(w) PROVE IInv'
<1> DEFINE a == call[w].acl
           s == [seen[w] EXCEPT !.token = acl[a].token, !.rules = acl[a].rules]
<1>1. call[w].op = "create" /\ a \in Acls /\ ~At(w, "create")
  BY DEF GetForCleanup, At, IInv, TypeOK, InPlace, IpPlaces, HasAcl
<1>2. s \in SeenType /\ seen' = [seen EXCEPT ![w] = s]
  BY <1>1 DEF GetForCleanup, ReadsAcl, IInv, TypeOK, SeenType
<1>3. "cleanup" \in Places /\ InPlace(call[w].op, "cleanup")
  BY <1>1 DEF Places, InPlace
<1> QED BY <1>1, <1>2, <1>3, GoesOn DEF GetForCleanup, Goto, IInv, TypeOK

LEMMA ResourcesStep ==
    ASSUME NEW w \in Workers, IInv, ListResources(w) \/ Disassociate(w) PROVE IInv'
<1>1. call[w].op = "remove" /\ ~At(w, "create")
  BY DEF ListResources, Disassociate, At, IInv, TypeOK, InPlace, IpPlaces
<1>2. \A p \in {"delete", "disassociate"} : p \in Places /\ InPlace(call[w].op, p)
  BY <1>1 DEF Places, InPlace
<1>3. CASE ListResources(w)
  <2> DEFINE s == [seen[w] EXCEPT !.albs = Guarded(call[w].acl)]
  <2>1. s \in SeenType /\ seen' = [seen EXCEPT ![w] = s]
    BY <1>3 DEF ListResources, Guarded, IInv, TypeOK, SeenType
  <2>2. PICK p \in {"delete", "disassociate"} : pc' = [pc EXCEPT ![w] = p]
    BY <1>3 DEF ListResources, Goto
  <2> QED BY <1>1, <1>2, <1>3, <2>1, <2>2, GoesOn DEF ListResources, IInv, TypeOK
<1>4. CASE Disassociate(w)
  <2> PICK b \in seen[w].albs :
        /\ guardOf' = [guardOf EXCEPT ![b] = NoAcl]
        /\ seen' = [seen EXCEPT ![w].albs = @ \ {b}]
        /\ Goto(w, IF seen[w].albs = {b} THEN "delete" ELSE "disassociate")
    BY <1>4 DEF Disassociate
  <2> DEFINE s == [seen[w] EXCEPT !.albs = @ \ {b}]
  <2>1. s \in SeenType /\ seen' = [seen EXCEPT ![w] = s]
    BY DEF IInv, TypeOK, SeenType
  <2>2. guardOf' \in [Albs -> Acls \cup {NoAcl}]
    BY DEF IInv, TypeOK
  <2>3. PICK p \in {"delete", "disassociate"} : pc' = [pc EXCEPT ![w] = p]
    BY DEF Goto
  <2> QED BY <1>1, <1>2, <1>4, <2>1, <2>2, <2>3, GoesOn DEF Disassociate, IInv, TypeOK
<1> QED BY <1>3, <1>4

LEMMA HasAddressesStep ==
    ASSUME NEW w \in Workers, IInv, UNCHANGED <<acl, guardOf, calls>>,
           ipSet' \in [live : BOOLEAN, token : Nat, addrs : SUBSET Ips],
           NEW addrs \in SUBSET Ips, pc[w] \in IpPlaces, HasAddresses(w, addrs)
    PROVE  IInv'
<1>1. CASE Ends(w, "success")
  BY <1>1, EndsStep DEF IInv, TypeOK
<1>2. CASE ~Ends(w, "success")
  <2> DEFINE s == [seen[w] EXCEPT !.addrs = addrs]
             p == IF call[w].op = "blacklist" THEN "get" ELSE "getLockToken"
  <2>1. /\ seen' = [seen EXCEPT ![w].addrs = addrs] /\ UNCHANGED <<call, tries>>
        /\ pc' = [pc EXCEPT ![w] = p]
    BY <1>2, Zenon DEF HasAddresses, Goto
  <2>4. seen' = [seen EXCEPT ![w] = s] /\ s \in SeenType
    BY <2>1 DEF IInv, TypeOK, SeenType
  <2>2. call[w].op \in {"blacklist", "addIp", "removeIp"} /\ ~At(w, "create")
    BY DEF IInv, TypeOK, InPlace, IpPlaces, At
  <2>3. p \in Places \ {"update", "create"} /\ InPlace(call[w].op, p)
    BY <2>2 DEF Places, InPlace
  <2> QED BY <2>1, <2>2, <2>3, <2>4, GoesOn DEF IInv, TypeOK
<1> QED BY <1>1, <1>2

LEMMA IpSetStep ==
    ASSUME NEW w \in Workers, IInv,
           ListIpSets(w) \/ GetIpSet(w) \/ CreateIpSet(w) \/ GetLockToken(w) \/ UpdateIpSet(w)
    PROVE  IInv'
<1>1. CASE ListIpSets(w)
  <2>1. PICK p \in {"getIpSet", "createIpSet"} : Goto(w, p)
    BY <1>1 DEF ListIpSets
  <2>2. call[w].op \in {"blacklist", "addIp", "removeIp"} /\ ~At(w, "create")
    BY <1>1 DEF ListIpSets, IInv, TypeOK, InPlace, IpPlaces, At
  <2>3. p \in Places \ {"update", "create"} /\ InPlace(call[w].op, p)
    BY <2>2 DEF Places, InPlace, IpPlaces
  <2> QED BY <1>1, <2>1, <2>2, <2>3, Moves DEF ListIpSets, IInv, TypeOK
<1>2. CASE GetIpSet(w)
  <2>1. ipSet.addrs \in SUBSET Ips /\ pc[w] \in IpPlaces
    BY <1>2 DEF GetIpSet, At, IpPlaces, IInv, TypeOK
  <2> QED BY <1>2, <2>1, HasAddressesStep DEF GetIpSet, IInv, TypeOK
<1>3. CASE CreateIpSet(w)
  <2>1. pc[w] \in IpPlaces /\ ipSet' \in [live : BOOLEAN, token : Nat, addrs : SUBSET Ips]
    BY <1>3 DEF CreateIpSet, At, IpPlaces
  <2> QED BY <1>3, <2>1, HasAddressesStep DEF CreateIpSet
<1>4. CASE GetLockToken(w)
  <2> DEFINE s == [seen[w] EXCEPT !.token = ipSet.token]
  <2>1. s \in SeenType /\ seen' = [seen EXCEPT ![w] = s]
    BY <1>4 DEF GetLockToken, IInv, TypeOK, SeenType
  <2>2. call[w].op \in {"addIp", "removeIp"} /\ ~At(w, "create")
    BY <1>4 DEF GetLockToken, IInv, TypeOK, InPlace, IpPlaces, At
  <2>3. "updateIpSet" \in Places /\ InPlace(call[w].op, "updateIpSet")
    BY <2>2 DEF Places, InPlace
  <2> QED BY <1>4, <2>1, <2>2, <2>3, GoesOn DEF GetLockToken, Goto, IInv, TypeOK
<1>5. CASE UpdateIpSet(w)
  <2>1. call[w].ip \in Ips /\ seen[w].addrs \in SUBSET Ips
    BY DEF IInv, TypeOK, CallType, SeenType
  <2>3. UpdatedAddresses(w) \in SUBSET Ips
    BY <2>1 DEF UpdatedAddresses
  <2>4. ipSet' = [ipSet EXCEPT !.addrs = UpdatedAddresses(w), !.token = @ + 1]
    BY <1>5 DEF UpdateIpSet
  <2>2. ipSet' \in [live : BOOLEAN, token : Nat, addrs : SUBSET Ips]
    <3>1. ipSet \in [live : BOOLEAN, token : Nat, addrs : SUBSET Ips]
      BY DEF IInv, TypeOK
    <3>2. ipSet' = [live |-> ipSet.live, token |-> ipSet.token + 1, addrs |-> UpdatedAddresses(w)]
      BY <2>4, <3>1
    <3>3. ipSet.live \in BOOLEAN /\ ipSet.token + 1 \in Nat
      BY <3>1
    <3> QED BY <2>3, <3>2, <3>3
  <2> QED BY <1>5, <2>2, EndsStep DEF UpdateIpSet, IInv, TypeOK
<1> QED BY <1>1, <1>2, <1>3, <1>4, <1>5

LEMMA ClientErrorStep == ASSUME NEW w \in Workers, IInv, ClientError(w) PROVE IInv'
<1>1. CASE \E result \in {"success", "failed"} : Ends(w, result)
  BY <1>1, EndsStep DEF ClientError, IInv, TypeOK
<1>2. CASE ~\E result \in {"success", "failed"} : Ends(w, result)
  <2>1. /\ pc[w] \in Swallowed /\ call[w].op # "apply" /\ UNCHANGED <<call, seen, tries>>
        /\ Goto(w, IF call[w].op = "create" THEN "getForCleanup" ELSE "delete")
    BY <1>2 DEF ClientError
  <2>2. call[w].op \in {"create", "remove"} /\ ~At(w, "create")
    BY <2>1 DEF IInv, TypeOK, InPlace, IpPlaces, At, Swallowed
  <2>3. PICK p \in Places \ {"update", "create"} : Goto(w, p) /\ InPlace(call[w].op, p)
    BY <2>1, <2>2 DEF Places, InPlace
  <2> QED BY <2>1, <2>2, <2>3, Moves DEF ClientError, IInv, TypeOK
<1> QED BY <1>1, <1>2

----------------------------------------------------------------------------
(* The steps that write a Web ACL.                                         *)

AclType == [live : BOOLEAN, token : Nat, rules : SUBSET Rules]

\* A Web ACL is written: with a new token, or to delete it.
LEMMA WriteStep ==
    ASSUME NEW w \in Workers, IInv, NEW a \in Acls, NEW v \in AclType,
           acl' = [acl EXCEPT ![a] = v],
           v.token > acl[a].token \/ (~v.live /\ v.token = acl[a].token),
           v.live => v.token > 0, Ranked(v.rules), Distinct(v.rules),
           UNCHANGED <<guardOf, ipSet, calls>>,
           NEW p \in Places \ {"update"}, NEW c \in CallType, NEW s \in SeenType,
           pc' = [pc EXCEPT ![w] = p], call' = [call EXCEPT ![w] = c],
           seen' = [seen EXCEPT ![w] = s], tries' \in [Workers -> Nat],
           InPlace(c.op, p), HasAcl(w)'
    PROVE  IInv'
<1>1. acl' \in [Acls -> [live : BOOLEAN, token : Nat, rules : SUBSET Rules]]
  BY DEF IInv, TypeOK, AclType
<1>2. /\ PrioritiesDistinct'
      /\ \A b \in Acls : (acl'[b].live => acl'[b].token > 0) /\ Ranked(acl'[b].rules)
  BY DEF IInv, TypeOK, PrioritiesDistinct, OptimisticLock
<1>3. \A x \in Workers : x # w /\ At(x, "update") => TokenIsCurrent(x)'
  BY OthersOutdated DEF AclType
<1> QED BY <1>1, <1>2, <1>3, WorkerStep DEF IInv, TypeOK

\* The lock: what is written is the current rules and the handler's own rule.
LEMMA WrittenRules ==
    ASSUME NEW w \in Workers, IInv, UpdateWebAcl(w)
    PROVE  LET a == call[w].acl IN
           /\ a \in Acls /\ UpdatedRules(w) \in SUBSET Rules
           /\ Ranked(UpdatedRules(w)) /\ Distinct(UpdatedRules(w))
           /\ Without(UpdatedRules(w), call[w].rule) = Without(acl[a].rules, call[w].rule)
<1> DEFINE a == call[w].acl
           rules == acl[a].rules
<1>1. a \in Acls /\ call[w].rule \in RuleNames
  BY DEF UpdateWebAcl, At, IInv, TypeOK, InPlace, IpPlaces, HasAcl, CallType
<1>2. rules \in SUBSET Rules /\ Ranked(rules) /\ Distinct(rules)
  BY <1>1 DEF IInv, TypeOK, OptimisticLock, PrioritiesDistinct
<1>3. seen[w].rules = rules
  BY DEF UpdateWebAcl, LockToken, IInv, OptimisticLock, TokenIsCurrent
<1>4. UpdatedRules(w) = Without(rules, call[w].rule) \/ UpdatedRules(w) = Extended(rules, call[w].rule)
  BY <1>3 DEF UpdatedRules
<1> QED BY <1>1, <1>2, <1>4, WithoutRules, ExtendedRules

LEMMA UpdateWebAclStep == ASSUME NEW w \in Workers, IInv, UpdateWebAcl(w) PROVE IInv'
<1> DEFINE a == call[w].acl
           v == [live |-> acl[a].live, token |-> acl[a].token + 1, rules |-> UpdatedRules(w)]
<1>1. /\ a \in Acls /\ UpdatedRules(w) \in SUBSET Rules
      /\ Ranked(UpdatedRules(w)) /\ Distinct(UpdatedRules(w))
  BY WrittenRules
<1>2. acl[a] \in AclType
  BY <1>1 DEF IInv, TypeOK, AclType
<1>3. /\ v \in AclType /\ acl' = [acl EXCEPT ![a] = v] /\ v.rules = UpdatedRules(w)
      /\ v.token > acl[a].token /\ v.token > 0
  <2>1. acl' = [acl EXCEPT ![a].rules = UpdatedRules(w), ![a].token = @ + 1]
    BY DEF UpdateWebAcl
  <2>3. acl[a].live \in BOOLEAN /\ acl[a].token \in Nat
    BY <1>2 DEF AclType
  <2>2. v \in AclType /\ v.rules = UpdatedRules(w) /\ v.token = acl[a].token + 1
    BY <1>1, <2>3 DEF AclType
  <2>4. acl' = [acl EXCEPT ![a] = v]
    BY <1>1, <2>1 DEF IInv, TypeOK
  <2> QED BY <2>2, <2>3, <2>4
<1>6. UNCHANGED <<guardOf, ipSet, calls>>
  BY DEF UpdateWebAcl
<1>4. CASE call[w].op = "apply"
  <2>1. /\ pc' = [pc EXCEPT ![w] = "listGuarded"] /\ UNCHANGED <<call, seen, tries>>
        /\ call' = [call EXCEPT ![w] = call[w]] /\ seen' = [seen EXCEPT ![w] = seen[w]]
        /\ call[w] \in CallType /\ seen[w] \in SeenType /\ tries' \in [Workers -> Nat]
    BY <1>4 DEF UpdateWebAcl, Goto, IInv, TypeOK
  <2>2. "listGuarded" \in Places \ {"update"} /\ InPlace(call[w].op, "listGuarded") /\ HasAcl(w)'
    BY <1>1, <1>4, <2>1 DEF Places, InPlace, HasAcl
  <2> QED BY <1>1, <1>3, <1>6, <2>1, <2>2, WriteStep
<1>5. CASE Ends(w, "success")
  <2> DEFINE c == [NoCall EXCEPT !.status = "success"]
  <2>1. c \in CallType /\ c.op = "none" /\ Nothing \in SeenType
    BY NoCallType DEF CallType, NoCall
  <2>2. /\ pc' = [pc EXCEPT ![w] = "idle"] /\ call' = [call EXCEPT ![w] = c]
        /\ seen' = [seen EXCEPT ![w] = Nothing] /\ tries' \in [Workers -> Nat]
    BY <1>5 DEF Ends, Goto, IInv, TypeOK
  <2>3. "idle" \in Places \ {"update"} /\ InPlace(c.op, "idle") /\ HasAcl(w)'
    BY <2>1, <2>2 DEF Places, InPlace, HasAcl, IInv, TypeOK
  <2> QED BY <1>1, <1>3, <1>6, <2>1, <2>2, <2>3, WriteStep
<1> QED BY <1>4, <1>5 DEF UpdateWebAcl

LEMMA CreateWebAclStep == ASSUME NEW w \in Workers, IInv, CreateWebAcl(w) PROVE IInv'
<1> PICK a \in Acls :
      /\ acl[a].token = 0
      /\ acl' = [acl EXCEPT ![a] = [live |-> TRUE, token |-> 1,
                                   rules |-> {[name |-> call[w].rule, priority |-> 0]}]]
      /\ call' = [call EXCEPT ![w].acl = a]
  BY DEF CreateWebAcl
<1> DEFINE rule == [name |-> call[w].rule, priority |-> 0]
           v == [live |-> TRUE, token |-> 1, rules |-> {rule}]
           c == [call[w] EXCEPT !.acl = a]
<1>1. call[w] \in CallType /\ call[w].op = "create"
  BY DEF CreateWebAcl, At, IInv, TypeOK, InPlace, IpPlaces
<1>2. v \in AclType /\ v.token > acl[a].token /\ v.token > 0
  BY <1>1 DEF AclType, Rules, CallType
<1>3. Ranked(v.rules) /\ Distinct(v.rules)
  BY DEF Ranked, Distinct
<1>4. /\ c \in CallType /\ c.op = "create" /\ c.acl = a
      /\ call' = [call EXCEPT ![w] = c] /\ call'[w] = c
  BY <1>1 DEF CallType, IInv, TypeOK
<1>5. "associate" \in Places \ {"update"} /\ InPlace(c.op, "associate") /\ HasAcl(w)'
  BY <1>4 DEF Places, InPlace, HasAcl
<1>6. seen[w] \in SeenType /\ seen' = [seen EXCEPT ![w] = seen[w]] /\ tries' \in [Workers -> Nat]
  BY DEF CreateWebAcl, IInv, TypeOK
<1> QED BY <1>2, <1>3, <1>4, <1>5, <1>6, WriteStep DEF CreateWebAcl, Goto

LEMMA DeleteStep ==
    ASSUME NEW w \in Workers, IInv, Cleanup(w) \/ DeleteWebAcl(w) PROVE IInv'
<1> DEFINE a == call[w].acl
           v == [acl[a] EXCEPT !.live = FALSE, !.rules = {}]
<1>1. a \in Acls /\ acl[a] \in AclType
  BY DEF Cleanup, DeleteWebAcl, At, IInv, TypeOK, InPlace, IpPlaces, HasAcl, AclType
<1>2. /\ v \in AclType /\ ~v.live /\ v.token = acl[a].token /\ v.rules = {}
      /\ acl' = [acl EXCEPT ![a] = v]
  BY <1>1 DEF Cleanup, DeleteWebAcl, Deletes, AclType
<1>3. Ranked({}) /\ Distinct({})
  BY DEF Ranked, Distinct
<1> PICK result \in {"success", "failed"} : Ends(w, result)
  BY DEF Cleanup, DeleteWebAcl
<1> DEFINE c == [NoCall EXCEPT !.status = result]
<1>4. c \in CallType /\ c.op = "none" /\ Nothing \in SeenType
  BY NoCallType DEF CallType, NoCall
<1>5. /\ pc' = [pc EXCEPT ![w] = "idle"] /\ call' = [call EXCEPT ![w] = c]
      /\ seen' = [seen EXCEPT ![w] = Nothing] /\ tries' \in [Workers -> Nat]
  BY DEF Ends, Goto, IInv, TypeOK
<1>6. "idle" \in Places \ {"update"} /\ InPlace(c.op, "idle") /\ HasAcl(w)'
  BY <1>4, <1>5 DEF Places, InPlace, HasAcl, IInv, TypeOK
<1> QED BY <1>1, <1>2, <1>3, <1>4, <1>5, <1>6, WriteStep DEF Cleanup, DeleteWebAcl

----------------------------------------------------------------------------
(* The theorems.                                                           *)

LEMMA StepsStep == ASSUME NEW w \in Workers, IInv, Steps(w) PROVE IInv'
BY GetWebAclStep, UpdateWebAclStep, UpdateRefusedStep, CreateWebAclStep, ListGuardedStep,
   AssociateStep, GetForCleanupStep, DeleteStep, ResourcesStep, IpSetStep, ClientErrorStep
   DEF Steps

\* The optimistic lock and what rests on it hold in every reachable state
\* (inbound_handlers.py:177-240, 710-769).
THEOREM LockHolds == Spec => []IInv
<1>1. IInv /\ [Next]_vars => IInv'
  <2> SUFFICES ASSUME IInv, [Next]_vars PROVE IInv'
    OBVIOUS
  <2>1. CASE Next
    BY <2>1, CallsStep, StepsStep DEF Next
  <2>2. CASE UNCHANGED vars
    BY <2>2 DEF vars, IInv, TypeOK, PrioritiesDistinct, OptimisticLock, TokenIsCurrent, HasAcl, At
  <2> QED BY <2>1, <2>2
<1> QED BY <1>1, InitInvariant, PTL DEF Spec

\* For any number of callers no two rules of a Web ACL share a priority.
THEOREM PrioritiesStayDistinct == Spec => [](TypeOK /\ PrioritiesDistinct)
BY LockHolds, PTL DEF IInv

\* For any number of callers no edit of a Web ACL undoes the edit of another.
THEOREM NoLostRule == Spec => OwnRuleOnly
<1> DEFINE Own == \A w \in Workers, a \in Acls :
            (acl[a].live /\ acl'[a].live /\ pc'[w] # pc[w]) =>
                Without(acl'[a].rules, call[w].rule) = Without(acl[a].rules, call[w].rule)
<1>1. IInv /\ [Next]_vars => [Own]_vars
  <2> SUFFICES ASSUME IInv, Next, NEW w \in Workers, NEW a \in Acls,
                      acl[a].live, acl'[a].live, pc'[w] # pc[w]
               PROVE  Without(acl'[a].rules, call[w].rule) = Without(acl[a].rules, call[w].rule)
    OBVIOUS
  <2> PICK x \in Workers : Calls(x) \/ Steps(x)
    BY DEF Next
  <2>1. CASE acl' = acl
    BY <2>1
  <2>2. CASE UpdateWebAcl(x)
    <3>1. x = w
      BY <2>2 DEF UpdateWebAcl, Ends, Goto, IInv, TypeOK
    <3>2. CASE a = call[w].acl
      <4>1. acl'[a].rules = UpdatedRules(w)
        BY <2>2, <3>1, <3>2 DEF UpdateWebAcl, IInv, TypeOK
      <4> QED BY <2>2, <3>1, <3>2, <4>1, WrittenRules
    <3>3. CASE a # call[w].acl
      BY <2>2, <3>1, <3>3 DEF UpdateWebAcl, IInv, TypeOK
    <3> QED BY <3>2, <3>3
  <2>3. CASE CreateWebAcl(x)
    BY <2>3 DEF CreateWebAcl, IInv, TypeOK, OptimisticLock
  <2>4. CASE Cleanup(x) \/ DeleteWebAcl(x)
    BY <2>4 DEF Cleanup, DeleteWebAcl, Deletes, IInv, TypeOK
  <2>5. CASE ~(UpdateWebAcl(x) \/ CreateWebAcl(x) \/ Cleanup(x) \/ DeleteWebAcl(x) \/ acl' = acl)
    BY <2>5 DEF Calls, Steps, ApplyRule, RemoveRule, ApplyBlacklist, AddIp, RemoveIp, Begin,
       GetWebAcl, UpdateRefused, ListGuarded, Associate, AlbUnknown, GetForCleanup,
       ListResources, Disassociate, ListIpSets, GetIpSet, CreateIpSet, GetLockToken,
       UpdateIpSet, ClientError
  <2> QED BY <2>1, <2>2, <2>3, <2>4, <2>5
<1> QED BY <1>1, LockHolds, PTL DEF Spec, OwnRuleOnly
=============================================================================
