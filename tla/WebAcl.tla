------------------------------- MODULE WebAcl -------------------------------
(***************************************************************************)
(* The WAF calls of pipeline/inbound_handlers.py: rate rules and the       *)
(* blacklist rule on Web ACLs, and the addresses of the blacklist itself.  *)
(* AWS WAF has no partial update: a call reads all the rules (or all the   *)
(* addresses) with a LockToken and writes them back, and the write is      *)
(* refused when the token is no longer the current one.  Any call to AWS   *)
(* may raise a ClientError.  dry_run calls and limits under 100 return     *)
(* before the first call to AWS and are left out.                          *)
(***************************************************************************)
EXTENDS Naturals, FiniteSets

CONSTANTS Workers,   \* processes and threads that call the handlers
          Albs,      \* load balancers
          Acls,      \* Web ACLs, those not created yet included
          Existing,  \* the Web ACLs an administrator made
          Given,     \* the sets of rules they may come with
          Names,     \* names of rate rules
          Blacklist, \* the rule "ip-blacklist-block"
          Ips,       \* addresses
          NoAcl,     \* stands for "no Web ACL"
          MaxRetry,     \* MAX_WAF_RETRY
          MaxAssociate, \* WAF_ASSOCIATION_MAX_RETRY
          MaxCalls      \* bound: handler calls begun

RuleNames == Names \cup {Blacklist}
Rules     == [name : RuleNames, priority : Nat]

\* Every set of these rules has one of the highest priority, as finite sets have.
Ranked(rules) ==
    \A few \in SUBSET rules :
        few # {} => \E top \in few : \A r \in few : r.priority <= top.priority

Distinct(rules) == \A r, s \in rules : r.priority = s.priority => r = s

ASSUME WebAclAssumption ==
    /\ Existing \subseteq Acls /\ NoAcl \notin Acls /\ Blacklist \notin Names
    /\ Albs # {} /\ Ips # {}
    /\ Given \subseteq SUBSET Rules /\ \A rules \in Given : Ranked(rules) /\ Distinct(rules)
    /\ MaxRetry \in Nat /\ MaxAssociate \in Nat /\ MaxCalls \in Nat

VARIABLES
    acl,     \* acl[a]: the Web ACL as AWS has it; token 0: never created
    guardOf, \* guardOf[b]: the Web ACL associated with load balancer b
    ipSet,   \* the IP set of the blacklist as AWS has it
    pc,      \* pc[w]: the next call to AWS of w's handler, "idle" without one
    call,    \* call[w]: what w's handler was called with, and its result
    seen,    \* seen[w]: what the handler last read
    tries,   \* tries[w]: retries of the current loop
    calls    \* handler calls begun so far

vars == <<acl, guardOf, ipSet, pc, call, seen, tries, calls>>

----------------------------------------------------------------------------
Named(rules) == {r.name : r \in rules}
Without(rules, n) == {r \in rules : r.name # n}

\* Mutant: the next priority is the number of rules.
CountedPriority(rules) == Cardinality(rules)

\* max((r["Priority"] for r in existing_rules), default=0)
MaxPriority(rules) ==
    CHOOSE p \in {0} \cup {r.priority : r \in rules} :
        \A r \in rules : r.priority <= p

\* existing_rules + [new_rule]
Extended(rules, n) == rules \cup {[name |-> n, priority |-> MaxPriority(rules) + 1]}

Guarded(a) == {b \in Albs : guardOf[b] = a}

NoCall == [op |-> "none", acl |-> NoAcl, alb |-> CHOOSE b \in Albs : TRUE,
           rule |-> Blacklist, ip |-> CHOOSE i \in Ips : TRUE, purge |-> FALSE,
           status |-> "none"]
Nothing == [token |-> 0, rules |-> {}, addrs |-> {}, albs |-> {}]

At(w, p)   == pc[w] = p
Goto(w, p) == pc' = [pc EXCEPT ![w] = p]

\* The handler returns: only its result is left.
Ends(w, s) ==
    /\ Goto(w, "idle")
    /\ call' = [call EXCEPT ![w] = [NoCall EXCEPT !.status = s]]
    /\ seen' = [seen EXCEPT ![w] = Nothing]
    /\ tries' = [tries EXCEPT ![w] = 0]

Init ==
    /\ acl \in [Acls -> [live : BOOLEAN, token : {0, 1}, rules : Given \cup {{}}]]
    /\ \A a \in Acls : IF a \in Existing
                       THEN acl[a].live /\ acl[a].token = 1 /\ acl[a].rules \in Given
                       ELSE acl[a] = [live |-> FALSE, token |-> 0, rules |-> {}]
    /\ guardOf \in [Albs -> Existing \cup {NoAcl}]
    /\ ipSet = [live |-> FALSE, token |-> 0, addrs |-> {}]
    /\ pc = [w \in Workers |-> "idle"]
    /\ call = [w \in Workers |-> NoCall]
    /\ seen = [w \in Workers |-> Nothing]
    /\ tries = [w \in Workers |-> 0]
    /\ calls = 0

----------------------------------------------------------------------------
(* The handlers as they are called.                                        *)

Begin(w, c, p) ==
    /\ At(w, "idle") /\ calls < MaxCalls
    /\ calls' = calls + 1
    /\ call' = [call EXCEPT ![w] = c]
    /\ Goto(w, p)
    /\ seen' = [seen EXCEPT ![w] = Nothing]
    /\ tries' = [tries EXCEPT ![w] = 0]
    /\ UNCHANGED <<acl, guardOf, ipSet>>

\* apply_waf_rate_based_rule, with and without a Web ACL to add the rule to.
ApplyRule(w, n, b) ==
    \/ \E a \in Acls : /\ acl[a].live
                       /\ Begin(w, [NoCall EXCEPT !.op = "apply", !.rule = n,
                                                  !.alb = b, !.acl = a], "get")
    \/ Begin(w, [NoCall EXCEPT !.op = "create", !.rule = n, !.alb = b], "create")

\* remove_waf_rate_based_rule; purge is delete_empty_acl.
RemoveRule(w, n, a, purge) ==
    /\ acl[a].live
    /\ Begin(w, [NoCall EXCEPT !.op = "remove", !.rule = n, !.acl = a,
                               !.purge = purge], "get")

\* apply_ip_blacklist_to_web_acl.
ApplyBlacklist(w, a) ==
    /\ acl[a].live
    /\ Begin(w, [NoCall EXCEPT !.op = "blacklist", !.acl = a], "listIpSets")

\* add_ip_to_blacklist and remove_ip_from_blacklist.
AddIp(w, i)    == Begin(w, [NoCall EXCEPT !.op = "addIp", !.ip = i], "listIpSets")
RemoveIp(w, i) == Begin(w, [NoCall EXCEPT !.op = "removeIp", !.ip = i], "listIpSets")

----------------------------------------------------------------------------
(* The rules of a Web ACL.                                                 *)

ReadsAcl(w) == seen' = [seen EXCEPT ![w].token = acl[call[w].acl].token,
                                    ![w].rules = acl[call[w].acl].rules]

\* get_web_acl, and what the handler decides on the rules it got.
GetWebAcl(w) ==
    LET c == call[w]
        rules == acl[c.acl].rules
        present == c.rule \in Named(rules)
    IN /\ At(w, "get") /\ acl[c.acl].live
       /\ \/ /\ present <=> c.op # "remove"
             /\ Ends(w, "success")
          \/ /\ present <=> c.op = "remove"
             /\ ReadsAcl(w)
             /\ Goto(w, IF c.op = "remove" /\ c.purge /\ Without(rules, c.rule) = {}
                        THEN "listResources" ELSE "update")
             /\ UNCHANGED <<call, tries>>
       /\ UNCHANGED <<acl, guardOf, ipSet, calls>>

\* The rules update_web_acl is called with.
UpdatedRules(w) ==
    IF call[w].op = "remove" THEN Without(seen[w].rules, call[w].rule)
    ELSE Extended(seen[w].rules, call[w].rule)

\* Mutant: the token is asked for again before the update.
FreshToken(w) == acl[call[w].acl].token

\* The LockToken update_web_acl is called with.
LockToken(w) == seen[w].token

\* update_web_acl with the token of the read.
UpdateWebAcl(w) ==
    LET a == call[w].acl
    IN /\ At(w, "update") /\ acl[a].live /\ acl[a].token = LockToken(w)
       /\ acl' = [acl EXCEPT ![a].rules = UpdatedRules(w), ![a].token = @ + 1]
       /\ \/ /\ call[w].op = "apply"
             /\ Goto(w, "listGuarded") /\ UNCHANGED <<call, seen, tries>>
          \/ call[w].op # "apply" /\ Ends(w, "success")
       /\ UNCHANGED <<guardOf, ipSet, calls>>

\* WAFOptimisticLockException: read again, a limited number of times; the
\* blacklist rule is not retried.
UpdateRefused(w) ==
    /\ At(w, "update") /\ acl[call[w].acl].token # LockToken(w)
    /\ \/ /\ call[w].op \in {"apply", "remove"} /\ tries[w] < MaxRetry
          /\ tries' = [tries EXCEPT ![w] = @ + 1]
          /\ Goto(w, "get") /\ UNCHANGED <<call, seen>>
       \/ /\ call[w].op = "blacklist" \/ tries[w] = MaxRetry
          /\ Ends(w, "failed")
    /\ UNCHANGED <<acl, guardOf, ipSet, calls>>

----------------------------------------------------------------------------
(* A Web ACL of one's own, and its association.                            *)

\* create_web_acl, with the rate rule as its only rule.
CreateWebAcl(w) ==
    /\ At(w, "create")
    /\ \E a \in Acls :
          /\ acl[a].token = 0
          /\ acl' = [acl EXCEPT ![a] =
                       [live |-> TRUE, token |-> 1,
                        rules |-> {[name |-> call[w].rule, priority |-> 0]}]]
          /\ call' = [call EXCEPT ![w].acl = a]
    /\ Goto(w, "associate")
    /\ UNCHANGED <<guardOf, ipSet, seen, tries, calls>>

\* _ensure_web_acl_associated asks which resources the Web ACL guards.
ListGuarded(w) ==
    /\ At(w, "listGuarded")
    /\ \/ guardOf[call[w].alb] = call[w].acl /\ Ends(w, "success")
       \/ /\ guardOf[call[w].alb] # call[w].acl
          /\ Goto(w, "associate") /\ tries' = [tries EXCEPT ![w] = 0]
          /\ UNCHANGED <<call, seen>>
    /\ UNCHANGED <<acl, guardOf, ipSet, calls>>

\* associate_web_acl takes the place of the Web ACL that was there before.
Associate(w) ==
    /\ At(w, "associate") /\ acl[call[w].acl].live
    /\ guardOf' = [guardOf EXCEPT ![call[w].alb] = call[w].acl]
    /\ Ends(w, "success")
    /\ UNCHANGED <<acl, ipSet, calls>>

\* WAFUnavailableEntityException: the load balancer is too new; tried again.
AlbUnknown(w) ==
    /\ At(w, "associate") /\ tries[w] < MaxAssociate
    /\ tries' = [tries EXCEPT ![w] = @ + 1]
    /\ UNCHANGED <<acl, guardOf, ipSet, pc, call, seen, calls>>

\* The new Web ACL that could not be associated is read for its token ...
GetForCleanup(w) ==
    /\ At(w, "getForCleanup") /\ acl[call[w].acl].live
    /\ ReadsAcl(w)
    /\ Goto(w, "cleanup")
    /\ UNCHANGED <<acl, guardOf, ipSet, call, tries, calls>>

\* delete_web_acl: refused for an old token and while a resource is associated.
Deletes(w) ==
    /\ acl[call[w].acl].live /\ acl[call[w].acl].token = seen[w].token
    /\ Guarded(call[w].acl) = {}
    /\ acl' = [acl EXCEPT ![call[w].acl].live = FALSE, ![call[w].acl].rules = {}]

\* ... and deleted; the call fails all the same.
Cleanup(w) ==
    /\ At(w, "cleanup") /\ Deletes(w) /\ Ends(w, "failed")
    /\ UNCHANGED <<guardOf, ipSet, calls>>

----------------------------------------------------------------------------
(* _delete_web_acl: the resources first, then the Web ACL.                 *)

ListResources(w) ==
    LET albs == Guarded(call[w].acl)
    IN /\ At(w, "listResources")
       /\ seen' = [seen EXCEPT ![w].albs = albs]
       /\ Goto(w, IF albs = {} THEN "delete" ELSE "disassociate")
       /\ UNCHANGED <<acl, guardOf, ipSet, call, tries, calls>>

\* disassociate_web_acl names the resource only: whatever guards it now goes.
Disassociate(w) ==
    /\ At(w, "disassociate")
    /\ \E b \in seen[w].albs :
          /\ guardOf' = [guardOf EXCEPT ![b] = NoAcl]
          /\ seen' = [seen EXCEPT ![w].albs = @ \ {b}]
          /\ Goto(w, IF seen[w].albs = {b} THEN "delete" ELSE "disassociate")
    /\ UNCHANGED <<acl, ipSet, call, tries, calls>>

DeleteWebAcl(w) ==
    /\ At(w, "delete") /\ Deletes(w) /\ Ends(w, "success")
    /\ UNCHANGED <<guardOf, ipSet, calls>>

----------------------------------------------------------------------------
(* The IP set of the blacklist.                                            *)

\* get_or_create_ip_set looks for the set by its name.
ListIpSets(w) ==
    /\ At(w, "listIpSets")
    /\ Goto(w, IF ipSet.live THEN "getIpSet" ELSE "createIpSet")
    /\ UNCHANGED <<acl, guardOf, ipSet, call, seen, tries, calls>>

\* What the caller of get_or_create_ip_set does with the addresses it got.
HasAddresses(w, addrs) ==
    LET c == call[w]
        settled == (c.op = "addIp") <=> (c.ip \in addrs)
    IN \/ c.op # "blacklist" /\ settled /\ Ends(w, "success")
       \/ /\ c.op = "blacklist" \/ ~settled
          /\ Goto(w, IF c.op = "blacklist" THEN "get" ELSE "getLockToken")
          /\ seen' = [seen EXCEPT ![w].addrs = addrs]
          /\ UNCHANGED <<call, tries>>

GetIpSet(w) ==
    /\ At(w, "getIpSet") /\ HasAddresses(w, ipSet.addrs)
    /\ UNCHANGED <<acl, guardOf, ipSet, calls>>

CreateIpSet(w) ==
    /\ At(w, "createIpSet") /\ ~ipSet.live
    /\ ipSet' = [live |-> TRUE, token |-> 1, addrs |-> {}]
    /\ HasAddresses(w, {})
    /\ UNCHANGED <<acl, guardOf, calls>>

\* The token is asked for again; the addresses of the first read are kept.
GetLockToken(w) ==
    /\ At(w, "getLockToken")
    /\ seen' = [seen EXCEPT ![w].token = ipSet.token]
    /\ Goto(w, "updateIpSet")
    /\ UNCHANGED <<acl, guardOf, ipSet, call, tries, calls>>

UpdatedAddresses(w) ==
    IF call[w].op = "addIp" THEN seen[w].addrs \cup {call[w].ip}
    ELSE seen[w].addrs \ {call[w].ip}

UpdateIpSet(w) ==
    /\ At(w, "updateIpSet") /\ ipSet.token = seen[w].token
    /\ ipSet' = [ipSet EXCEPT !.addrs = UpdatedAddresses(w), !.token = @ + 1]
    /\ Ends(w, "success")
    /\ UNCHANGED <<acl, guardOf, calls>>

----------------------------------------------------------------------------
(* A ClientError of the call the handler is at; WAF's refusals included.   *)

Swallowed == {"listGuarded", "associate", "listResources", "disassociate"}

ClientError(w) ==
    /\ ~At(w, "idle")
    /\ \/ pc[w] \notin Swallowed /\ Ends(w, "failed")
       \/ /\ pc[w] \in {"listGuarded", "associate"} /\ call[w].op = "apply"
          /\ Ends(w, "success")
       \/ /\ pc[w] \in Swallowed /\ call[w].op # "apply"
          /\ Goto(w, IF call[w].op = "create" THEN "getForCleanup" ELSE "delete")
          /\ UNCHANGED <<call, seen, tries>>
    /\ UNCHANGED <<acl, guardOf, ipSet, calls>>

----------------------------------------------------------------------------
Calls(w) ==
    \/ \E n \in Names, b \in Albs : ApplyRule(w, n, b)
    \/ \E n \in Names, a \in Acls, purge \in BOOLEAN : RemoveRule(w, n, a, purge)
    \/ \E a \in Acls : ApplyBlacklist(w, a)
    \/ \E i \in Ips : AddIp(w, i) \/ RemoveIp(w, i)

Steps(w) ==
    \/ GetWebAcl(w) \/ UpdateWebAcl(w) \/ UpdateRefused(w)
    \/ CreateWebAcl(w) \/ ListGuarded(w) \/ Associate(w) \/ AlbUnknown(w)
    \/ GetForCleanup(w) \/ Cleanup(w)
    \/ ListResources(w) \/ Disassociate(w) \/ DeleteWebAcl(w)
    \/ ListIpSets(w) \/ GetIpSet(w) \/ CreateIpSet(w)
    \/ GetLockToken(w) \/ UpdateIpSet(w)
    \/ ClientError(w)

Next == \E w \in Workers : Calls(w) \/ Steps(w)

Spec == Init /\ [][Next]_vars
=============================================================================
