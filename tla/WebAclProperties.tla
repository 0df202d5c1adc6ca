-------------------------- MODULE WebAclProperties --------------------------
(***************************************************************************)
(* What concurrent callers of the WAF handlers may expect.                 *)
(***************************************************************************)
EXTENDS WebAcl

\* Where a handler can be, given what it was called for.
IpPlaces == {"listIpSets", "getIpSet", "createIpSet"}

Places == IpPlaces \cup
    {"idle", "get", "update", "listGuarded", "create", "associate", "getForCleanup", "cleanup",
     "listResources", "disassociate", "delete", "getLockToken", "updateIpSet"}

InPlace(op, p) ==
    \/ op = "none" /\ p = "idle"
    \/ op = "apply" /\ p \in {"get", "update", "listGuarded", "associate"}
    \/ op = "create" /\ p \in {"create", "associate", "getForCleanup", "cleanup"}
    \/ op = "remove" /\ p \in {"get", "update", "listResources", "disassociate", "delete"}
    \/ op = "blacklist" /\ p \in IpPlaces \cup {"get", "update"}
    \/ op \in {"addIp", "removeIp"} /\ p \in IpPlaces \cup {"getLockToken", "updateIpSet"}

HasAcl(w) ==
    call[w].op \in {"apply", "remove", "blacklist"} \/ (call[w].op = "create" /\ ~At(w, "create"))
        => call[w].acl \in Acls

CallType == [op : {"none", "apply", "create", "remove", "blacklist", "addIp", "removeIp"},
             acl : Acls \cup {NoAcl}, alb : Albs, rule : RuleNames, ip : Ips,
             purge : BOOLEAN, status : {"none", "success", "failed"}]
SeenType == [token : Nat, rules : SUBSET Rules, addrs : SUBSET Ips, albs : SUBSET Albs]

\* Type correctness; a handler deletes a Web ACL only to clean up after itself or
\* because the caller asked for it (inbound_handlers.py:276-289, 728-730).
TypeOK ==
    /\ acl \in [Acls -> [live : BOOLEAN, token : Nat, rules : SUBSET Rules]]
    /\ guardOf \in [Albs -> Acls \cup {NoAcl}]
    /\ ipSet \in [live : BOOLEAN, token : Nat, addrs : SUBSET Ips]
    /\ pc \in [Workers -> Places] /\ call \in [Workers -> CallType]
    /\ \A w \in Workers : InPlace(call[w].op, pc[w]) /\ HasAcl(w)
    /\ seen \in [Workers -> SeenType] /\ tries \in [Workers -> Nat] /\ calls \in Nat

\* The lock: rules read with the token a Web ACL still has are its rules.  With it
\* the properties below are inductive.
TokenIsCurrent(w) ==
    /\ 0 < seen[w].token /\ seen[w].token <= acl[call[w].acl].token
    /\ acl[call[w].acl].live /\ seen[w].token = acl[call[w].acl].token
           => seen[w].rules = acl[call[w].acl].rules

OptimisticLock ==
    /\ \A a \in Acls : (acl[a].live => acl[a].token > 0) /\ Ranked(acl[a].rules)
    /\ \A w \in Workers : At(w, "update") => TokenIsCurrent(w)

\* No edit of a Web ACL undoes the edit of another caller: what a step takes from
\* the rules of a live Web ACL, or adds to them, is the one rule the handler was
\* called for, however long ago it read them (inbound_handlers.py:177-210, 710-740).
OwnRuleOnly ==
    [][\A w \in Workers, a \in Acls :
          (acl[a].live /\ acl'[a].live /\ pc'[w] # pc[w]) =>
              Without(acl'[a].rules, call[w].rule) = Without(acl[a].rules, call[w].rule)]_vars

\* No two rules of a Web ACL have the same priority, whatever was removed in
\* between: AWS refuses such a list (inbound_handlers.py:196-201, 1206-1223).
PrioritiesDistinct == \A a \in Acls : Distinct(acl[a].rules)

=============================================================================
