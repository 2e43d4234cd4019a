------------------------------- MODULE Stores -------------------------------
(***************************************************************************)
(* Stores under the requests of many people: Merchants create them and add *)
(* Custom Domains, Operators suspend, reinstate and terminate them, the    *)
(* DNS verification reports on domains, and Customers reach a storefront   *)
(* by its host.                                                            *)
(*                                                                         *)
(* A request first finds out whether the caller may (authorizeStore,       *)
(* requireOperator), then acts in a transaction of its own.  A change of a *)
(* status locks its row, reads it, asks the state machine and writes; each *)
(* is a step.  Statements on one row that cannot wait are one step.        *)
(*                                                                         *)
(* Hosts are told apart as routeStorefrontHost tells them: Subdomains,     *)
(* names reserved for the platform, and valid Custom Domains.              *)
(***************************************************************************)
EXTENDS Naturals

CONSTANTS
  StoreIds, Users, Requests,
  Operators,     \* SHP0_OPERATOR_USER_IDS
  Subdomains,    \* <name>.shp0.dev, for a name that is not reserved
  Reserved,      \* RESERVED_SUBDOMAINS: app, www, ...
  Domains,       \* hostnames that validateCustomDomain accepts
  Ops,           \* the requests that may be made
  None           \* no Store, nobody, no host

Names == Subdomains \cup Reserved
Hosts == Names \cup Domains

Roles == {"owner", "admin", "staff"}
RANK == [role \in Roles \cup {"none"} |->
  CASE role = "owner" -> 3 [] role = "admin" -> 2 [] role = "staff" -> 1 [] OTHER -> 0]
HasAtLeastRole(role, minimum) == RANK[role] > 0 /\ RANK[role] >= RANK[minimum]

(* TRANSITIONS of store-status.ts and domain-verification.ts, as triples. *)
StatusMoves == {<<"active", "suspend", "suspended">>, <<"suspended", "reinstate", "active">>,
                <<"suspended", "terminate", "terminated">>}
DomainMoves == {<<"pending", "dns_ok", "verified">>, <<"pending", "dns_fail", "failed">>,
                <<"verified", "dns_ok", "verified">>, <<"verified", "dns_fail", "failed">>,
                <<"failed", "retry", "pending">>}
Statuses == {"active", "suspended", "terminated"}
Verifications == {"pending", "verified", "failed"}

People    == Users \cup Operators \cup {None}
CreateOps == [kind : {"create"}, user : Users \cup {None}, store : StoreIds,
              row : Names, event : {"insert"}]
DomainOps == [kind : {"domains.manage"}, user : Users \cup {None}, store : StoreIds,
              row : Hosts, event : {"insert", "retry"}]
DnsOps    == [kind : {"dns"}, user : {None}, store : StoreIds, row : Hosts,
              event : {"dns_ok", "dns_fail"}]
StatusOps == [kind : {"operator"}, user : People, store : {None}, row : StoreIds,
              event : {"suspend", "reinstate", "terminate"}]
VisitOps  == [kind : {"visit"}, user : {None}, store : {None}, row : Hosts, event : {"resolve"}]
AllOps    == CreateOps \cup DomainOps \cup DnsOps \cup StatusOps \cup VisitOps

ASSUME StoresAssumption ==
  /\ Ops \subseteq AllOps
  /\ None \notin StoreIds \cup Users \cup Operators \cup Hosts
  /\ Subdomains \cap Reserved = {} /\ Names \cap Domains = {}
  /\ StoreIds \cap Hosts = {}

VARIABLES
  subdomain,   \* stores.subdomain, None for a Store that is not there yet
  status,      \* stores.status
  role,        \* memberships.role
  domain,      \* custom_domains: a hostname's Store and verification_status
  req          \* the requests

vars == <<subdomain, status, role, domain, req>>

Idle == [pc |-> "idle", op |-> [kind |-> "none"], seen |-> None]
NoDomain == [store |-> None, status |-> "pending"]

(* And no two Stores have one Subdomain. *)
TypeOK ==
  /\ subdomain \in [StoreIds -> Names \cup {None}]
  /\ \A s, t \in StoreIds : subdomain[s] = subdomain[t] => s = t \/ subdomain[s] = None
  /\ status \in [StoreIds -> Statuses]
  /\ role \in [Users -> [StoreIds -> Roles \cup {"none"}]]
  /\ domain \in [Hosts -> [store : StoreIds \cup {None}, status : Verifications]]
  /\ req \in [Requests -> [pc : {"authorize", "act", "write", "served"}, op : Ops,
                           seen : Statuses \cup Verifications \cup StoreIds \cup {None}] \cup {Idle}]

(* custom_domains may hold rows it should not ("whatever it holds"). *)
Init ==
  /\ subdomain = [s \in StoreIds |-> None]
  /\ status = [s \in StoreIds |-> "active"]
  /\ role = [u \in Users |-> [s \in StoreIds |-> "none"]]
  /\ \E bad \in [Subdomains -> StoreIds \cup {None}] :
       domain = [h \in Hosts |-> IF h \in Subdomains /\ bad[h] # None
                                 THEN [store |-> bad[h], status |-> "verified"] ELSE NoDomain]
  /\ req = [r \in Requests |-> Idle]

-----------------------------------------------------------------------------
Become(r, pc) == req' = [req EXCEPT ![r].pc = pc]
Saw(r, pc, x) == req' = [req EXCEPT ![r].pc = pc, ![r].seen = x]
End(r)        == req' = [req EXCEPT ![r] = Idle]
Op(r)         == req[r].op
Tables        == <<subdomain, status, role, domain>>

(* The verification and a Customer need nobody's leave. *)
Start(r, op) ==
  /\ req[r].pc = "idle"
  /\ req' = [req EXCEPT ![r] =
       [pc |-> IF op.kind \in {"dns", "visit"} THEN "act" ELSE "authorize", op |-> op, seen |-> None]]
  /\ UNCHANGED Tables

(* decideOperatorAccess: the list of Operators is read at every request. *)
IsOperator(user) == user \in Operators

(* authorizeStore, requireOperator, and a session for a new Store. *)
Authorized(op) ==
  /\ op.user # None
  /\ op.kind = "domains.manage" => HasAtLeastRole(role[op.user][op.store], "admin")
  /\ op.kind = "operator" => IsOperator(op.user)

Authorize(r) ==
  /\ req[r].pc = "authorize"
  /\ \/ Authorized(Op(r)) /\ Become(r, "act")
     \/ ~Authorized(Op(r)) /\ End(r)
  /\ UNCHANGED Tables

Exists(s) == subdomain[s] # None
(* Mutant: the form's check that a Subdomain is free is all there is. *)
AnyName(s) == TRUE
(* stores_subdomain_key. *)
IsFree(name) == \A s \in StoreIds : subdomain[s] # name

(* provisionStore: the Store and its Owner, or an error. *)
CreateStore(r) ==
  LET op == Op(r) IN
  /\ req[r].pc = "act" /\ op.kind = "create"
  /\ \/ /\ IsFree(op.row) /\ ~Exists(op.store)
        /\ subdomain' = [subdomain EXCEPT ![op.store] = op.row]
        /\ role' = [role EXCEPT ![op.user][op.store] = "owner"]
     \/ ~IsFree(op.row) /\ UNCHANGED <<subdomain, role>>
  /\ End(r)
  /\ UNCHANGED <<status, domain>>

(* validateCustomDomain: never the platform's domain, nor below it. *)
ValidCustomDomain(h) == h \in Domains

(* addCustomDomain: the hostname is valid, and nobody's yet. *)
AddDomain(r) ==
  LET op   == Op(r)
      free == ValidCustomDomain(op.row) /\ domain[op.row].store = None IN
  /\ req[r].pc = "act" /\ op.kind = "domains.manage" /\ op.event = "insert"
  /\ \/ /\ free
        /\ domain' = [domain EXCEPT ![op.row] = [store |-> op.store, status |-> "pending"]]
     \/ ~free /\ UNCHANGED domain
  /\ End(r)
  /\ UNCHANGED <<subdomain, status, role>>

(* Mutant: the SELECT takes no lock. *)
NeverLocked(r) == FALSE
(* FOR NO KEY UPDATE: another request has the row. *)
Locked(r) == \E q \in Requests \ {r} : req[q].pc = "write" /\ req[q].op.row = Op(r).row

IsStatusChange(op) == op.kind = "operator"
IsDomainChange(op) == op.event \in {"retry", "dns_ok", "dns_fail"}

(* applyStoreStatusAction reads the status, holding the lock. *)
ReadStatus(r) ==
  /\ req[r].pc = "act" /\ IsStatusChange(Op(r)) /\ ~Locked(r)
  /\ IF Exists(Op(r).row) THEN Saw(r, "write", status[Op(r).row]) ELSE End(r)
  /\ UNCHANGED Tables

(* WHERE id = domainId AND store_id = storeId. *)
DomainFound(op) == domain[op.row].store = op.store

(* applyDomainVerification. *)
ReadDomain(r) ==
  /\ req[r].pc = "act" /\ IsDomainChange(Op(r)) /\ ~Locked(r)
  /\ IF DomainFound(Op(r)) THEN Saw(r, "write", domain[Op(r).row].status) ELSE End(r)
  /\ UNCHANGED Tables

(* The state machine, on what was read, and the UPDATE. *)
Transition(moves, r, x) ==
  <<req[r].seen, Op(r).event, x>> \in moves

WriteStatus(r) ==
  /\ req[r].pc = "write" /\ IsStatusChange(Op(r))
  /\ \/ \E x \in Statuses :
          Transition(StatusMoves, r, x) /\ status' = [status EXCEPT ![Op(r).row] = x]
     \/ (\A x \in Statuses : ~Transition(StatusMoves, r, x)) /\ UNCHANGED status
  /\ End(r)
  /\ UNCHANGED <<subdomain, role, domain>>

WriteDomain(r) ==
  /\ req[r].pc = "write" /\ IsDomainChange(Op(r))
  /\ \/ \E x \in Verifications :
          Transition(DomainMoves, r, x) /\ domain' = [domain EXCEPT ![Op(r).row].status = x]
     \/ (\A x \in Verifications : ~Transition(DomainMoves, r, x)) /\ UNCHANGED domain
  /\ End(r)
  /\ UNCHANGED <<subdomain, status, role>>

StoreOfSubdomain(h) == IF \E s \in StoreIds : subdomain[s] = h
                       THEN CHOOSE s \in StoreIds : subdomain[s] = h ELSE None
StoreOfDomain(h) == IF domain[h].status = "verified" THEN domain[h].store ELSE None

(* Mutant: the Custom Domains come first. *)
DomainFirst(h) == IF StoreOfDomain(h) # None THEN StoreOfDomain(h) ELSE StoreOfSubdomain(h)
(* resolveStoreByHost. *)
ResolveStoreByHost(h) ==
  CASE h \in Subdomains -> StoreOfSubdomain(h)
    [] h \in Domains    -> StoreOfDomain(h)
    [] OTHER            -> None

Visit(r) ==
  /\ req[r].pc = "act" /\ Op(r).kind = "visit"
  /\ Saw(r, "served", ResolveStoreByHost(Op(r).row))
  /\ UNCHANGED Tables

(* The page is sent; an error or a lost connection ends a request anywhere. *)
Fail(r) ==
  /\ req[r].pc # "idle" /\ End(r)
  /\ UNCHANGED Tables

(* Memberships are changed by hand, never an Owner's. *)
ChangeRole(u, s, x) ==
  /\ Exists(s) /\ role[u][s] \notin {"owner", x}
  /\ role' = [role EXCEPT ![u][s] = x]
  /\ UNCHANGED <<subdomain, status, domain, req>>

Next ==
  \/ \E r \in Requests :
       \/ \E op \in Ops : Start(r, op)
       \/ Authorize(r) \/ CreateStore(r) \/ AddDomain(r) \/ ReadStatus(r) \/ ReadDomain(r)
       \/ WriteStatus(r) \/ WriteDomain(r) \/ Visit(r) \/ Fail(r)
  \/ \E u \in Users, s \in StoreIds, x \in {"admin", "staff", "none"} : ChangeRole(u, s, x)

Spec == Init /\ [][Next]_vars

-----------------------------------------------------------------------------
(* However many act at once, a status is only ever followed by one that its
   state machine allows: a terminated Store stays so, and a domain that has
   failed is verified again only after a retry. *)
Legal(moves, x, y) == x = y \/ \E e \in {m[2] : m \in moves} : <<x, e, y>> \in moves
LegalMoves ==
  [][/\ \A s \in StoreIds : Legal(StatusMoves, status[s], status'[s])
     /\ \A h \in Hosts : domain[h].store # None =>
          /\ domain'[h].store = domain[h].store
          /\ Legal(DomainMoves, domain[h].status, domain'[h].status)]_vars

(* A Store is reached by its own hosts only: its Subdomain, or a domain that
   was added for it; and a request for one Store never changes another's. *)
EachToItsOwn ==
  /\ \A r \in Requests : req[r].pc = "served" /\ req[r].seen # None =>
       subdomain[req[r].seen] = Op(r).row \/ (Op(r).row \in Domains /\ domain[Op(r).row].store = req[r].seen)
  /\ \A r \in Requests : req[r].pc = "write" =>
       IF IsStatusChange(Op(r)) THEN Exists(Op(r).row) ELSE domain[Op(r).row].store = Op(r).store
=============================================================================
