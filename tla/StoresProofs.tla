---------------------------- MODULE StoresProofs ----------------------------
(***************************************************************************)
(* For any Stores, Users, hosts and requests: statuses follow their state  *)
(* machines, and a host leads to its own Store.                            *)
(*                                                                         *)
(* A request that is about to write has the only lock on its row (Alone),  *)
(* so the status it read is still the row's (Knows); and a row that a      *)
(* request found, or was led to, stays where it is: a Store never leaves   *)
(* its Subdomain, nor a domain its Store.                                  *)
(*                                                                         *)
(* The second part is about the discounts of a Store, and the third about  *)
(* what they take off a cart.                                              *)
(***************************************************************************)
EXTENDS Stores, Discounts, FiniteSetTheorems, WellFoundedInduction, TLAPS

Alone ==
  \A r, q \in Requests :
    req[r].pc = "write" /\ req[q].pc = "write" /\ Op(r).row = Op(q).row => r = q

Current(r) == IF IsStatusChange(Op(r)) THEN status[Op(r).row] ELSE domain[Op(r).row].status
Knows ==
  \A r \in Requests : req[r].pc = "write" =>
    /\ IsStatusChange(Op(r)) \/ IsDomainChange(Op(r))
    /\ req[r].seen = Current(r)

Reached ==
  \A r \in Requests : req[r].pc = "served" => req[r].seen \in StoreIds \cup {None}

Inv == TypeOK /\ EachToItsOwn /\ Alone /\ Knows /\ Reached

Served == [pc : {"authorize", "act", "write", "served"}, op : Ops,
           seen : Statuses \cup Verifications \cup StoreIds \cup {None}]

-----------------------------------------------------------------------------
(* What the rows of each kind of request are. *)
LEMMA OpTypes ==
  ASSUME NEW op \in Ops
  PROVE  /\ IsStatusChange(op) => op.row \in StoreIds /\ ~IsDomainChange(op)
         /\ IsDomainChange(op) => op.row \in Hosts /\ op.store # None
         /\ op.kind = "create" => op.row \in Names /\ op.store \in StoreIds
         /\ op.kind = "domains.manage" => op.row \in Hosts /\ op.store \in StoreIds
         /\ op.kind = "visit" => op.row \in Hosts
         /\ op.kind \in {"create", "domains.manage", "dns", "operator", "visit"}
         /\ op.row # None
<1>1. op \in AllOps /\ None \notin StoreIds /\ None \notin Hosts
  BY StoresAssumption
<1>2. CASE op \in CreateOps
  BY <1>1, <1>2 DEF CreateOps, IsStatusChange, IsDomainChange, Names, Hosts
<1>3. CASE op \in DomainOps
  BY <1>1, <1>3 DEF DomainOps, IsStatusChange, IsDomainChange
<1>4. CASE op \in DnsOps
  BY <1>1, <1>4 DEF DnsOps, IsStatusChange, IsDomainChange
<1>5. CASE op \in StatusOps
  BY <1>1, <1>5 DEF StatusOps, IsStatusChange, IsDomainChange
<1>6. CASE op \in VisitOps
  BY <1>1, <1>6 DEF VisitOps, IsStatusChange, IsDomainChange
<1> QED BY <1>1, <1>2, <1>3, <1>4, <1>5, <1>6 DEF AllOps

-----------------------------------------------------------------------------
LEMMA RequestTypes ==
  ASSUME TypeOK, NEW r \in Requests, req[r].pc # "idle"
  PROVE  req[r] \in Served /\ Op(r) \in Ops
BY DEF TypeOK, Served, Idle, Op

(* The initial tables: a row of custom_domains may be bad, but not its type. *)
LEMMA InitInv == Init => Inv
<1> SUFFICES ASSUME Init PROVE Inv
  OBVIOUS
<1>1. \A r \in Requests : req[r] = Idle
  BY DEF Init
<1>2. domain \in [Hosts -> [store : StoreIds \cup {None}, status : Verifications]]
  <2>1. PICK bad \in [Subdomains -> StoreIds \cup {None}] :
          domain = [h \in Hosts |-> IF h \in Subdomains /\ bad[h] # None
                                    THEN [store |-> bad[h], status |-> "verified"] ELSE NoDomain]
    BY DEF Init
  <2>2. \A h \in Hosts : (IF h \in Subdomains /\ bad[h] # None
                          THEN [store |-> bad[h], status |-> "verified"] ELSE NoDomain)
                         \in [store : StoreIds \cup {None}, status : Verifications]
    BY <2>1 DEF NoDomain, Verifications
  <2> QED BY <2>1, <2>2
<1>3. TypeOK
  BY <1>1, <1>2 DEF Init, TypeOK, Statuses, Roles
<1> QED BY <1>1, <1>3 DEF Inv, EachToItsOwn, Alone, Knows, Reached, Idle

(* A step of request r, after which it neither writes nor has been served,
   keeps the invariant if it moves no row that another request relies on. *)
Kept(r) ==
  /\ \A s \in StoreIds : Exists(s) => subdomain'[s] = subdomain[s]
  /\ \A h \in Hosts : domain[h].store # None => domain'[h].store = domain[h].store
  /\ \A q \in Requests : q # r /\ req[q].pc = "write" =>
       IF IsStatusChange(Op(q)) THEN status'[Op(q).row] = status[Op(q).row]
                                ELSE domain'[Op(q).row].status = domain[Op(q).row].status

TablesTyped ==
  /\ subdomain \in [StoreIds -> Names \cup {None}]
  /\ \A s, t \in StoreIds : subdomain[s] = subdomain[t] => s = t \/ subdomain[s] = None
  /\ status \in [StoreIds -> Statuses]
  /\ role \in [Users -> [StoreIds -> Roles \cup {"none"}]]
  /\ domain \in [Hosts -> [store : StoreIds \cup {None}, status : Verifications]]

LEMMA StepInv ==
  ASSUME Inv, NEW r \in Requests, NEW x \in Served \cup {Idle},
         x.pc \notin {"write", "served"},
         req' = [req EXCEPT ![r] = x], TablesTyped', Kept(r)
  PROVE  Inv'
<1>1. TypeOK'
  BY DEF Inv, TypeOK, TablesTyped, Served
<1>2. \A q \in Requests : req'[q] = IF q = r THEN x ELSE req[q]
  BY DEF Inv, TypeOK
<1>3. \A q \in Requests : req[q].pc \in {"write", "served"} => req[q] \in Served /\ Op(q) \in Ops
  BY RequestTypes DEF Inv
<1>4. None \notin Hosts
  BY StoresAssumption
<1>5. EachToItsOwn'
  <2>1. ASSUME NEW q \in Requests, req'[q].pc = "served", req'[q].seen # None
        PROVE  \/ subdomain'[req'[q].seen] = Op(q)'.row
               \/ Op(q)'.row \in Domains /\ domain'[Op(q)'.row].store = req'[q].seen
    <3>1. q # r /\ req'[q] = req[q] /\ Op(q)' = Op(q)
      BY <1>2, <2>1 DEF Op
    <3>2. req[q].seen \in StoreIds
      BY <2>1, <3>1 DEF Inv, Reached
    <3>3. \/ subdomain[req[q].seen] = Op(q).row
          \/ Op(q).row \in Domains /\ domain[Op(q).row].store = req[q].seen
      BY <2>1, <3>1 DEF Inv, EachToItsOwn
    <3>4. CASE subdomain[req[q].seen] = Op(q).row
      <4>1. Op(q).row # None
        BY <1>3, <2>1, <3>1, OpTypes
      <4>2. subdomain'[req[q].seen] = subdomain[req[q].seen]
        BY <3>2, <3>4, <4>1 DEF Kept, Exists
      <4> QED BY <3>1, <3>4, <4>2
    <3>5. CASE Op(q).row \in Domains /\ domain[Op(q).row].store = req[q].seen
      <4>1. domain'[Op(q).row].store = domain[Op(q).row].store
        BY <2>1, <3>1, <3>5 DEF Kept, Hosts
      <4> QED BY <3>1, <3>5, <4>1
    <3> QED BY <3>3, <3>4, <3>5
  <2>2. ASSUME NEW q \in Requests, req'[q].pc = "write"
        PROVE  IF IsStatusChange(Op(q)') THEN subdomain'[Op(q)'.row] # None
               ELSE domain'[Op(q)'.row].store = Op(q)'.store
    <3>1. q # r /\ req'[q] = req[q] /\ Op(q)' = Op(q)
      BY <1>2, <2>2 DEF Op
    <3>2. Op(q) \in Ops /\ (IsStatusChange(Op(q)) \/ IsDomainChange(Op(q)))
      BY <1>3, <2>2, <3>1 DEF Inv, Knows
    <3>3. IF IsStatusChange(Op(q)) THEN Exists(Op(q).row) ELSE domain[Op(q).row].store = Op(q).store
      BY <2>2, <3>1 DEF Inv, EachToItsOwn
    <3> QED BY <3>1, <3>2, <3>3, OpTypes DEF Kept, Exists
  <2> QED BY <2>1, <2>2 DEF EachToItsOwn, Exists, IsStatusChange
<1>6. Alone'
  BY <1>2 DEF Inv, Alone, Op
<1>7. Knows'
  <2> SUFFICES ASSUME NEW q \in Requests, req'[q].pc = "write"
               PROVE  /\ IsStatusChange(Op(q)') \/ IsDomainChange(Op(q)')
                      /\ req'[q].seen = Current(q)'
    BY DEF Knows, IsStatusChange, IsDomainChange
  <2>1. q # r /\ req'[q] = req[q] /\ Op(q)' = Op(q)
    BY <1>2 DEF Op
  <2> QED BY <2>1 DEF Inv, Knows, Kept, Current, IsStatusChange, IsDomainChange
<1>8. Reached'
  BY <1>2 DEF Inv, Reached
<1> QED BY <1>1, <1>5, <1>6, <1>7, <1>8 DEF Inv

-----------------------------------------------------------------------------
(* Requests that write no table.                                           *)

LEMMA TablesAreTyped == Inv => TablesTyped
BY DEF Inv, TypeOK, TablesTyped

LEMMA QuietInv ==
  ASSUME Inv, NEW r \in Requests, NEW x \in Served \cup {Idle},
         x.pc \notin {"write", "served"},
         req' = [req EXCEPT ![r] = x], UNCHANGED Tables
  PROVE  Inv'
<1>1. TablesTyped'
  BY TablesAreTyped DEF TablesTyped, Tables
<1>2. Kept(r)
  BY DEF Kept, Tables
<1> QED BY <1>1, <1>2, StepInv

LEMMA StartInv ==
  ASSUME Inv, NEW r \in Requests, NEW op \in Ops, Start(r, op)
  PROVE  Inv'
<1> DEFINE x == [pc |-> IF op.kind \in {"dns", "visit"} THEN "act" ELSE "authorize",
                 op |-> op, seen |-> None]
<1>1. x \in Served \cup {Idle} /\ x.pc \notin {"write", "served"}
  BY DEF Served
<1>2. req' = [req EXCEPT ![r] = x] /\ UNCHANGED Tables
  BY DEF Start
<1> HIDE DEF x
<1> QED BY <1>1, <1>2, QuietInv

LEMMA IdleIsQuiet == Idle \in Served \cup {Idle} /\ Idle.pc \notin {"write", "served"}
BY DEF Idle

LEMMA AuthorizeInv ==
  ASSUME Inv, NEW r \in Requests, Authorize(r)
  PROVE  Inv'
<1>1. UNCHANGED Tables
  BY DEF Authorize
<1>2. CASE End(r)
  BY <1>1, <1>2, IdleIsQuiet, QuietInv DEF End
<1>3. CASE Become(r, "act")
  <2>1. req[r] \in Served
    BY RequestTypes DEF Inv, Authorize
  <2>2. [req[r] EXCEPT !.pc = "act"] \in Served /\ [req[r] EXCEPT !.pc = "act"].pc = "act"
    BY <2>1 DEF Served
  <2>3. req' = [req EXCEPT ![r] = [req[r] EXCEPT !.pc = "act"]]
    BY <1>3 DEF Become
  <2> QED BY <1>1, <2>2, <2>3, QuietInv
<1> QED BY <1>2, <1>3 DEF Authorize

LEMMA FailInv ==
  ASSUME Inv, NEW r \in Requests, Fail(r)
  PROVE  Inv'
BY IdleIsQuiet, QuietInv DEF Fail, End

-----------------------------------------------------------------------------
(* Requests that write a table, and end.                                   *)

LEMMA CreateStoreInv ==
  ASSUME Inv, NEW r \in Requests, CreateStore(r)
  PROVE  Inv'
<1>1. Op(r) \in Ops /\ Op(r).kind = "create"
  BY RequestTypes DEF Inv, CreateStore
<1>2. Op(r).row \in Names /\ Op(r).store \in StoreIds
  BY <1>1, OpTypes
<1>3. req' = [req EXCEPT ![r] = Idle] /\ UNCHANGED <<status, domain>>
  BY DEF CreateStore, End
<1>4. CASE UNCHANGED <<subdomain, role>>
  BY <1>3, <1>4, IdleIsQuiet, QuietInv DEF Tables
<1>5. CASE /\ IsFree(Op(r).row) /\ ~Exists(Op(r).store)
           /\ subdomain' = [subdomain EXCEPT ![Op(r).store] = Op(r).row]
           /\ role' = [role EXCEPT ![Op(r).user][Op(r).store] = "owner"]
  <2>1. TablesTyped
    BY TablesAreTyped
  <2>2. subdomain' \in [StoreIds -> Names \cup {None}]
    BY <1>2, <1>5, <2>1 DEF TablesTyped
  <2>3. \A s, t \in StoreIds : subdomain'[s] = subdomain'[t] => s = t \/ subdomain'[s] = None
    BY <1>2, <1>5, <2>1 DEF TablesTyped, IsFree
  <2>4. role' \in [Users -> [StoreIds -> Roles \cup {"none"}]]
    BY <1>2, <1>5, <2>1 DEF TablesTyped, Roles
  <2>5. TablesTyped'
    BY <1>3, <2>1, <2>2, <2>3, <2>4 DEF TablesTyped
  <2>6. Kept(r)
    BY <1>2, <1>3, <1>5, <2>1 DEF Kept, TablesTyped, Exists
  <2> QED BY <1>3, <2>5, <2>6, IdleIsQuiet, StepInv
<1> QED BY <1>4, <1>5 DEF CreateStore

LEMMA AddDomainInv ==
  ASSUME Inv, NEW r \in Requests, AddDomain(r)
  PROVE  Inv'
<1>1. Op(r) \in Ops /\ Op(r).kind = "domains.manage"
  BY RequestTypes DEF Inv, AddDomain
<1>2. Op(r).row \in Hosts /\ Op(r).store \in StoreIds
  BY <1>1, OpTypes
<1>3. req' = [req EXCEPT ![r] = Idle] /\ UNCHANGED <<subdomain, status, role>>
  BY DEF AddDomain, End
<1>4. CASE UNCHANGED domain
  BY <1>3, <1>4, IdleIsQuiet, QuietInv DEF Tables
<1>5. CASE /\ domain[Op(r).row].store = None
           /\ domain' = [domain EXCEPT ![Op(r).row] = [store |-> Op(r).store, status |-> "pending"]]
  <2>1. TablesTyped
    BY TablesAreTyped
  <2>2. TablesTyped'
    BY <1>2, <1>3, <1>5, <2>1 DEF TablesTyped, Verifications
  <2>3. ASSUME NEW q \in Requests, req[q].pc = "write", ~IsStatusChange(Op(q))
        PROVE  Op(q).row # Op(r).row
    <3>1. Op(q) \in Ops /\ IsDomainChange(Op(q))
      BY <2>3, RequestTypes DEF Inv, Knows
    <3>2. domain[Op(q).row].store # None
      BY <2>3, <3>1, OpTypes DEF Inv, EachToItsOwn
    <3> QED BY <1>5, <3>2
  <2>4. Kept(r)
    BY <1>2, <1>3, <1>5, <2>1, <2>3 DEF Kept, TablesTyped
  <2> QED BY <1>3, <2>2, <2>4, IdleIsQuiet, StepInv
<1> QED BY <1>4, <1>5 DEF AddDomain

LEMMA WriteStatusInv ==
  ASSUME Inv, NEW r \in Requests, WriteStatus(r)
  PROVE  Inv'
<1>1. req' = [req EXCEPT ![r] = Idle] /\ UNCHANGED <<subdomain, role, domain>>
  BY DEF WriteStatus, End
<1>2. CASE UNCHANGED status
  BY <1>1, <1>2, IdleIsQuiet, QuietInv DEF Tables
<1>3. ASSUME NEW x \in Statuses, status' = [status EXCEPT ![Op(r).row] = x]
      PROVE  Inv'
  <2>1. TablesTyped
    BY TablesAreTyped
  <2>2. TablesTyped'
    BY <1>1, <1>3, <2>1 DEF TablesTyped
  <2>3. \A q \in Requests : q # r /\ req[q].pc = "write" => Op(q).row # Op(r).row
    BY DEF Inv, Alone, WriteStatus
  <2>4. Kept(r)
    BY <1>1, <1>3, <2>1, <2>3, OpTypes, RequestTypes DEF Kept, TablesTyped, Inv
  <2> QED BY <1>1, <2>2, <2>4, IdleIsQuiet, StepInv
<1> QED BY <1>2, <1>3 DEF WriteStatus

LEMMA WriteDomainInv ==
  ASSUME Inv, NEW r \in Requests, WriteDomain(r)
  PROVE  Inv'
<1>1. req' = [req EXCEPT ![r] = Idle] /\ UNCHANGED <<subdomain, status, role>>
  BY DEF WriteDomain, End
<1>2. CASE UNCHANGED domain
  BY <1>1, <1>2, IdleIsQuiet, QuietInv DEF Tables
<1>3. ASSUME NEW x \in Verifications, domain' = [domain EXCEPT ![Op(r).row].status = x]
      PROVE  Inv'
  <2>1. TablesTyped
    BY TablesAreTyped
  <2>2. TablesTyped'
    BY <1>1, <1>3, <2>1 DEF TablesTyped
  <2>3. \A q \in Requests : q # r /\ req[q].pc = "write" => Op(q).row # Op(r).row
    BY DEF Inv, Alone, WriteDomain
  <2>4. Kept(r)
    BY <1>1, <1>3, <2>1, <2>3, OpTypes, RequestTypes DEF Kept, TablesTyped, Inv
  <2> QED BY <1>1, <2>2, <2>4, IdleIsQuiet, StepInv
<1> QED BY <1>2, <1>3 DEF WriteDomain

-----------------------------------------------------------------------------
(* Requests that lock a row, or read where a host leads.                   *)

(* A request that has read its row, and has the lock that nobody else had. *)
LEMMA ReadInv ==
  ASSUME Inv, NEW r \in Requests, req[r].pc = "act", ~Locked(r),
         IsStatusChange(Op(r)) \/ IsDomainChange(Op(r)),
         IF IsStatusChange(Op(r)) THEN Exists(Op(r).row) ELSE DomainFound(Op(r)),
         Saw(r, "write", Current(r)), UNCHANGED Tables
  PROVE  Inv'
<1>1. Op(r) \in Ops /\ req[r] \in Served
  BY RequestTypes DEF Inv
<1>2. Current(r) \in Statuses \cup Verifications
  BY <1>1, OpTypes DEF Current, Inv, TypeOK
<1>3. req'[r] = [req[r] EXCEPT !.pc = "write", !.seen = Current(r)]
  BY DEF Saw, Inv, TypeOK
<1>4. \A q \in Requests : q # r => req'[q] = req[q] /\ Op(q)' = Op(q)
  BY DEF Saw, Inv, TypeOK, Op
<1>5. req'[r].pc = "write" /\ Op(r)' = Op(r) /\ req'[r].seen = Current(r) /\ req'[r] \in Served
  BY <1>1, <1>2, <1>3 DEF Served, Op
<1>6. req' \in [Requests -> Served \cup {Idle}]
  BY <1>4, <1>5 DEF Saw, Inv, TypeOK, Served
<1>7. TypeOK'
  BY <1>6 DEF Inv, TypeOK, Tables, Served
<1>8. EachToItsOwn'
  BY <1>4, <1>5 DEF Inv, EachToItsOwn, Tables, DomainFound, Exists, IsStatusChange, Op
<1>9. Alone'
  BY <1>4, <1>5 DEF Inv, Alone, Locked, Op
<1>10. Knows'
  BY <1>4, <1>5 DEF Inv, Knows, Current, IsStatusChange, IsDomainChange, Tables
<1>11. Reached'
  BY <1>4, <1>5 DEF Inv, Reached
<1> QED BY <1>7, <1>8, <1>9, <1>10, <1>11 DEF Inv

LEMMA ReadStatusInv ==
  ASSUME Inv, NEW r \in Requests, ReadStatus(r)
  PROVE  Inv'
BY IdleIsQuiet, QuietInv, ReadInv DEF ReadStatus, Current, End

LEMMA ReadDomainInv ==
  ASSUME Inv, NEW r \in Requests, ReadDomain(r)
  PROVE  Inv'
<1>1. ~IsStatusChange(Op(r))
  BY OpTypes, RequestTypes DEF ReadDomain, Inv
<1> QED BY <1>1, IdleIsQuiet, QuietInv, ReadInv DEF ReadDomain, Current, End

(* A host leads to a Store that has it for its Subdomain, or for its domain. *)
LEMMA HostLeadsToItsOwn ==
  ASSUME TypeOK, NEW h \in Hosts
  PROVE  /\ ResolveStoreByHost(h) \in StoreIds \cup {None}
         /\ ResolveStoreByHost(h) # None =>
              \/ subdomain[ResolveStoreByHost(h)] = h
              \/ h \in Domains /\ domain[h].store = ResolveStoreByHost(h)
<1>1. StoreOfSubdomain(h) \in StoreIds \cup {None}
  BY DEF StoreOfSubdomain
<1>2. StoreOfSubdomain(h) # None => subdomain[StoreOfSubdomain(h)] = h
  BY DEF StoreOfSubdomain
<1>3. StoreOfDomain(h) \in StoreIds \cup {None}
  BY DEF StoreOfDomain, TypeOK
<1>4. StoreOfDomain(h) # None => domain[h].store = StoreOfDomain(h)
  BY DEF StoreOfDomain
<1> QED BY <1>1, <1>2, <1>3, <1>4 DEF ResolveStoreByHost

LEMMA VisitInv ==
  ASSUME Inv, NEW r \in Requests, Visit(r)
  PROVE  Inv'
<1>1. Op(r) \in Ops /\ req[r] \in Served /\ Op(r).row \in Hosts
  BY RequestTypes, OpTypes DEF Inv, Visit
<1> DEFINE s == ResolveStoreByHost(Op(r).row)
<1>2. s \in StoreIds \cup {None}
  BY <1>1, HostLeadsToItsOwn DEF Inv
<1>3. s # None => subdomain[s] = Op(r).row \/ (Op(r).row \in Domains /\ domain[Op(r).row].store = s)
  BY <1>1, HostLeadsToItsOwn DEF Inv
<1>4. req' = [req EXCEPT ![r].pc = "served", ![r].seen = s] /\ UNCHANGED Tables
  BY DEF Visit, Saw
<1> HIDE DEF s
<1>5. \A q \in Requests : q # r => req'[q] = req[q] /\ Op(q)' = Op(q)
  BY <1>4 DEF Inv, TypeOK, Op
<1>6. req'[r].pc = "served" /\ Op(r)' = Op(r) /\ req'[r].seen = s /\ req'[r] \in Served
  BY <1>1, <1>2, <1>4 DEF Inv, TypeOK, Served, Op
<1>7. req' \in [Requests -> Served \cup {Idle}]
  BY <1>4, <1>5, <1>6 DEF Inv, TypeOK, Served
<1>8. TypeOK'
  BY <1>4, <1>7 DEF Inv, TypeOK, Tables, Served
<1>9. EachToItsOwn'
  BY <1>3, <1>4, <1>5, <1>6 DEF Inv, EachToItsOwn, Tables, Exists, IsStatusChange
<1>10. Alone'
  BY <1>5, <1>6 DEF Inv, Alone
<1>11. Knows'
  BY <1>4, <1>5, <1>6 DEF Inv, Knows, Current, IsStatusChange, IsDomainChange, Tables
<1>12. Reached'
  BY <1>2, <1>5, <1>6 DEF Inv, Reached
<1> QED BY <1>8, <1>9, <1>10, <1>11, <1>12 DEF Inv

-----------------------------------------------------------------------------
LEMMA ChangeRoleInv ==
  ASSUME Inv, NEW u \in Users, NEW s \in StoreIds, NEW x \in {"admin", "staff", "none"},
         ChangeRole(u, s, x)
  PROVE  Inv'
<1>1. role' \in [Users -> [StoreIds -> Roles \cup {"none"}]]
  BY DEF ChangeRole, Inv, TypeOK, Roles
<1> QED BY <1>1 DEF ChangeRole, Inv, TypeOK, EachToItsOwn, Alone, Knows, Reached, Current, Op, Exists,
                    IsStatusChange, IsDomainChange

LEMMA NextInv == Inv /\ [Next]_vars => Inv'
<1> SUFFICES ASSUME Inv, [Next]_vars PROVE Inv'
  OBVIOUS
<1>1. CASE UNCHANGED vars
  BY <1>1 DEF vars, Inv, TypeOK, EachToItsOwn, Alone, Knows, Reached, Current, Op, Exists,
              IsStatusChange, IsDomainChange
<1>2. CASE Next
  BY <1>2, StartInv, AuthorizeInv, CreateStoreInv, AddDomainInv, ReadStatusInv, ReadDomainInv,
     WriteStatusInv, WriteDomainInv, VisitInv, FailInv, ChangeRoleInv DEF Next
<1> QED BY <1>1, <1>2

-----------------------------------------------------------------------------
(* What is written was allowed for the status that was read, and that is the
   row's.                                                                   *)
StatusesMove == \A s \in StoreIds : Legal(StatusMoves, status[s], status'[s])
DomainsMove ==
  \A h \in Hosts : domain[h].store # None =>
    /\ domain'[h].store = domain[h].store
    /\ Legal(DomainMoves, domain[h].status, domain'[h].status)

LEMMA StatusWriteIsLegal ==
  ASSUME Inv, NEW r \in Requests, WriteStatus(r)
  PROVE  StatusesMove
<1>1. Op(r).row \in StoreIds /\ req[r].seen = status[Op(r).row]
  BY OpTypes, RequestTypes DEF Inv, Knows, Current, WriteStatus
<1>2. CASE UNCHANGED status
  BY <1>2 DEF StatusesMove, Legal
<1>3. ASSUME NEW x \in Statuses, Transition(StatusMoves, r, x),
             status' = [status EXCEPT ![Op(r).row] = x]
      PROVE  StatusesMove
  <2>1. <<status[Op(r).row], Op(r).event, x>> \in StatusMoves
    BY <1>1, <1>3 DEF Transition
  <2>2. Op(r).event \in {m[2] : m \in StatusMoves}
    BY <2>1
  <2> QED BY <1>1, <1>3, <2>1, <2>2 DEF StatusesMove, Legal, Inv, TypeOK
<1> QED BY <1>2, <1>3 DEF WriteStatus

LEMMA DomainWriteIsLegal ==
  ASSUME Inv, NEW r \in Requests, WriteDomain(r)
  PROVE  DomainsMove
<1>1. Op(r).row \in Hosts /\ req[r].seen = domain[Op(r).row].status
  BY OpTypes, RequestTypes DEF Inv, Knows, Current, WriteDomain
<1>2. CASE UNCHANGED domain
  BY <1>2 DEF DomainsMove, Legal
<1>3. ASSUME NEW x \in Verifications, Transition(DomainMoves, r, x),
             domain' = [domain EXCEPT ![Op(r).row].status = x]
      PROVE  DomainsMove
  <2>1. <<domain[Op(r).row].status, Op(r).event, x>> \in DomainMoves
    BY <1>1, <1>3 DEF Transition
  <2>2. Op(r).event \in {m[2] : m \in DomainMoves}
    BY <2>1
  <2>3. \A h \in Hosts : domain'[h] = IF h = Op(r).row THEN [domain[h] EXCEPT !.status = x] ELSE domain[h]
    BY <1>3 DEF Inv, TypeOK
  <2>4. \A h \in Hosts : domain'[h].store = domain[h].store
    BY <2>3 DEF Inv, TypeOK
  <2>5. domain'[Op(r).row].status = x
    BY <1>1, <1>3 DEF Inv, TypeOK
  <2> QED BY <1>1, <2>1, <2>2, <2>3, <2>4, <2>5 DEF DomainsMove, Legal
<1> QED BY <1>2, <1>3 DEF WriteDomain

LEMMA AddIsLegal ==
  ASSUME Inv, NEW r \in Requests, AddDomain(r)
  PROVE  DomainsMove
BY DEF Inv, TypeOK, AddDomain, DomainsMove, Legal

LEMMA MovesAreLegal == Inv /\ [Next]_vars => (StatusesMove /\ DomainsMove)
<1> SUFFICES ASSUME Inv, [Next]_vars PROVE StatusesMove /\ DomainsMove
  OBVIOUS
<1>1. UNCHANGED status => StatusesMove
  BY DEF StatusesMove, Legal
<1>2. UNCHANGED domain => DomainsMove
  BY DEF DomainsMove, Legal
<1>3. CASE UNCHANGED vars
  BY <1>1, <1>2, <1>3 DEF vars
<1>4. ASSUME NEW r \in Requests, WriteStatus(r) PROVE StatusesMove /\ DomainsMove
  BY <1>2, <1>4, StatusWriteIsLegal DEF WriteStatus
<1>5. ASSUME NEW r \in Requests, WriteDomain(r) \/ AddDomain(r) PROVE StatusesMove /\ DomainsMove
  BY <1>1, <1>5, DomainWriteIsLegal, AddIsLegal DEF WriteDomain, AddDomain
<1>6. ASSUME NEW r \in Requests,
             \/ \E op \in Ops : Start(r, op)
             \/ Authorize(r) \/ CreateStore(r) \/ ReadStatus(r) \/ ReadDomain(r) \/ Visit(r) \/ Fail(r)
      PROVE  StatusesMove /\ DomainsMove
  BY <1>1, <1>2, <1>6 DEF Start, Authorize, CreateStore, ReadStatus, ReadDomain, Visit, Fail, Tables
<1>7. ASSUME NEW u \in Users, NEW s \in StoreIds, NEW x \in {"admin", "staff", "none"},
             ChangeRole(u, s, x)
      PROVE  StatusesMove /\ DomainsMove
  BY <1>1, <1>2, <1>7 DEF ChangeRole
<1> QED BY <1>3, <1>4, <1>5, <1>6, <1>7 DEF Next

-----------------------------------------------------------------------------
(* The invariant of everything that requests do to Stores and domains. *)
THEOREM StoresInvariant == Spec => []Inv
BY InitInv, NextInv, PTL DEF Spec

(* Every variable keeps its type, and no two Stores ever have one Subdomain,
   although the form's check that it is free is made before the INSERT
   (stores_subdomain_key). *)
THEOREM StoresTypes == Spec => []TypeOK
<1>1. Inv => TypeOK
  BY DEF Inv
<1> QED BY <1>1, StoresInvariant, PTL

(* A host leads to the Store whose Subdomain or domain it is, whatever
   custom_domains held at first, and no request changes a row of a Store it
   was not made for. *)
THEOREM HostsLeadHome == Spec => []EachToItsOwn
<1>1. Inv => EachToItsOwn
  BY DEF Inv
<1> QED BY <1>1, StoresInvariant, PTL

(* Statuses of Stores and domains follow their state machines, however many
   requests act on what they read before. *)
THEOREM StatusesFollowTheirMachines == Spec => LegalMoves
<1>1. Inv /\ [Next]_vars =>
        [/\ \A s \in StoreIds : Legal(StatusMoves, status[s], status'[s])
         /\ \A h \in Hosts : domain[h].store # None =>
              /\ domain'[h].store = domain[h].store
              /\ Legal(DomainMoves, domain[h].status, domain'[h].status)]_vars
  BY MovesAreLegal DEF StatusesMove, DomainsMove
<1> QED BY <1>1, StoresInvariant, PTL DEF Spec, LegalMoves

-----------------------------------------------------------------------------
(***************************************************************************)
(* The discounts of a Store (module Discounts), for any discounts, Orders  *)
(* and calls: a discount is redeemed once per Order and never past its     *)
(* limit, and what a call answers is true.                                 *)
(*                                                                         *)
(* A call that holds the row's lock is alone with it (OneHolder): so the   *)
(* count it read is the row's, and once it has found the discount neither  *)
(* redeemed for its Order nor used up, it stays so until it commits        *)
(* (KnowsRow).  A call that was told that the limit is reached saw a count *)
(* that only grows (StaysUsedUp), so nobody redeems the discount after it. *)
(***************************************************************************)
OneHolder ==
  \A c, b \in Calls :
    calls[c].pc \in Holding /\ calls[b].pc \in Holding /\ calls[c].discount = calls[b].discount
    => c = b

KnowsOf(c) ==
  calls[c].pc \in Holding =>
    /\ discounts[calls[c].discount] # Absent
    /\ calls[c].usageCount = discounts[calls[c].discount].usageCount
    /\ calls[c].pc # "locked" => ~Redeemed(c) /\ ~UsedUp(c)
KnowsRow == \A c \in Calls : KnowsOf(c)

CallsNamed == \A c \in Calls : calls[c].pc # "idle" =>
           calls[c].discount \in DiscountIds /\ calls[c].order \in Orders

StaysUsedUpOf(c) ==
  calls[c].pc = "done" /\ calls[c].answer = "usage_limit_reached" =>
    /\ discounts[calls[c].discount] # Absent
    /\ calls[c].usageCount <= discounts[calls[c].discount].usageCount
StaysUsedUp == \A c \in Calls : StaysUsedUpOf(c)

TrueOf(c) ==
  calls[c].pc = "done" =>
    /\ calls[c].answer \in {"ok", "already_redeemed"} => Redeemed(c)
    /\ calls[c].answer = "usage_limit_reached" => ~Redeemed(c) /\ UsedUp(c)

FinitelyRedeemed == IsFiniteSet(redemptions)

DiscountsInv ==
  /\ DiscountsTypeOK /\ FinitelyRedeemed /\ UsedOncePerOrder
  /\ OneHolder /\ KnowsRow /\ CallsNamed /\ StaysUsedUp /\ AnswersAreTrue

-----------------------------------------------------------------------------
LEMMA DiscountsInitInv == DiscountsInit => DiscountsInv
<1> SUFFICES ASSUME DiscountsInit PROVE DiscountsInv
  OBVIOUS
<1>1. \A c \in Calls : calls[c] = NoCall
  BY DEF DiscountsInit
<1>2. DiscountsTypeOK
  BY <1>1 DEF DiscountsInit, DiscountsTypeOK, NoCall, Call
<1>3. FinitelyRedeemed
  BY FS_EmptySet DEF DiscountsInit, FinitelyRedeemed
<1>4. UsedOncePerOrder
  BY DEF DiscountsInit, UsedOncePerOrder, RedemptionsOf
<1> QED BY <1>1, <1>2, <1>3, <1>4
        DEF DiscountsInv, OneHolder, KnowsRow, KnowsOf, CallsNamed, StaysUsedUp, StaysUsedUpOf, AnswersAreTrue,
            NoCall, Holding

(* A step that writes no table and moves call c to x keeps the invariant if
   what x knows and answers is so. *)
LEMMA RedemptionQuiet ==
  ASSUME DiscountsInv, NEW c \in Calls, NEW x \in Call, Set(c, x),
         UNCHANGED <<discounts, redemptions>>,
         x.pc # "idle" => x.discount \in DiscountIds /\ x.order \in Orders,
         x.pc \in Holding => \A b \in Calls : b # c /\ calls[b].pc \in Holding =>
                                calls[b].discount # x.discount,
         KnowsOf(c)', StaysUsedUpOf(c)', TrueOf(c)'
  PROVE  DiscountsInv'
<1>1. calls'[c] = x /\ \A b \in Calls : b # c => calls'[b] = calls[b]
  BY DEF Set, DiscountsInv, DiscountsTypeOK
<1>2. DiscountsTypeOK'
  BY DEF Set, DiscountsInv, DiscountsTypeOK
<1>3. FinitelyRedeemed' /\ UsedOncePerOrder'
  BY DEF DiscountsInv, FinitelyRedeemed, UsedOncePerOrder, RedemptionsOf
<1>4. OneHolder'
  BY <1>1 DEF DiscountsInv, OneHolder
<1>5. CallsNamed'
  BY <1>1 DEF DiscountsInv, CallsNamed
<1>6. ASSUME NEW b \in Calls, b # c PROVE KnowsOf(b)' /\ StaysUsedUpOf(b)' /\ TrueOf(b)'
  <2>1. KnowsOf(b) /\ StaysUsedUpOf(b) /\ TrueOf(b)
    BY DEF DiscountsInv, KnowsRow, StaysUsedUp, AnswersAreTrue, TrueOf
  <2>2. calls'[b] = calls[b] /\ discounts' = discounts /\ redemptions' = redemptions
    BY <1>1, <1>6
  <2> QED BY <2>1, <2>2 DEF KnowsOf, StaysUsedUpOf, TrueOf, Redeemed, UsedUp
<1>7. KnowsRow' /\ StaysUsedUp' /\ AnswersAreTrue'
  <2>1. \A b \in Calls : KnowsOf(b)' /\ StaysUsedUpOf(b)' /\ TrueOf(b)'
    BY <1>6
  <2> QED BY <2>1 DEF KnowsRow, StaysUsedUp, AnswersAreTrue, TrueOf
<1> QED BY <1>2, <1>3, <1>4, <1>5, <1>7 DEF DiscountsInv

(* A call that fails, or finds no discount, says nothing about it. *)
LEMMA RedemptionFails ==
  ASSUME DiscountsInv, NEW c \in Calls, calls[c].pc # "idle", Answer(c, "error"),
         UNCHANGED <<discounts, redemptions>>
  PROVE  DiscountsInv'
<1> DEFINE x == [calls[c] EXCEPT !.pc = "done", !.answer = "error"]
<1>1. x \in Call /\ x.pc = "done" /\ x.answer = "error"
  BY DEF DiscountsInv, DiscountsTypeOK, Call, Answers
<1>2. x.discount \in DiscountIds /\ x.order \in Orders
  BY DEF DiscountsInv, CallsNamed, DiscountsTypeOK, Call
<1>3. Set(c, x)
  BY DEF Answer
<1> HIDE DEF x
<1>4. calls'[c] = x
  BY <1>3 DEF Set, DiscountsInv, DiscountsTypeOK
<1>5. KnowsOf(c)' /\ StaysUsedUpOf(c)' /\ TrueOf(c)'
  BY <1>1, <1>4 DEF KnowsOf, StaysUsedUpOf, TrueOf, Holding
<1> QED BY <1>1, <1>2, <1>3, <1>5, RedemptionQuiet DEF Holding

LEMMA RedeemInv ==
  ASSUME DiscountsInv, NEW c \in Calls, NEW d \in DiscountIds, NEW o \in Orders, Redeem(c, d, o)
  PROVE  DiscountsInv'
<1> DEFINE x == [NoCall EXCEPT !.pc = "waiting", !.discount = d, !.order = o]
<1>1. x \in Call /\ x.pc = "waiting" /\ x.discount = d /\ x.order = o
  BY DEF NoCall, Call
<1>2. Set(c, x) /\ UNCHANGED <<discounts, redemptions>>
  BY DEF Redeem
<1> HIDE DEF x
<1>3. calls'[c] = x
  BY <1>2 DEF Set, DiscountsInv, DiscountsTypeOK
<1>4. KnowsOf(c)' /\ StaysUsedUpOf(c)' /\ TrueOf(c)'
  BY <1>1, <1>3 DEF KnowsOf, StaysUsedUpOf, TrueOf, Holding
<1> QED BY <1>1, <1>2, <1>4, RedemptionQuiet DEF Holding

LEMMA LockInv ==
  ASSUME DiscountsInv, NEW c \in Calls, Lock(c)
  PROVE  DiscountsInv'
<1> DEFINE d == calls[c].discount
<1>1. d \in DiscountIds /\ calls[c].order \in Orders /\ calls[c] \in Call /\ calls[c].pc = "waiting"
  BY DEF Lock, At, DiscountsInv, CallsNamed, DiscountsTypeOK
<1>2. UNCHANGED <<discounts, redemptions>>
  BY DEF Lock
<1>3. CASE discounts[d] = Absent /\ Answer(c, "error")
  BY <1>1, <1>2, <1>3, RedemptionFails
<1>4. CASE /\ discounts[d] # Absent
           /\ Set(c, [calls[c] EXCEPT !.pc = "locked", !.usageCount = discounts[d].usageCount])
  <2> DEFINE x == [calls[c] EXCEPT !.pc = "locked", !.usageCount = discounts[d].usageCount]
  <2>1. discounts[d] \in Row
    BY <1>1, <1>4 DEF DiscountsInv, DiscountsTypeOK
  <2>2. x \in Call
    BY <1>1, <2>1 DEF Call, Row, Holding
  <2>3. x.pc = "locked" /\ x.discount = d /\ x.order = calls[c].order
        /\ x.usageCount = discounts[d].usageCount
    BY <1>1 DEF Call
  <2>4. Set(c, x)
    BY <1>4
  <2>5. \A b \in Calls : calls[b].pc \in Holding => calls[b].discount # d
    BY DEF Lock, Unlocked
  <2> HIDE DEF x
  <2>6. calls'[c] = x
    BY <2>4 DEF Set, DiscountsInv, DiscountsTypeOK
  <2>7. KnowsOf(c)' /\ StaysUsedUpOf(c)' /\ TrueOf(c)'
    BY <1>2, <1>4, <2>3, <2>6 DEF KnowsOf, StaysUsedUpOf, TrueOf
  <2> QED BY <1>1, <1>2, <2>2, <2>3, <2>4, <2>5, <2>7, RedemptionQuiet
<1> QED BY <1>3, <1>4 DEF Lock

LEMMA CountInv ==
  ASSUME DiscountsInv, NEW c \in Calls, Count(c)
  PROVE  DiscountsInv'
<1>1. calls[c] \in Call /\ calls[c].pc = "locked" /\ UNCHANGED <<discounts, redemptions>>
      /\ calls[c].discount \in DiscountIds /\ calls[c].order \in Orders
  BY DEF Count, At, DiscountsInv, CallsNamed, DiscountsTypeOK
<1>2. KnowsOf(c)
  BY DEF DiscountsInv, KnowsRow
<1>3. Absent \notin Answers
  BY DiscountsAssumption
<1>4. \A b \in Calls : b # c /\ calls[b].pc \in Holding => calls[b].discount # calls[c].discount
  BY <1>1 DEF DiscountsInv, OneHolder, Holding
<1>5. CASE Refusal(c) = Absent
  <2> DEFINE x == [calls[c] EXCEPT !.pc = "counted"]
  <2>1. x \in Call /\ x.pc = "counted" /\ x.discount = calls[c].discount /\ x.order = calls[c].order
        /\ x.usageCount = calls[c].usageCount
    BY <1>1 DEF Call, Holding
  <2>2. Set(c, x)
    BY <1>5 DEF Count, Goto
  <2> HIDE DEF x
  <2>3. calls'[c] = x
    BY <2>2 DEF Set, DiscountsInv, DiscountsTypeOK
  <2>4. ~Redeemed(c) /\ ~UsedUp(c)
    BY <1>3, <1>5 DEF Refusal, Answers
  <2>5. KnowsOf(c)' /\ StaysUsedUpOf(c)' /\ TrueOf(c)'
    BY <1>1, <1>2, <2>1, <2>3, <2>4
       DEF KnowsOf, StaysUsedUpOf, TrueOf, Holding, Redeemed, UsedUp
  <2> QED BY <1>1, <1>4, <2>1, <2>2, <2>5, RedemptionQuiet
<1>6. CASE Refusal(c) # Absent
  <2> DEFINE x == [calls[c] EXCEPT !.pc = "done", !.answer = Refusal(c)]
  <2>1. Refusal(c) \in Answers
    BY <1>6 DEF Refusal, Answers
  <2>2. x \in Call /\ x.pc = "done" /\ x.discount = calls[c].discount /\ x.order = calls[c].order
        /\ x.usageCount = calls[c].usageCount /\ x.answer = Refusal(c)
    BY <1>1, <2>1 DEF Call
  <2>3. Set(c, x)
    BY <1>6 DEF Count, Answer
  <2> HIDE DEF x
  <2>4. calls'[c] = x
    BY <2>3 DEF Set, DiscountsInv, DiscountsTypeOK
  <2>5. /\ Refusal(c) \in {"ok", "already_redeemed"} => Redeemed(c)
        /\ Refusal(c) = "usage_limit_reached" => ~Redeemed(c) /\ UsedUp(c)
    BY <1>6 DEF Refusal
  <2>6. discounts[calls[c].discount] # Absent
        /\ calls[c].usageCount = discounts[calls[c].discount].usageCount
    BY <1>1, <1>2 DEF KnowsOf, Holding
  <2>7. KnowsOf(c)' /\ TrueOf(c)'
    BY <1>1, <2>2, <2>4, <2>5 DEF KnowsOf, TrueOf, Holding, Redeemed, UsedUp
  <2>8. calls[c].usageCount <= discounts[calls[c].discount].usageCount
    BY <1>1, <2>6 DEF Call
  <2>9. StaysUsedUpOf(c)'
    BY <1>1, <2>2, <2>4, <2>6, <2>8 DEF StaysUsedUpOf
  <2> QED BY <1>1, <2>2, <2>3, <2>7, <2>9, RedemptionQuiet DEF Holding
<1> QED BY <1>5, <1>6

LEMMA RecordInv ==
  ASSUME DiscountsInv, NEW c \in Calls, Record(c)
  PROVE  DiscountsInv'
<1> DEFINE x == [calls[c] EXCEPT !.pc = "recorded"]
<1>1. calls[c] \in Call /\ calls[c].pc = "counted" /\ UNCHANGED <<discounts, redemptions>>
      /\ calls[c].discount \in DiscountIds /\ calls[c].order \in Orders
  BY DEF Record, At, DiscountsInv, CallsNamed, DiscountsTypeOK
<1>2. x \in Call /\ x.pc = "recorded" /\ x.discount = calls[c].discount /\ x.order = calls[c].order
      /\ x.usageCount = calls[c].usageCount
  BY <1>1 DEF Call, Holding
<1>3. Set(c, x)
  BY DEF Record, Goto
<1> HIDE DEF x
<1>4. calls'[c] = x
  BY <1>3 DEF Set, DiscountsInv, DiscountsTypeOK
<1>5. KnowsOf(c)
  BY DEF DiscountsInv, KnowsRow
<1>6. KnowsOf(c)' /\ StaysUsedUpOf(c)' /\ TrueOf(c)'
  BY <1>1, <1>2, <1>4, <1>5 DEF KnowsOf, StaysUsedUpOf, TrueOf, Holding, Redeemed, UsedUp
<1>7. \A b \in Calls : b # c /\ calls[b].pc \in Holding => calls[b].discount # x.discount
  BY <1>1, <1>2 DEF DiscountsInv, OneHolder, Holding
<1> QED BY <1>1, <1>2, <1>3, <1>6, <1>7, RedemptionQuiet

-----------------------------------------------------------------------------
(* Nobody redeems a discount that is not there yet, so a new one finds no
   redemptions and no call that knows it.                                  *)
LEMMA CreateDiscountInv ==
  ASSUME DiscountsInv, NEW d \in DiscountIds, NEW offer \in Offers, CreateDiscount(d, offer)
  PROVE  DiscountsInv'
<1> DEFINE row == [reward |-> Stored(offer.reward), usageLimit |-> ParseLimit(offer.usageLimit),
                   usageCount |-> 0]
<1>1. row \in Row /\ row.usageCount = 0
  <2>1. Stored(offer.reward) \in Rewards
    BY DEF Rewards
  <2> QED BY <2>1, DiscountsAssumption DEF Row, ParseLimit
<1>2. row # Absent
  BY <1>1, DiscountsAssumption
<1>3. /\ discounts[d] = Absent /\ discounts' = [discounts EXCEPT ![d] = row]
      /\ redemptions' = redemptions /\ calls' = calls
  BY DEF CreateDiscount
<1> HIDE DEF row
<1>4. discounts'[d] = row /\ \A e \in DiscountIds : e # d => discounts'[e] = discounts[e]
  BY <1>3 DEF DiscountsInv, DiscountsTypeOK
<1>5. DiscountsTypeOK'
  BY <1>1, <1>3 DEF DiscountsInv, DiscountsTypeOK
<1>6. UsedOncePerOrder'
  <2> SUFFICES ASSUME NEW e \in DiscountIds
               PROVE  IF discounts'[e] = Absent THEN RedemptionsOf(e)' = {}
                      ELSE /\ discounts'[e].usageCount = Cardinality(RedemptionsOf(e)')
                           /\ \/ discounts'[e].usageLimit = NoLimit
                              \/ discounts'[e].usageCount = 0
                              \/ discounts'[e].usageCount <= discounts'[e].usageLimit
    BY DEF UsedOncePerOrder
  <2>1. RedemptionsOf(e)' = RedemptionsOf(e)
    BY <1>3 DEF RedemptionsOf
  <2>2. CASE e = d
    <3>1. RedemptionsOf(d) = {}
      BY <1>3 DEF DiscountsInv, UsedOncePerOrder
    <3> QED BY <1>1, <1>2, <1>4, <2>1, <2>2, <3>1, FS_EmptySet
  <2>3. CASE e # d
    BY <1>4, <2>1, <2>3 DEF DiscountsInv, UsedOncePerOrder
  <2> QED BY <2>2, <2>3
<1>7. ASSUME NEW c \in Calls PROVE KnowsOf(c)' /\ StaysUsedUpOf(c)' /\ TrueOf(c)'
  <2>1. KnowsOf(c) /\ StaysUsedUpOf(c) /\ TrueOf(c)
    BY DEF DiscountsInv, KnowsRow, StaysUsedUp, AnswersAreTrue, TrueOf
  <2>2. calls[c].pc # "idle" => calls[c].discount \in DiscountIds
    BY DEF DiscountsInv, CallsNamed
  <2> QED BY <1>3, <1>4, <2>1, <2>2
          DEF KnowsOf, StaysUsedUpOf, TrueOf, Redeemed, UsedUp, Holding
<1>8. KnowsRow' /\ StaysUsedUp' /\ AnswersAreTrue'
  BY <1>7 DEF KnowsRow, StaysUsedUp, AnswersAreTrue, TrueOf
<1>9. OneHolder' /\ CallsNamed' /\ FinitelyRedeemed'
  BY <1>3 DEF DiscountsInv, FinitelyRedeemed, OneHolder, CallsNamed
<1> QED BY <1>5, <1>6, <1>8, <1>9 DEF DiscountsInv

(* The one step that redeems. *)
LEMMA RedemptionCommit ==
  ASSUME DiscountsInv, NEW c \in Calls, Commit(c)
  PROVE  DiscountsInv'
<1>a. PICK d \in DiscountIds, o \in Orders : d = calls[c].discount /\ o = calls[c].order
  BY DEF Commit, At, DiscountsInv, CallsNamed
<1>b. PICK n : n = discounts[d].usageCount
  OBVIOUS
<1>1. /\ calls[c] \in Call /\ calls[c].pc = "recorded"
      /\ d = calls[c].discount /\ o = calls[c].order /\ n = discounts[d].usageCount
      /\ redemptions' = redemptions \cup {<<d, o>>}
      /\ discounts' = [discounts EXCEPT ![d].usageCount = @ + 1]
  BY <1>a, <1>b DEF Commit, At, DiscountsInv, DiscountsTypeOK
<1>2. PICK answer \in {"ok", "error"} : Answer(c, answer)
  BY DEF Commit
<1>3. discounts[d] # Absent /\ calls[c].usageCount = n /\ ~Redeemed(c) /\ ~UsedUp(c)
  BY <1>1 DEF DiscountsInv, KnowsRow, KnowsOf, Holding
<1>4. discounts[d] \in Row
  BY <1>1, <1>3 DEF DiscountsInv, DiscountsTypeOK
<1>5. /\ discounts'[d] \in Row /\ discounts'[d] # Absent
      /\ discounts'[d].usageCount = n + 1 /\ discounts'[d].usageLimit = discounts[d].usageLimit
      /\ n \in Nat
  <2>1. discounts'[d] = [discounts[d] EXCEPT !.usageCount = @ + 1]
    BY <1>1 DEF DiscountsInv, DiscountsTypeOK
  <2>2. discounts'[d] \in Row
    BY <1>4, <2>1 DEF Row
  <2> QED BY <1>1, <1>4, <2>1, <2>2, DiscountsAssumption DEF Row
<1>6. \A e \in DiscountIds : e # d => discounts'[e] = discounts[e]
  BY <1>1 DEF DiscountsInv, DiscountsTypeOK
<1>7. calls'[c] = [calls[c] EXCEPT !.pc = "done", !.answer = answer]
      /\ \A b \in Calls : b # c => calls'[b] = calls[b]
  BY <1>2 DEF Answer, Set, DiscountsInv, DiscountsTypeOK
<1>8. /\ calls'[c].pc = "done" /\ calls'[c].discount = d /\ calls'[c].order = o
      /\ calls'[c].answer = answer /\ calls'[c] \in Call
  BY <1>1, <1>7 DEF Call, Answers
<1>9. discounts[d].usageLimit = NoLimit \/ n < discounts[d].usageLimit
  BY <1>1, <1>3, <1>4, <1>5 DEF UsedUp, Row
<1>10. <<d, o>> \notin redemptions
  BY <1>1, <1>3 DEF Redeemed
<1>11. DiscountsTypeOK'
  <2>1. discounts' \in [DiscountIds -> Row \cup {Absent}]
    BY <1>1, <1>5, <1>6 DEF DiscountsInv, DiscountsTypeOK
  <2>2. redemptions' \subseteq DiscountIds \X Orders
    BY <1>1 DEF DiscountsInv, DiscountsTypeOK
  <2>3. calls' \in [Calls -> Call]
    BY <1>2, <1>7, <1>8 DEF Answer, Set, DiscountsInv, DiscountsTypeOK
  <2> QED BY <2>1, <2>2, <2>3 DEF DiscountsTypeOK
<1>12. FinitelyRedeemed'
  <2>1. IsFiniteSet(redemptions)
    BY DEF DiscountsInv, FinitelyRedeemed
  <2>2. IsFiniteSet(redemptions \cup {<<d, o>>})
    BY <2>1, FS_AddElement
  <2> QED BY <1>1, <2>2 DEF FinitelyRedeemed
<1>13. OneHolder' /\ CallsNamed'
  <2>1. \A b \in Calls : b # c => calls'[b] = calls[b]
    BY <1>7
  <2>2. OneHolder'
    BY <1>8, <2>1 DEF DiscountsInv, OneHolder, Holding
  <2>3. CallsNamed'
    BY <1>8, <2>1 DEF DiscountsInv, CallsNamed
  <2> QED BY <2>2, <2>3
<1>14. UsedOncePerOrder'
  <2> SUFFICES ASSUME NEW e \in DiscountIds
               PROVE  IF discounts'[e] = Absent THEN RedemptionsOf(e)' = {}
                      ELSE /\ discounts'[e].usageCount = Cardinality(RedemptionsOf(e)')
                           /\ \/ discounts'[e].usageLimit = NoLimit
                              \/ discounts'[e].usageCount = 0
                              \/ discounts'[e].usageCount <= discounts'[e].usageLimit
    BY DEF UsedOncePerOrder
  <2>1. CASE e = d
    <3>1. RedemptionsOf(d)' = RedemptionsOf(d) \cup {<<d, o>>}
      BY <1>1 DEF RedemptionsOf
    <3>2. IsFiniteSet(RedemptionsOf(d))
      BY FS_Subset DEF RedemptionsOf, DiscountsInv, FinitelyRedeemed
    <3>3. <<d, o>> \notin RedemptionsOf(d)
      BY <1>10 DEF RedemptionsOf
    <3>4. Cardinality(RedemptionsOf(d)') = Cardinality(RedemptionsOf(d)) + 1
      BY <3>1, <3>2, <3>3, FS_AddElement
    <3>5. n = Cardinality(RedemptionsOf(d))
      BY <1>1, <1>3 DEF DiscountsInv, UsedOncePerOrder
    <3>6. discounts[d].usageLimit \in Nat \cup {NoLimit}
      BY <1>4 DEF Row
    <3> QED BY <1>5, <1>9, <2>1, <3>4, <3>5, <3>6
  <2>2. CASE e # d
    <3>1. RedemptionsOf(e)' = RedemptionsOf(e)
      BY <1>1, <2>2 DEF RedemptionsOf
    <3> QED BY <1>6, <2>2, <3>1 DEF DiscountsInv, UsedOncePerOrder
  <2> QED BY <2>1, <2>2
<1>15. KnowsOf(c)' /\ StaysUsedUpOf(c)' /\ TrueOf(c)'
  BY <1>1, <1>8 DEF KnowsOf, StaysUsedUpOf, TrueOf, Holding, Redeemed
<1>16. ASSUME NEW b \in Calls, b # c PROVE KnowsOf(b)' /\ StaysUsedUpOf(b)' /\ TrueOf(b)'
  <2>1. KnowsOf(b) /\ StaysUsedUpOf(b) /\ TrueOf(b)
    BY DEF DiscountsInv, KnowsRow, StaysUsedUp, AnswersAreTrue, TrueOf
  <2>2. calls[b].pc # "idle" => calls[b].discount \in DiscountIds
    BY DEF DiscountsInv, CallsNamed
  <2>3. calls'[b] = calls[b] /\ calls[b] \in Call
    BY <1>7, <1>16 DEF DiscountsInv, DiscountsTypeOK
  <2>4. CASE calls[b].discount # d
    BY <1>1, <1>6, <2>1, <2>2, <2>3, <2>4
       DEF KnowsOf, StaysUsedUpOf, TrueOf, Redeemed, UsedUp, Holding
  <2>5. CASE calls[b].discount = d
    <3>1. calls[b].pc \notin Holding
      BY <1>1, <1>16, <2>5 DEF DiscountsInv, OneHolder, Holding
    <3>2. ~(calls[b].pc = "done" /\ calls[b].answer = "usage_limit_reached")
      <4> SUFFICES ASSUME calls[b].pc = "done", calls[b].answer = "usage_limit_reached"
                   PROVE  FALSE
        OBVIOUS
      <4>1. calls[b].usageCount <= n /\ UsedUp(b)
        BY <1>1, <2>1, <2>5 DEF StaysUsedUpOf, TrueOf
      <4>2. calls[b].usageCount \in Nat
        BY <2>3 DEF Call
      <4>3. discounts[d].usageLimit \in Nat \cup {NoLimit}
        BY <1>4 DEF Row
      <4> QED BY <1>5, <1>9, <2>5, <4>1, <4>2, <4>3 DEF UsedUp
    <3> QED BY <1>1, <2>1, <2>3, <3>1, <3>2 DEF KnowsOf, StaysUsedUpOf, TrueOf, Redeemed
  <2> QED BY <2>4, <2>5
<1>17. KnowsRow' /\ StaysUsedUp' /\ AnswersAreTrue'
  <2>1. \A b \in Calls : KnowsOf(b)' /\ StaysUsedUpOf(b)' /\ TrueOf(b)'
    BY <1>15, <1>16
  <2> QED BY <2>1 DEF KnowsRow, StaysUsedUp, AnswersAreTrue, TrueOf
<1> QED BY <1>11, <1>12, <1>13, <1>14, <1>17 DEF DiscountsInv

-----------------------------------------------------------------------------
LEMMA DiscountsStep == DiscountsInv /\ [DiscountsNext]_(discountsVars) => DiscountsInv'
<1> SUFFICES ASSUME DiscountsInv, [DiscountsNext]_(discountsVars) PROVE DiscountsInv'
  OBVIOUS
<1>1. CASE UNCHANGED discountsVars
  BY <1>1 DEF discountsVars, DiscountsInv, DiscountsTypeOK, UsedOncePerOrder, RedemptionsOf, FinitelyRedeemed, OneHolder, KnowsRow, KnowsOf, CallsNamed,
              StaysUsedUp, StaysUsedUpOf, AnswersAreTrue, Redeemed, UsedUp
<1>2. ASSUME NEW c \in Calls, RedeemFails(c) PROVE DiscountsInv'
  BY <1>2, RedemptionFails DEF RedeemFails, Holding
<1>3. CASE DiscountsNext
  BY <1>2, <1>3, CreateDiscountInv, RedeemInv, LockInv, CountInv, RecordInv, RedemptionCommit DEF DiscountsNext
<1> QED BY <1>1, <1>3

(* The invariant of concurrent redemptions. *)
THEOREM DiscountsInvariant == DiscountsSpec => []DiscountsInv
BY DiscountsInitInv, DiscountsStep, PTL DEF DiscountsSpec

(* Every variable keeps its type. *)
THEOREM DiscountsTypes == DiscountsSpec => []DiscountsTypeOK
<1>1. DiscountsInv => DiscountsTypeOK
  BY DEF DiscountsInv
<1> QED BY <1>1, DiscountsInvariant, PTL

(* A discount's usage_count is the number of Orders it was redeemed for, and
   never above its limit, however many calls redeem it at once and whatever
   fails (redeemDiscount's FOR UPDATE). *)
THEOREM RedeemedOnce == DiscountsSpec => []UsedOncePerOrder
<1>1. DiscountsInv => UsedOncePerOrder
  BY DEF DiscountsInv
<1> QED BY <1>1, DiscountsInvariant, PTL

(* What redeemDiscount answers is so, and stays so. *)
THEOREM RedemptionAnswersAreTrue == DiscountsSpec => []AnswersAreTrue
<1>1. DiscountsInv => AnswersAreTrue
  BY DEF DiscountsInv
<1> QED BY <1>1, DiscountsInvariant, PTL

-----------------------------------------------------------------------------
(***************************************************************************)
(* What discounts take off (module DiscountEngine), for any cart and any   *)
(* list of rewards.                                                        *)
(*                                                                         *)
(* The engine is made of folds, and a fold chooses a solution of a         *)
(* recursion over the sets of positions of a list.  That recursion has one *)
(* (FoldExists, by induction on the last position, written out with a      *)
(* least counterexample), and any solution goes through a chain of partial *)
(* results, one per position (FoldChain).  With that each fold of the      *)
(* engine is shown to be such a chain, and what it yields is found by      *)
(* counting along it.                                                      *)
(***************************************************************************)
(* A set of numbers has a least one. *)
LEMMA LeastNumber ==
  ASSUME NEW S, S \subseteq Nat, S # {}
  PROVE  \E n \in S : \A m \in S : n <= m
<1>1. PICK n \in S : \A m \in S : ~(<<m, n>> \in OpToRel(<, Nat))
  BY WFMin, NatLessThanWellFounded
<1>2. \A m \in S : ~(m < n)
  BY <1>1 DEF OpToRel
<1> QED BY <1>2

(* What holds of 0, and of a number once it holds of the one before it. *)
LEMMA Counting ==
  ASSUME NEW n \in Nat, NEW P, 0 \in P,
         \A k \in 1..n : k - 1 \in P => k \in P
  PROVE  \A k \in 0..n : k \in P
<1> DEFINE Bad == {k \in 0..n : k \notin P}
<1> SUFFICES ASSUME Bad # {} PROVE FALSE
  OBVIOUS
<1>1. PICK k \in Bad : \A m \in Bad : k <= m
  <2>1. Bad \subseteq Nat
    OBVIOUS
  <2> HIDE DEF Bad
  <2> QED BY <2>1, LeastNumber
<1>2. k \in 1..n /\ k - 1 \in 0..n /\ ~(k <= k - 1)
  BY <1>1
<1>3. k - 1 \notin Bad
  <2> HIDE DEF Bad
  <2> QED BY <1>1, <1>2
<1> QED BY <1>1, <1>2, <1>3

(* Max of a set of positions is its last. *)
LEMMA LastPosition ==
  ASSUME NEW n \in Nat, NEW s \in SUBSET (1..n), s # {}
  PROVE  Max(s) \in s /\ \A y \in s : Max(s) >= y
<1> DEFINE T == {n - x : x \in s}
<1>1. PICK m \in T : \A y \in T : m <= y
  <2>1. \A x \in s : x \in 1..n /\ n - x \in Nat
    OBVIOUS
  <2>2. T \subseteq Nat /\ T # {}
    BY <2>1
  <2> HIDE DEF T
  <2> QED BY <2>2, LeastNumber
<1>2. PICK x \in s : m = n - x
  BY <1>1
<1>3. \A y \in s : x >= y
  <2> TAKE y \in s
  <2>1. n - y \in T
    OBVIOUS
  <2> QED BY <1>1, <1>2, <2>1
<1> QED BY <1>3 DEF Max

LEMMA LastOfInterval ==
  ASSUME NEW k \in Nat \ {0}
  PROVE  Max(1..k) = k /\ (1..k) \ {k} = 1..(k - 1)
<1>1. k \in 1..k /\ 1..k \in SUBSET (1..k)
  OBVIOUS
<1>2. Max(1..k) \in 1..k /\ Max(1..k) >= k
  BY <1>1, LastPosition
<1> QED BY <1>1, <1>2

(* One step of FoldLeft over positions, whose steps stay in R. *)
FoldStep(step, first, fold, s) ==
  IF s = {} THEN first ELSE step[Max(s)][fold[s \ {Max(s)}]]

IsFold(fold, n, R, first, step) ==
  /\ fold \in [SUBSET (1..n) -> R]
  /\ \A s \in SUBSET (1..n) : fold[s] = FoldStep(step, first, fold, s)

LEMMA FoldExists ==
  ASSUME NEW n \in Nat, NEW R, NEW first \in R, NEW step \in [1..n -> [R -> R]]
  PROVE  \E fold : IsFold(fold, n, R, first, step)
<1> DEFINE Solves(fold, k) ==
             \A s \in SUBSET (1..k) : fold[s] = FoldStep(step, first, fold, s)
           P == {k \in Nat : \E fold \in [SUBSET (1..k) -> R] : Solves(fold, k)}
<1>1. 0 \in P
  <2>1. \A s \in SUBSET (1..0) : s = {}
    OBVIOUS
  <2>2. Solves([s \in SUBSET (1..0) |-> first], 0)
    BY <2>1 DEF FoldStep
  <2> QED BY <2>2
<1>2. ASSUME NEW k \in 1..n, k - 1 \in P PROVE k \in P
  <2>1. PICK fold \in [SUBSET (1..(k-1)) -> R] : Solves(fold, k - 1)
    BY <1>2
  <2> DEFINE next == [s \in SUBSET (1..k) |->
                        IF k \in s THEN step[k][fold[s \ {k}]] ELSE fold[s]]
  <2>2. ASSUME NEW s \in SUBSET (1..k)
        PROVE  s \ {k} \in SUBSET (1..(k - 1)) /\ s \ {k} \in SUBSET (1..k)
    OBVIOUS
  <2>3. next \in [SUBSET (1..k) -> R]
    <3> SUFFICES ASSUME NEW s \in SUBSET (1..k)
                 PROVE (IF k \in s THEN step[k][fold[s \ {k}]] ELSE fold[s]) \in R
      OBVIOUS
    <3>1. CASE k \in s
      BY <2>2, <3>1
    <3>2. CASE k \notin s
      <4>1. s = s \ {k}
        BY <3>2
      <4> QED BY <2>2, <3>2, <4>1
    <3> QED BY <3>1, <3>2
  <2>4. ASSUME NEW s \in SUBSET (1..k) PROVE next[s] = FoldStep(step, first, next, s)
    <3>1. CASE k \in s
      <4>1. Max(s) = k
        <5>1. k \in Nat /\ s # {}
          BY <3>1
        <5> HIDE DEF P, Solves, next
        <5>2. Max(s) \in s /\ \A y \in s : Max(s) >= y
          BY <5>1, LastPosition
        <5>3. Max(s) \in 1..k /\ Max(s) >= k
          BY <3>1, <5>2
        <5> QED BY <5>1, <5>3
      <4>2. next[s \ {k}] = fold[s \ {k}]
        BY <2>2
      <4> QED BY <3>1, <4>1, <4>2 DEF FoldStep
    <3>2. CASE k \notin s
      <4>1. s \in SUBSET (1..(k - 1))
        BY <3>2
      <4>2. next[s] = fold[s]
        BY <3>2
      <4>3. s \ {Max(s)} \in SUBSET (1..k) /\ k \notin s \ {Max(s)}
        BY <3>2
      <4>4. next[s \ {Max(s)}] = fold[s \ {Max(s)}]
        BY <4>3
      <4>5. fold[s] = FoldStep(step, first, fold, s)
        BY <2>1, <4>1
      <4> HIDE DEF next
      <4> QED BY <4>2, <4>4, <4>5 DEF FoldStep
    <3> QED BY <3>1, <3>2
  <2> HIDE DEF next
  <2>5. Solves(next, k)
    BY <2>4
  <2>6. k \in Nat
    OBVIOUS
  <2> QED BY <2>3, <2>5, <2>6
<1>3. n \in 0..n
  OBVIOUS
<1> HIDE DEF P
<1>4. n \in P
  BY <1>1, <1>2, <1>3, Counting
<1> QED BY <1>4 DEF P, IsFold

(* So a fold goes through a chain of partial results, one per position. *)
IsChain(f, n, R, first, step, fold) ==
  /\ f \in [0..n -> R] /\ f[0] = first /\ f[n] = fold[1..n]
  /\ \A k \in 1..n : f[k] = step[k][f[k - 1]]

LEMMA FoldChain ==
  ASSUME NEW n \in Nat, NEW R, NEW first \in R, NEW step \in [1..n -> [R -> R]],
         NEW fold, fold[{}] = first,
         \A k \in 1..n : fold[1..(k - 1)] \in R => fold[1..k] = step[k][fold[1..(k - 1)]]
  PROVE  \E f : IsChain(f, n, R, first, step, fold)
<1> DEFINE P == {k \in 0..n : fold[1..k] \in R}
           f == [k \in 0..n |-> fold[1..k]]
<1>1. 1..0 = {}
  OBVIOUS
<1>2. 0 \in P
  BY <1>1
<1>3. ASSUME NEW k \in 1..n, k - 1 \in P PROVE k \in P
  BY <1>3
<1>4. \A k \in 0..n : k \in P
  <2> HIDE DEF P
  <2> QED BY <1>2, <1>3, Counting
<1>5. f \in [0..n -> R]
  BY <1>4
<1>6. f[0] = first /\ fold[1..n] = f[n]
  BY <1>1
<1>7. ASSUME NEW k \in 1..n PROVE f[k] = step[k][f[k - 1]]
  <2>1. k \in 0..n /\ k - 1 \in 0..n
    OBVIOUS
  <2>2. fold[1..(k - 1)] \in R
    BY <1>4, <2>1
  <2> QED BY <2>1, <2>2
<1> HIDE DEF f
<1> QED BY <1>5, <1>6, <1>7 DEF IsChain

LEMMA Positions ==
  ASSUME NEW n \in Nat, NEW k \in 1..n
  PROVE  1..k \in SUBSET (1..n) /\ 1..k # {} /\ k \in Nat \ {0}
<1>1. k \in 1..k
  OBVIOUS
<1> QED BY <1>1

(* What amounts are: numbers, or NaN. *)
Num == Int \cup {NaN}

LEMMA Arithmetic ==
  ASSUME NEW a \in Num, NEW b \in Num
  PROVE  /\ Plus(a, b) \in Num /\ Minus(a, b) \in Num
         /\ Plus(a, b) # NaN => a \in Int /\ b \in Int /\ Plus(a, b) = a + b
         /\ Minus(a, b) # NaN => a \in Int /\ b \in Int /\ Minus(a, b) = a - b
         /\ a \in Int /\ b \in Int => Plus(a, b) = a + b /\ Minus(a, b) = a - b
<1>1. CASE a \in Int /\ b \in Int
  <2>1. NaN \notin {a, b}
    BY <1>1, EngineAssumption
  <2> QED BY <1>1, <2>1 DEF Plus, Minus, Num
<1>2. CASE ~(a \in Int /\ b \in Int)
  <2>1. NaN \in {a, b}
    BY <1>2 DEF Num
  <2> QED BY <1>2, <2>1 DEF Plus, Minus, Num
<1> QED BY <1>1, <1>2

(* Sums: the partial sums of a sequence of amounts. *)
PartialSum(f, a) ==
  /\ f \in [0..Len(a) -> Num] /\ f[0] = 0 /\ SumOf(a) = f[Len(a)]
  /\ \A k \in 1..Len(a) : f[k] = Plus(f[k - 1], a[k])

LEMMA PartialSums ==
  ASSUME NEW a \in Seq(Num)
  PROVE  \E f : PartialSum(f, a)
<1> DEFINE n == Len(a)
           step == [k \in 1..n |-> [sum \in Num |-> Plus(sum, a[k])]]
           Solution(fold) ==
             [s \in SUBSET (1..n) |-> IF s = {} THEN 0 ELSE Plus(fold[s \ {Max(s)}], a[Max(s)])]
           chosen == CHOOSE fold : fold = Solution(fold)
<1>1. n \in Nat /\ DOMAIN a = 1..n /\ \A k \in 1..n : a[k] \in Num
  OBVIOUS
<1>2. SumOf(a) = chosen[1..n]
  BY <1>1 DEF SumOf, FoldLeft, MapThenFoldSet
<1>3. step \in [1..n -> [Num -> Num]]
  BY <1>1, Arithmetic
<1>4. PICK fold \in [SUBSET (1..n) -> Num] :
        \A s \in SUBSET (1..n) : fold[s] = FoldStep(step, 0, fold, s)
  <2> DEFINE R == Num
             first == 0
  <2>1. n \in Nat /\ first \in R /\ step \in [1..n -> [R -> R]]
    BY <1>1, <1>3 DEF Num
  <2> HIDE DEF step, n, R, first
  <2>2. \E fold : IsFold(fold, n, R, first, step)
    BY <2>1, FoldExists
  <2> QED BY <2>2 DEF R, first, IsFold
<1>5. ASSUME NEW s \in SUBSET (1..n), s # {}
      PROVE  FoldStep(step, 0, fold, s) = Plus(fold[s \ {Max(s)}], a[Max(s)])
  <2>1. Max(s) \in 1..n
    BY <1>1, <1>5, LastPosition
  <2>2. fold[s \ {Max(s)}] \in Num
    BY <1>4
  <2>3. FoldStep(step, 0, fold, s) = step[Max(s)][fold[s \ {Max(s)}]]
    BY <1>5 DEF FoldStep
  <2>4. step[Max(s)] = [sum \in Num |-> Plus(sum, a[Max(s)])]
    BY <2>1
  <2> HIDE DEF step
  <2> QED BY <2>2, <2>3, <2>4
<1>6. fold = Solution(fold)
  <2>1. \A s \in SUBSET (1..n) : fold[s] = IF s = {} THEN 0 ELSE Plus(fold[s \ {Max(s)}], a[Max(s)])
    BY <1>4, <1>5 DEF FoldStep
  <2> HIDE DEF n
  <2> QED BY <1>4, <2>1
<1>7. chosen = Solution(chosen)
  <2> HIDE DEF Solution
  <2> QED BY <1>6
<1> HIDE DEF chosen
<1>8. chosen[{}] = 0
  BY <1>7
<1>9. ASSUME NEW k \in 1..n, chosen[1..(k - 1)] \in Num
      PROVE  chosen[1..k] = step[k][chosen[1..(k - 1)]]
  <2>1. 1..k \in SUBSET (1..n) /\ 1..k # {} /\ k \in Nat \ {0}
    BY <1>1, Positions
  <2>2. chosen[1..k] = Plus(chosen[(1..k) \ {Max(1..k)}], a[Max(1..k)])
    BY <1>7, <2>1
  <2>3. chosen[1..k] = Plus(chosen[1..(k - 1)], a[k])
    BY <2>1, <2>2, LastOfInterval
  <2> QED BY <1>9, <2>3
<1>10. PICK f \in [0..n -> Num] :
         /\ f[0] = 0 /\ chosen[1..n] = f[n]
         /\ \A k \in 1..n : f[k] = step[k][f[k - 1]]
  <2> DEFINE R == Num
             first == 0
  <2>1. n \in Nat /\ first \in R /\ step \in [1..n -> [R -> R]] /\ chosen[{}] = first
    BY <1>1, <1>3, <1>8 DEF Num
  <2>2. \A k \in 1..n : chosen[1..(k - 1)] \in R => chosen[1..k] = step[k][chosen[1..(k - 1)]]
    BY <1>9
  <2> HIDE DEF step, n, R, first
  <2>3. \E f : IsChain(f, n, R, first, step, chosen)
    BY <2>1, <2>2, FoldChain
  <2> QED BY <2>3 DEF R, first, IsChain
<1>11. ASSUME NEW k \in 1..n PROVE f[k] = Plus(f[k - 1], a[k])
  <2>1. k - 1 \in 0..n
    BY <1>1
  <2>2. f[k - 1] \in Num
    BY <1>10, <2>1
  <2>3. step[k] = [sum \in Num |-> Plus(sum, a[k])]
    OBVIOUS
  <2>4. f[k] = step[k][f[k - 1]]
    BY <1>10
  <2> HIDE DEF step
  <2> QED BY <2>2, <2>3, <2>4
<1> QED BY <1>2, <1>10, <1>11 DEF PartialSum

(* A sum that is a number is a sum of numbers, and the other way round. *)
IntSum(f, a) ==
  /\ f \in [0..Len(a) -> Int] /\ f[0] = 0 /\ SumOf(a) = f[Len(a)]
  /\ \A k \in 1..Len(a) : f[k] = f[k - 1] + a[k]

LEMMA IntSums ==
  ASSUME NEW a \in Seq(Int)
  PROVE  \E f : IntSum(f, a)
<1>1. a \in Seq(Num)
  BY DEF Num
<1>2. PICK f : PartialSum(f, a)
  BY <1>1, PartialSums
<1> DEFINE n == Len(a)
           P == {k \in 0..n : f[k] \in Int}
<1>3. n \in Nat /\ 0 \in P
  BY <1>2 DEF PartialSum
<1>4. ASSUME NEW k \in 1..n, k - 1 \in P PROVE k \in P /\ f[k] = f[k - 1] + a[k]
  <2>1. f[k] = Plus(f[k - 1], a[k]) /\ f[k - 1] \in Int /\ a[k] \in Int
    BY <1>2, <1>4 DEF PartialSum
  <2>2. f[k - 1] \in Num /\ a[k] \in Num
    BY <2>1 DEF Num
  <2>3. f[k] = f[k - 1] + a[k]
    BY <2>1, <2>2, Arithmetic
  <2> QED BY <2>1, <2>3
<1>5. \A k \in 0..n : k \in P
  <2> HIDE DEF P, n
  <2> QED BY <1>3, <1>4, Counting
<1>6. \A k \in 1..n : k - 1 \in 0..n
  OBVIOUS
<1> QED BY <1>2, <1>4, <1>5, <1>6 DEF PartialSum, IntSum

LEMMA SumIsInt == ASSUME NEW a \in Seq(Int) PROVE SumOf(a) \in Int
<1>1. PICK f : IntSum(f, a)
  BY IntSums
<1>2. Len(a) \in 0..Len(a)
  OBVIOUS
<1> QED BY <1>1, <1>2 DEF IntSum

LEMMA SumIsNum == ASSUME NEW a \in Seq(Num) PROVE SumOf(a) \in Num
<1>1. PICK f : PartialSum(f, a)
  BY PartialSums
<1>2. Len(a) \in 0..Len(a)
  OBVIOUS
<1> QED BY <1>1, <1>2 DEF PartialSum

LEMMA SumOfNumbers ==
  ASSUME NEW a \in Seq(Num), SumOf(a) # NaN
  PROVE  a \in Seq(Int)
<1>1. PICK f : PartialSum(f, a)
  BY PartialSums
<1> DEFINE n == Len(a)
           P == {k \in 0..n : f[k] # NaN => \A i \in 1..k : a[i] \in Int}
<1>2. n \in Nat /\ n \in 0..n /\ 0 \in P
  OBVIOUS
<1>3. ASSUME NEW k \in 1..n, k - 1 \in P PROVE k \in P
  <2> SUFFICES ASSUME f[k] # NaN, NEW i \in 1..k PROVE a[i] \in Int
    OBVIOUS
  <2>1. f[k] = Plus(f[k - 1], a[k]) /\ f[k - 1] \in Num /\ a[k] \in Num
    BY <1>1 DEF PartialSum
  <2>2. f[k - 1] \in Int /\ a[k] \in Int
    BY <2>1, Arithmetic
  <2>3. f[k - 1] # NaN
    BY <2>2, EngineAssumption
  <2>4. CASE i = k
    BY <2>2, <2>4
  <2>5. CASE i \in 1..(k - 1)
    BY <1>3, <2>3, <2>5
  <2> QED BY <2>4, <2>5
<1>4. n \in P
  <2> HIDE DEF P, n
  <2> QED BY <1>2, <1>3, Counting
<1>5. \A i \in 1..n : a[i] \in Int
  BY <1>1, <1>4 DEF PartialSum
<1> QED BY <1>5

(* Amounts none of which is negative have no negative sum. *)
LEMMA SumNotNegative ==
  ASSUME NEW a \in Seq(Int), \A i \in 1..Len(a) : a[i] \in Nat
  PROVE  SumOf(a) \in Nat
<1>1. PICK f \in [0..Len(a) -> Int] :
        /\ f[0] = 0 /\ SumOf(a) = f[Len(a)]
        /\ \A k \in 1..Len(a) : f[k] = f[k - 1] + a[k]
  BY IntSums DEF IntSum
<1> DEFINE n == Len(a)
           P == {k \in 0..n : f[k] \in Nat}
<1>2. n \in Nat /\ 0 \in P /\ n \in 0..n
  BY <1>1
<1>3. ASSUME NEW k \in 1..n, k - 1 \in P PROVE k \in P
  <2>1. f[k] = f[k - 1] + a[k] /\ f[k - 1] \in Nat /\ a[k] \in Nat
    BY <1>1, <1>3
  <2> QED BY <2>1
<1> HIDE DEF P
<1>4. n \in P
  BY <1>2, <1>3, Counting
<1> QED BY <1>1, <1>4 DEF P

(* Sums are subtracted term by term. *)
LEMMA SumsSubtract ==
  ASSUME NEW n \in Nat, NEW a \in [1..n -> Int], NEW b \in [1..n -> Int],
         NEW d \in [1..n -> Int], \A i \in 1..n : d[i] = a[i] - b[i]
  PROVE  SumOf(d) = SumOf(a) - SumOf(b)
<1>1. /\ a \in Seq(Int) /\ b \in Seq(Int) /\ d \in Seq(Int)
      /\ Len(a) = n /\ Len(b) = n /\ Len(d) = n
  OBVIOUS
<1>2. PICK f \in [0..n -> Int] :
        f[0] = 0 /\ SumOf(a) = f[n] /\ \A k \in 1..n : f[k] = f[k - 1] + a[k]
  <2>1. PICK f : IntSum(f, a)
    BY <1>1, IntSums
  <2> QED BY <1>1, <2>1 DEF IntSum
<1>3. PICK g \in [0..n -> Int] :
        g[0] = 0 /\ SumOf(b) = g[n] /\ \A k \in 1..n : g[k] = g[k - 1] + b[k]
  <2>1. PICK g : IntSum(g, b)
    BY <1>1, IntSums
  <2> QED BY <1>1, <2>1 DEF IntSum
<1>4. PICK h \in [0..n -> Int] :
        h[0] = 0 /\ SumOf(d) = h[n] /\ \A k \in 1..n : h[k] = h[k - 1] + d[k]
  <2>1. PICK h : IntSum(h, d)
    BY <1>1, IntSums
  <2> QED BY <1>1, <2>1 DEF IntSum
<1> DEFINE P == {k \in 0..n : h[k] = f[k] - g[k]}
<1>5. 0 \in P /\ n \in 0..n
  BY <1>2, <1>3, <1>4
<1>6. ASSUME NEW k \in 1..n, k - 1 \in P PROVE k \in P
  <2>1. h[k - 1] = f[k - 1] - g[k - 1]
    BY <1>6
  <2>2. d[k] = a[k] - b[k] /\ a[k] \in Int /\ b[k] \in Int /\ k - 1 \in 0..n
    OBVIOUS
  <2>3. f[k - 1] \in Int /\ g[k - 1] \in Int /\ f[k] \in Int /\ g[k] \in Int
    BY <2>2
  <2>4. h[k] = f[k] - g[k]
    BY <1>2, <1>3, <1>4, <2>1, <2>2, <2>3
  <2> QED BY <2>4
<1> HIDE DEF P
<1>7. n \in P
  BY <1>5, <1>6, Counting
<1> QED BY <1>2, <1>3, <1>4, <1>7 DEF P

-----------------------------------------------------------------------------
(* What a reward takes off stays between nothing and all of it, or is NaN. *)
Priced == {"line_percent", "line_fixed", "order_percent", "order_fixed"}

(* Rewards as they reach the engine: stored ones have no NaN, previewed ones
   may. *)
AnyReward == RewardsOf(Int \cup {Null, NaN})

(* What may be off a total. *)
UpTo(total) == 0..Max({0, total})
Off(total) == {NaN} \cup (IF total = NaN THEN {0} ELSE UpTo(total))

LEMMA IntIsNoNaN == \A x \in Int : x # NaN
BY EngineAssumption

LEMMA TopOf ==
  ASSUME NEW most \in Int
  PROVE  Max({0, most}) = IF most <= 0 THEN 0 ELSE most
BY DEF Max

LEMMA ClampBounds ==
  ASSUME NEW amount \in Int, NEW most \in Int
  PROVE  Clamp(amount, most) \in UpTo(most)
<1>1. Min({amount, most}) = IF amount <= most THEN amount ELSE most
  BY DEF Min
<1> DEFINE m == Min({amount, most})
<1>2. m \in Int /\ m <= most
  BY <1>1
<1>3. NaN \notin {amount, most}
  BY IntIsNoNaN
<1>4. Clamp(amount, most) = Max({0, m})
  BY <1>3 DEF Clamp
<1> HIDE DEF m
<1>5. Max({0, m}) = IF m <= 0 THEN 0 ELSE m
  BY <1>2, TopOf
<1> QED BY <1>2, <1>4, <1>5, TopOf DEF UpTo

LEMMA ClampIsOff ==
  ASSUME NEW amount \in Num, NEW most \in Num
  PROVE  Clamp(amount, most) \in Off(most)
<1>1. CASE NaN \in {amount, most}
  BY <1>1 DEF Clamp, Off
<1>2. CASE NaN \notin {amount, most}
  <2>1. amount \in Int /\ most \in Int
    BY <1>2 DEF Num
  <2> QED BY <1>2, <2>1, ClampBounds DEF Off
<1> QED BY <1>1, <1>2

(* Whatever the double does to a share, it is a number of cents. *)
LEMMA ShareIsInt ==
  ASSUME NEW left \in Int, NEW percent \in Int
  PROVE  /\ RoundHalfUp(left, percent) = Cent * Cents(left, percent)
         /\ Cents(left, percent) \in Int /\ RoundHalfUp(left, percent) \in Int
<1> DEFINE share == left * percent + Halves
           whole == 2 * Halves
           pair == <<left, percent>>
<1>1. Unit * Cent \in Nat \ {0}
  BY EngineAssumption
<1>2. Halves \in Nat \ {0}
  <2>1. Halves = 50 * (Unit * Cent)
    BY EngineAssumption DEF Halves
  <2> QED BY <1>1, <2>1
<1>3. left * percent \in Int
  OBVIOUS
<1>4. share \in Int /\ whole \in Nat \ {0}
  BY <1>2, <1>3
<1>5. NaN \notin {left, percent}
  BY IntIsNoNaN
<1>6. HalfUp(left, percent) = share \div whole
  BY DEF HalfUp
<1>7. HalfUp(left, percent) \in Int
  <2> HIDE DEF share, whole
  <2> QED BY <1>4, <1>6
<1>8. Cents(left, percent) \in Int
  BY <1>7, EngineAssumption DEF Cents
<1>9. RoundHalfUp(left, percent) = Cent * Cents(left, percent)
  BY <1>5 DEF RoundHalfUp
<1> DEFINE cents == Cents(left, percent)
<1> HIDE DEF cents
<1>10. cents \in Int => Cent * cents \in Int
  BY EngineAssumption
<1> QED BY <1>8, <1>9, <1>10 DEF cents

LEMMA NumberOf ==
  ASSUME NEW value
  PROVE  /\ value \in Int \cup {Null} => Number(value) \in Int
         /\ value \in Int \cup {Null, NaN} => Number(value) \in Num
BY EngineAssumption DEF Number, Num

LEMMA TakenIsInt ==
  ASSUME NEW r \in Reward, r.kind \in Priced, NEW left \in Int
  PROVE  TakenBy(r, left) \in Int
<1>1. CASE r.kind \in {"line_percent", "order_percent"}
  <2>1. r.percent \in Int \cup {Null}
    BY <1>1 DEF Reward, RewardsOf
  <2> QED BY <1>1, <2>1, NumberOf, ShareIsInt DEF TakenBy
<1>2. CASE r.kind \in {"line_fixed", "order_fixed"}
  <2>1. r.amount \in Int \cup {Null}
    BY <1>2 DEF Reward, RewardsOf
  <2> QED BY <1>2, <2>1, NumberOf DEF TakenBy
<1> QED BY <1>1, <1>2 DEF Priced

LEMMA TakenIsNum ==
  ASSUME NEW r \in AnyReward, r.kind \in Priced, NEW left \in Num
  PROVE  TakenBy(r, left) \in Num
<1>1. CASE r.kind \in {"line_percent", "order_percent"}
  <2>1. r.percent \in Int \cup {Null, NaN}
    BY <1>1 DEF AnyReward, RewardsOf
  <2> DEFINE percent == Number(r.percent)
  <2>2. percent \in Num
    BY <2>1, NumberOf
  <2>3. TakenBy(r, left) = RoundHalfUp(left, percent)
    BY <1>1 DEF TakenBy
  <2> HIDE DEF percent
  <2>4. CASE NaN \in {left, percent}
    BY <2>3, <2>4 DEF RoundHalfUp, Num
  <2>5. CASE NaN \notin {left, percent}
    <3>1. left \in Int /\ percent \in Int
      BY <2>2, <2>5 DEF Num
    <3> QED BY <2>3, <3>1, ShareIsInt DEF Num
  <2> QED BY <2>4, <2>5
<1>2. CASE r.kind \in {"line_fixed", "order_fixed"}
  <2>1. r.amount \in Int \cup {Null, NaN}
    BY <1>2 DEF AnyReward, RewardsOf
  <2> QED BY <1>2, <2>1, NumberOf DEF TakenBy
<1> QED BY <1>1, <1>2 DEF Priced

LEMMA RaiseBounds ==
  ASSUME NEW total \in Int, NEW given \in UpTo(total),
         NEW r \in Reward, r.kind \in Priced
  PROVE  Raise(given, total, r) \in UpTo(total)
<1>1. given \in Int /\ given \in Num /\ total \in Num
  BY TopOf DEF UpTo, Num
<1>2. Minus(total, given) = total - given
  BY <1>1, Arithmetic
<1> DEFINE taken == TakenBy(r, total - given)
<1>3. total - given \in Int
  BY <1>1
<1>4. taken \in Int /\ taken \in Num
  BY <1>3, TakenIsInt DEF Num
<1> HIDE DEF taken
<1>5. Plus(given, taken) = given + taken /\ given + taken \in Int
  BY <1>1, <1>4, Arithmetic
<1> QED BY <1>2, <1>5, ClampBounds DEF Raise, taken

LEMMA RaiseIsOff ==
  ASSUME NEW total \in Num, NEW given \in Off(total),
         NEW r \in AnyReward, r.kind \in Priced
  PROVE  Raise(given, total, r) \in Off(total)
<1>1. given \in Num
  <2>1. CASE total = NaN
    BY <2>1 DEF Off, Num
  <2>2. CASE total \in Int
    <3>1. Max({0, total}) \in Int
      BY <2>2, TopOf
    <3> QED BY <2>2, <3>1, IntIsNoNaN DEF Off, UpTo, Num
  <2> QED BY <2>1, <2>2 DEF Num
<1>2. Plus(given, TakenBy(r, Minus(total, given))) \in Num
  BY <1>1, Arithmetic, TakenIsNum
<1> QED BY <1>2, ClampIsOff DEF Raise

(* Taking the rewards of some kinds out of a list. *)
These(A, kinds) == {r \in A : r.kind \in kinds}

Found(list, r, kinds) == IF r.kind \in kinds THEN Append(list, r) ELSE list

(* The rewards found so far. *)
Selection(f, rewards, A, kinds) ==
  /\ f \in [0..Len(rewards) -> Seq(These(A, kinds))]
  /\ f[0] = <<>> /\ OfKinds(rewards, kinds) = f[Len(rewards)]
  /\ \A k \in 1..Len(rewards) :
       f[k] = Found(f[k - 1], rewards[k], kinds)

LEMMA Selections ==
  ASSUME NEW A, NEW rewards \in Seq(A), NEW kinds
  PROVE  \E f : Selection(f, rewards, A, kinds)
<1> DEFINE n == Len(rewards)
           R == Seq(These(A, kinds))
           first == <<>>
           step == [k \in 1..n |-> [x \in R |-> Found(x, rewards[k], kinds)]]
           Solution(fold) ==
             [s \in SUBSET (1..n) |->
                IF s = {} THEN first ELSE Found(fold[s \ {Max(s)}], rewards[Max(s)], kinds)]
           chosen == CHOOSE fold : fold = Solution(fold)
<1>1. n \in Nat /\ DOMAIN rewards = 1..n /\ first \in R
  OBVIOUS
<1>2. OfKinds(rewards, kinds) = chosen[1..n]
  BY <1>1 DEF OfKinds, Found, FoldLeft, MapThenFoldSet
<1>3. step \in [1..n -> [R -> R]]
  <2> SUFFICES ASSUME NEW k \in 1..n, NEW x \in R
               PROVE  Found(x, rewards[k], kinds) \in R
    OBVIOUS
  <2>1. rewards[k] \in A
    OBVIOUS
  <2>2. CASE rewards[k].kind \in kinds
    <3>1. rewards[k] \in These(A, kinds)
      BY <2>1, <2>2 DEF These
    <3> QED BY <2>2, <3>1 DEF Found
  <2> QED BY <2>2 DEF Found
<1>4. PICK fold : IsFold(fold, n, R, first, step)
  <2> HIDE DEF step, n, R, first
  <2> QED BY <1>1, <1>3, FoldExists
<1>5. ASSUME NEW k \in 1..n, NEW x \in R
      PROVE  step[k][x] = Found(x, rewards[k], kinds)
  OBVIOUS
<1> HIDE DEF step
<1>6. ASSUME NEW s \in SUBSET (1..n), s # {}
      PROVE  fold[s] = Found(fold[s \ {Max(s)}], rewards[Max(s)], kinds)
  <2>1. Max(s) \in 1..n
    BY <1>1, <1>6, LastPosition
  <2> HIDE DEF R, n, first
  <2>2. fold[s \ {Max(s)}] \in R
    BY <1>4 DEF IsFold
  <2>3. fold[s] = step[Max(s)][fold[s \ {Max(s)}]]
    BY <1>4, <1>6 DEF IsFold, FoldStep
  <2> QED BY <1>5, <2>1, <2>2, <2>3
<1>7. fold = Solution(fold)
  <2> HIDE DEF n, R, first
  <2>1. fold[{}] = first
    BY <1>4 DEF IsFold, FoldStep
  <2> QED BY <1>4, <1>6, <2>1 DEF IsFold
<1>8. chosen = Solution(chosen)
  <2> HIDE DEF Solution
  <2> QED BY <1>7
<1> HIDE DEF chosen
<1>9. chosen[{}] = first
  BY <1>8
<1>10. ASSUME NEW k \in 1..n, chosen[1..(k - 1)] \in R
       PROVE  chosen[1..k] = step[k][chosen[1..(k - 1)]]
  <2> HIDE DEF R, n, first
  <2>1. 1..k \in SUBSET (1..n) /\ 1..k # {} /\ k \in Nat \ {0}
    BY <1>1, Positions
  <2>2. chosen[1..k] = Found(chosen[(1..k) \ {Max(1..k)}], rewards[Max(1..k)], kinds)
    BY <1>8, <2>1
  <2>3. chosen[1..k] = Found(chosen[1..(k - 1)], rewards[k], kinds)
    BY <2>1, <2>2, LastOfInterval
  <2> QED BY <1>5, <1>10, <2>3
<1>11. PICK f : IsChain(f, n, R, first, step, chosen)
  <2> HIDE DEF n, R, first
  <2> QED BY <1>1, <1>3, <1>9, <1>10, FoldChain
<1>12. ASSUME NEW k \in 1..n PROVE f[k] = Found(f[k - 1], rewards[k], kinds)
  <2>1. k - 1 \in 0..n
    BY <1>1
  <2> HIDE DEF R, n, first
  <2>2. f[k - 1] \in R
    BY <1>11, <2>1 DEF IsChain
  <2> QED BY <1>5, <1>11, <2>2 DEF IsChain
<1>13. Selection(f, rewards, A, kinds)
  BY <1>2, <1>11, <1>12 DEF Selection, IsChain
<1> QED BY <1>13

(* What is off a line after each reward. *)
OffLine(given, line, r) ==
  IF ForLine(r, line) THEN Raise(given, LineTotal(line), r) ELSE given

LineChain(f, line, list, R) ==
  /\ f \in [0..Len(list) -> R]
  /\ FoldLeft(LAMBDA given, r : IF ForLine(r, line) THEN Raise(given, LineTotal(line), r)
                                ELSE given, 0, list) = f[Len(list)]
  /\ f[0] = 0
  /\ \A k \in 1..Len(list) :
       f[k] = OffLine(f[k - 1], line, list[k])

LEMMA LineChains ==
  ASSUME NEW line, NEW A, NEW list \in Seq(A), NEW R, 0 \in R,
         \A r \in A, x \in R : OffLine(x, line, r) \in R
  PROVE  \E f : LineChain(f, line, list, R)
<1> DEFINE n == Len(list)
           first == 0
           step == [k \in 1..n |-> [x \in R |-> OffLine(x, line, list[k])]]
           Solution(fold) ==
             [s \in SUBSET (1..n) |->
                IF s = {} THEN first ELSE OffLine(fold[s \ {Max(s)}], line, list[Max(s)])]
           chosen == CHOOSE fold : fold = Solution(fold)
<1>1. n \in Nat /\ DOMAIN list = 1..n /\ first \in R
  OBVIOUS
<1>2. FoldLeft(LAMBDA given, r : IF ForLine(r, line) THEN Raise(given, LineTotal(line), r)
                                  ELSE given, 0, list) = chosen[1..n]
  BY <1>1 DEF FoldLeft, MapThenFoldSet, OffLine
<1>3. step \in [1..n -> [R -> R]]
  <2> SUFFICES ASSUME NEW k \in 1..n, NEW x \in R
               PROVE  OffLine(x, line, list[k]) \in R
    OBVIOUS
  <2>1. list[k] \in A
    OBVIOUS
  <2> QED BY <2>1
<1>4. PICK fold : IsFold(fold, n, R, first, step)
  <2> HIDE DEF step, n, first
  <2> QED BY <1>1, <1>3, FoldExists
<1>5. ASSUME NEW k \in 1..n, NEW x \in R
      PROVE  step[k][x] = OffLine(x, line, list[k])
  OBVIOUS
<1> HIDE DEF step
<1>6. ASSUME NEW s \in SUBSET (1..n), s # {}
      PROVE  fold[s] = OffLine(fold[s \ {Max(s)}], line, list[Max(s)])
  <2>1. Max(s) \in 1..n
    BY <1>1, <1>6, LastPosition
  <2> HIDE DEF n, first
  <2>2. fold[s \ {Max(s)}] \in R
    BY <1>4 DEF IsFold
  <2>3. fold[s] = step[Max(s)][fold[s \ {Max(s)}]]
    BY <1>4, <1>6 DEF IsFold, FoldStep
  <2> QED BY <1>5, <2>1, <2>2, <2>3
<1>7. fold = Solution(fold)
  <2> HIDE DEF n, first
  <2>1. fold[{}] = first
    BY <1>4 DEF IsFold, FoldStep
  <2> QED BY <1>4, <1>6, <2>1 DEF IsFold
<1>8. chosen = Solution(chosen)
  <2> HIDE DEF Solution
  <2> QED BY <1>7
<1> HIDE DEF chosen
<1>9. chosen[{}] = first
  BY <1>8
<1>10. ASSUME NEW k \in 1..n, chosen[1..(k - 1)] \in R
       PROVE  chosen[1..k] = step[k][chosen[1..(k - 1)]]
  <2> HIDE DEF n, first
  <2>1. 1..k \in SUBSET (1..n) /\ 1..k # {} /\ k \in Nat \ {0}
    BY <1>1, Positions
  <2>2. chosen[1..k] = OffLine(chosen[(1..k) \ {Max(1..k)}], line, list[Max(1..k)])
    BY <1>8, <2>1
  <2>3. chosen[1..k] = OffLine(chosen[1..(k - 1)], line, list[k])
    BY <2>1, <2>2, LastOfInterval
  <2> QED BY <1>5, <1>10, <2>3
<1>11. PICK f : IsChain(f, n, R, first, step, chosen)
  <2> HIDE DEF n, first
  <2> QED BY <1>1, <1>3, <1>9, <1>10, FoldChain
<1>12. ASSUME NEW k \in 1..n PROVE f[k] = OffLine(f[k - 1], line, list[k])
  <2>1. k - 1 \in 0..n
    BY <1>1
  <2> HIDE DEF n, first
  <2>2. f[k - 1] \in R
    BY <1>11, <2>1 DEF IsChain
  <2> QED BY <1>5, <1>11, <2>2 DEF IsChain
<1>13. LineChain(f, line, list, R)
  BY <1>2, <1>11, <1>12 DEF LineChain, IsChain
<1> QED BY <1>13

(* What is off the Order after each reward. *)
OrderChain(f, subtotal, list, R) ==
  /\ f \in [0..Len(list) -> R]
  /\ FoldLeft(LAMBDA given, r : Raise(given, subtotal, r), 0, list) = f[Len(list)]
  /\ f[0] = 0
  /\ \A k \in 1..Len(list) : f[k] = Raise(f[k - 1], subtotal, list[k])

LEMMA OrderChains ==
  ASSUME NEW subtotal, NEW A, NEW list \in Seq(A), NEW R, 0 \in R,
         \A r \in A, x \in R : Raise(x, subtotal, r) \in R
  PROVE  \E f : OrderChain(f, subtotal, list, R)
<1> DEFINE n == Len(list)
           first == 0
           step == [k \in 1..n |-> [x \in R |-> Raise(x, subtotal, list[k])]]
           Solution(fold) ==
             [s \in SUBSET (1..n) |->
                IF s = {} THEN first ELSE Raise(fold[s \ {Max(s)}], subtotal, list[Max(s)])]
           chosen == CHOOSE fold : fold = Solution(fold)
<1>1. n \in Nat /\ DOMAIN list = 1..n /\ first \in R
  OBVIOUS
<1>2. FoldLeft(LAMBDA given, r : Raise(given, subtotal, r), 0, list) = chosen[1..n]
  BY <1>1 DEF FoldLeft, MapThenFoldSet
<1>3. step \in [1..n -> [R -> R]]
  <2> SUFFICES ASSUME NEW k \in 1..n, NEW x \in R
               PROVE  Raise(x, subtotal, list[k]) \in R
    OBVIOUS
  <2>1. list[k] \in A
    OBVIOUS
  <2> QED BY <2>1
<1>4. PICK fold : IsFold(fold, n, R, first, step)
  <2> HIDE DEF step, n, first
  <2> QED BY <1>1, <1>3, FoldExists
<1>5. ASSUME NEW k \in 1..n, NEW x \in R
      PROVE  step[k][x] = Raise(x, subtotal, list[k])
  OBVIOUS
<1> HIDE DEF step
<1>6. ASSUME NEW s \in SUBSET (1..n), s # {}
      PROVE  fold[s] = Raise(fold[s \ {Max(s)}], subtotal, list[Max(s)])
  <2>1. Max(s) \in 1..n
    BY <1>1, <1>6, LastPosition
  <2> HIDE DEF n, first
  <2>2. fold[s \ {Max(s)}] \in R
    BY <1>4 DEF IsFold
  <2>3. fold[s] = step[Max(s)][fold[s \ {Max(s)}]]
    BY <1>4, <1>6 DEF IsFold, FoldStep
  <2> QED BY <1>5, <2>1, <2>2, <2>3
<1>7. fold = Solution(fold)
  <2> HIDE DEF n, first
  <2>1. fold[{}] = first
    BY <1>4 DEF IsFold, FoldStep
  <2> QED BY <1>4, <1>6, <2>1 DEF IsFold
<1>8. chosen = Solution(chosen)
  <2> HIDE DEF Solution
  <2> QED BY <1>7
<1> HIDE DEF chosen
<1>9. chosen[{}] = first
  BY <1>8
<1>10. ASSUME NEW k \in 1..n, chosen[1..(k - 1)] \in R
       PROVE  chosen[1..k] = step[k][chosen[1..(k - 1)]]
  <2> HIDE DEF n, first
  <2>1. 1..k \in SUBSET (1..n) /\ 1..k # {} /\ k \in Nat \ {0}
    BY <1>1, Positions
  <2>2. chosen[1..k] = Raise(chosen[(1..k) \ {Max(1..k)}], subtotal, list[Max(1..k)])
    BY <1>8, <2>1
  <2>3. chosen[1..k] = Raise(chosen[1..(k - 1)], subtotal, list[k])
    BY <2>1, <2>2, LastOfInterval
  <2> QED BY <1>5, <1>10, <2>3
<1>11. PICK f : IsChain(f, n, R, first, step, chosen)
  <2> HIDE DEF n, first
  <2> QED BY <1>1, <1>3, <1>9, <1>10, FoldChain
<1>12. ASSUME NEW k \in 1..n PROVE f[k] = Raise(f[k - 1], subtotal, list[k])
  <2>1. k - 1 \in 0..n
    BY <1>1
  <2> HIDE DEF n, first
  <2>2. f[k - 1] \in R
    BY <1>11, <2>1 DEF IsChain
  <2> QED BY <1>5, <1>11, <2>2 DEF IsChain
<1>13. OrderChain(f, subtotal, list, R)
  BY <1>2, <1>11, <1>12 DEF OrderChain, IsChain
<1> QED BY <1>13

LEMMA KindsAreFound ==
  ASSUME NEW A, NEW rewards \in Seq(A), NEW kinds
  PROVE  OfKinds(rewards, kinds) \in Seq(These(A, kinds))
<1>1. PICK f : Selection(f, rewards, A, kinds)
  BY Selections
<1>2. Len(rewards) \in 0..Len(rewards)
  OBVIOUS
<1> QED BY <1>1, <1>2 DEF Selection

LEMMA PricedAreFound ==
  ASSUME NEW A, NEW rewards \in Seq(A), NEW percent \in Priced, NEW fixed \in Priced
  PROVE  PercentFirst(rewards, percent, fixed) \in Seq(These(A, Priced))
<1>1. /\ OfKind(rewards, percent) \in Seq(These(A, {percent}))
      /\ OfKind(rewards, fixed) \in Seq(These(A, {fixed}))
  BY KindsAreFound DEF OfKind
<1>2. \A kind \in Priced : These(A, {kind}) \subseteq These(A, Priced)
  BY DEF These
<1>3. \A kind \in Priced : \A list : list \in Seq(These(A, {kind})) => list \in Seq(These(A, Priced))
  BY <1>2
<1>4. /\ OfKind(rewards, percent) \in Seq(These(A, Priced))
      /\ OfKind(rewards, fixed) \in Seq(These(A, Priced))
  BY <1>1, <1>3
<1> QED BY <1>4 DEF PercentFirst

(* What is off a line, or an Order, is in any set that has nothing, and that
   no reward leads out of. *)
LEMMA LineDiscountIn ==
  ASSUME NEW line, NEW A, NEW rewards \in Seq(A), NEW R, 0 \in R,
         \A r \in These(A, Priced), x \in R : OffLine(x, line, r) \in R
  PROVE  LineDiscount(line, rewards) \in R
<1> DEFINE list == PercentFirst(rewards, "line_percent", "line_fixed")
<1>1. list \in Seq(These(A, Priced))
  BY PricedAreFound DEF Priced
<1>2. LineDiscount(line, rewards) =
        FoldLeft(LAMBDA given, r : IF ForLine(r, line) THEN Raise(given, LineTotal(line), r)
                                   ELSE given, 0, list)
  BY DEF LineDiscount
<1> HIDE DEF list
<1>3. PICK f : LineChain(f, line, list, R)
  BY <1>1, LineChains
<1>4. Len(list) \in 0..Len(list)
  BY <1>1
<1> QED BY <1>2, <1>3, <1>4 DEF LineChain

LEMMA OrderDiscountIn ==
  ASSUME NEW subtotal, NEW A, NEW rewards \in Seq(A), NEW R, 0 \in R,
         \A r \in These(A, Priced), x \in R : Raise(x, subtotal, r) \in R
  PROVE  OrderDiscount(subtotal, rewards) \in R
<1> DEFINE list == PercentFirst(rewards, "order_percent", "order_fixed")
<1>1. list \in Seq(These(A, Priced))
  BY PricedAreFound DEF Priced
<1>2. OrderDiscount(subtotal, rewards) =
        FoldLeft(LAMBDA given, r : Raise(given, subtotal, r), 0, list)
  BY DEF OrderDiscount
<1> HIDE DEF list
<1>3. PICK f : OrderChain(f, subtotal, list, R)
  BY <1>1, OrderChains
<1>4. Len(list) \in 0..Len(list)
  BY <1>1
<1> QED BY <1>2, <1>3, <1>4 DEF OrderChain

LEMMA NothingIsOff ==
  ASSUME NEW total
  PROVE  /\ total \in Int => 0 \in UpTo(total) /\ UpTo(total) \subseteq Int
         /\ total \in Num => 0 \in Off(total) /\ Off(total) \subseteq Num
<1>1. ASSUME total \in Int PROVE 0 \in UpTo(total) /\ UpTo(total) \subseteq Int
  BY <1>1, TopOf DEF UpTo
<1>2. ASSUME total \in Num PROVE 0 \in Off(total) /\ Off(total) \subseteq Num
  BY <1>1, <1>2 DEF Off, Num
<1> QED BY <1>1, <1>2

(* Stored rewards make no NaN of numbers. *)
LEMMA StoredDiscounts ==
  ASSUME NEW rewards \in Seq(Reward)
  PROVE  /\ \A line : LineTotal(line) \in Int =>
                      LineDiscount(line, rewards) \in UpTo(LineTotal(line))
         /\ \A subtotal \in Int : OrderDiscount(subtotal, rewards) \in UpTo(subtotal)
<1>1. ASSUME NEW line, LineTotal(line) \in Int
      PROVE  LineDiscount(line, rewards) \in UpTo(LineTotal(line))
  <2>1. \A r \in These(Reward, Priced), x \in UpTo(LineTotal(line)) :
          OffLine(x, line, r) \in UpTo(LineTotal(line))
    BY <1>1, RaiseBounds DEF These, OffLine
  <2> QED BY <1>1, <2>1, NothingIsOff, LineDiscountIn
<1>2. ASSUME NEW subtotal \in Int
      PROVE  OrderDiscount(subtotal, rewards) \in UpTo(subtotal)
  <2>1. \A r \in These(Reward, Priced), x \in UpTo(subtotal) :
          Raise(x, subtotal, r) \in UpTo(subtotal)
    BY RaiseBounds DEF These
  <2> QED BY <2>1, NothingIsOff, OrderDiscountIn
<1> QED BY <1>1, <1>2

LEMMA AnyDiscounts ==
  ASSUME NEW rewards \in Seq(AnyReward)
  PROVE  /\ \A line : LineTotal(line) \in Num =>
                      LineDiscount(line, rewards) \in Off(LineTotal(line))
         /\ \A subtotal \in Num : OrderDiscount(subtotal, rewards) \in Off(subtotal)
<1>1. ASSUME NEW line, LineTotal(line) \in Num
      PROVE  LineDiscount(line, rewards) \in Off(LineTotal(line))
  <2>1. \A r \in These(AnyReward, Priced), x \in Off(LineTotal(line)) :
          OffLine(x, line, r) \in Off(LineTotal(line))
    BY <1>1, RaiseIsOff DEF These, OffLine
  <2> QED BY <1>1, <2>1, NothingIsOff, LineDiscountIn
<1>2. ASSUME NEW subtotal \in Num
      PROVE  OrderDiscount(subtotal, rewards) \in Off(subtotal)
  <2>1. \A r \in These(AnyReward, Priced), x \in Off(subtotal) :
          Raise(x, subtotal, r) \in Off(subtotal)
    BY RaiseIsOff DEF These
  <2> QED BY <2>1, NothingIsOff, OrderDiscountIn
<1> QED BY <1>1, <1>2

-----------------------------------------------------------------------------
(* A cart whose prices are from a set of amounts. *)
PricedIn(cart, units) ==
  /\ Len(cart.lines) \in Nat /\ DOMAIN cart.lines = 1..Len(cart.lines)
  /\ \A i \in DOMAIN cart.lines : /\ cart.lines[i].unit \in units
                                  /\ cart.lines[i].quantity \in Nat \ {0}
  /\ cart.shipping \in Nat

LEMMA LineTotalIn ==
  ASSUME NEW line, line.quantity \in Nat \ {0}
  PROVE  /\ line.unit \in Nat => LineTotal(line) \in Nat
         /\ line.unit \in Int => LineTotal(line) \in Int
         /\ line.unit \in Num => LineTotal(line) \in Num
<1> DEFINE unit == line.unit
           quantity == line.quantity
<1>1. quantity \in Nat
  OBVIOUS
<1>2. LineTotal(line) = IF unit = NaN THEN NaN ELSE unit * quantity
  BY DEF LineTotal
<1> HIDE DEF unit, quantity
<1>3. /\ unit \in Nat => unit * quantity \in Nat
      /\ unit \in Int => unit * quantity \in Int
  BY <1>1
<1> QED BY <1>2, <1>3, IntIsNoNaN DEF Num, unit

(* What ApplyDiscounts computes on its way. *)
LinesOff(cart, rewards) ==
  [i \in DOMAIN cart.lines |-> LineDiscount(cart.lines[i], rewards)]
LeftOf(cart, rewards) ==
  [i \in DOMAIN cart.lines |->
     Minus(LineTotal(cart.lines[i]), LineDiscount(cart.lines[i], rewards))]

LEMMA QuoteParts ==
  ASSUME NEW cart, NEW rewards
  PROVE  LET quote == ApplyDiscounts(cart, rewards)
             left  == SumOf(LeftOf(cart, rewards))
         IN  /\ quote.lineDiscounts = LinesOff(cart, rewards)
             /\ quote.orderDiscount = OrderDiscount(left, rewards)
             /\ quote.shipping = Shipping(cart, rewards)
             /\ quote.totalDiscount =
                  Plus(Plus(SumOf(quote.lineDiscounts), quote.orderDiscount),
                       cart.shipping - quote.shipping)
             /\ quote.finalTotal = Plus(Minus(left, quote.orderDiscount), quote.shipping)
<1> DEFINE totals == [i \in DOMAIN cart.lines |-> LineTotal(cart.lines[i])]
           lines  == LinesOff(cart, rewards)
<1>1. [i \in DOMAIN totals |-> Minus(totals[i], lines[i])] = LeftOf(cart, rewards)
  BY DEF LinesOff, LeftOf
<1> QED BY <1>1 DEF ApplyDiscounts, LinesOff

(* Where discounts are within their totals and something is left, in numbers,
   a quote adds up. *)
LEMMA NumbersAddUp ==
  ASSUME NEW cart, PricedIn(cart, Num), NEW rewards,
         \A i \in DOMAIN cart.lines :
           LineDiscount(cart.lines[i], rewards) \in Off(LineTotal(cart.lines[i])),
         SumOf(LeftOf(cart, rewards)) \in Int,
         OrderDiscount(SumOf(LeftOf(cart, rewards)), rewards)
           \in UpTo(SumOf(LeftOf(cart, rewards)))
  PROVE  LET quote == ApplyDiscounts(cart, rewards)
         IN  /\ AddsUp(cart, quote) /\ quote.finalTotal \in Int
             /\ quote.finalTotal = SumOf(LeftOf(cart, rewards)) - quote.orderDiscount
                                     + quote.shipping
<1> DEFINE n == Len(cart.lines)
           totals == Totals(cart)
           lines == LinesOff(cart, rewards)
           left == LeftOf(cart, rewards)
           order == OrderDiscount(SumOf(left), rewards)
           shipping == Shipping(cart, rewards)
           quote == ApplyDiscounts(cart, rewards)
<1>1. n \in Nat /\ DOMAIN cart.lines = 1..n /\ cart.shipping \in Nat
  BY DEF PricedIn
<1>2. /\ DOMAIN totals = 1..n /\ DOMAIN lines = 1..n /\ DOMAIN left = 1..n
      /\ Len(left) = n
      /\ totals = [i \in 1..n |-> totals[i]]
      /\ lines = [i \in 1..n |-> lines[i]]
      /\ left = [i \in 1..n |-> left[i]]
  BY <1>1 DEF Totals, LinesOff, LeftOf
<1>3. ASSUME NEW i \in 1..n
      PROVE  /\ totals[i] \in Num /\ lines[i] \in Off(totals[i]) /\ lines[i] \in Num
             /\ left[i] = Minus(totals[i], lines[i]) /\ left[i] \in Num
  <2>1. totals[i] = LineTotal(cart.lines[i]) /\ lines[i] = LineDiscount(cart.lines[i], rewards)
    BY <1>1 DEF Totals, LinesOff
  <2>2. left[i] = Minus(totals[i], lines[i])
    BY <1>1, <2>1 DEF LeftOf
  <2>3. totals[i] \in Num
    BY <1>1, <2>1, LineTotalIn DEF PricedIn
  <2>4. lines[i] \in Off(totals[i])
    BY <1>1, <2>1
  <2> HIDE DEF totals, lines, left
  <2>5. lines[i] \in Num
    BY <2>3, <2>4, NothingIsOff
  <2> QED BY <2>2, <2>3, <2>4, <2>5, Arithmetic
<1>4. LET parts == ApplyDiscounts(cart, rewards)
      IN  /\ parts.lineDiscounts = lines /\ parts.orderDiscount = order
          /\ parts.shipping = shipping
          /\ parts.totalDiscount =
               Plus(Plus(SumOf(lines), order), cart.shipping - shipping)
          /\ parts.finalTotal = Plus(Minus(SumOf(left), order), shipping)
  BY QuoteParts
<1>5. shipping \in Nat /\ shipping <= cart.shipping
  BY <1>1 DEF Shipping
<1>6. SumOf(left) \in Int /\ order \in UpTo(SumOf(left))
  OBVIOUS
<1> HIDE DEF n, totals, lines, left, order, shipping
<1>7. left \in Seq(Num)
  BY <1>1, <1>2, <1>3
<1>8. left \in Seq(Int)
  BY <1>6, <1>7, IntIsNoNaN, SumOfNumbers
<1>9. ASSUME NEW i \in 1..n
      PROVE  /\ totals[i] \in Int /\ lines[i] \in Int /\ left[i] = totals[i] - lines[i]
             /\ lines[i] \in UpTo(totals[i])
  <2>1. left[i] \in Int
    <3>1. Len(left) = n
      BY <1>2
    <3> QED BY <1>8, <3>1
  <2>2. /\ totals[i] \in Int /\ lines[i] \in Int
        /\ left[i] = totals[i] - lines[i]
    BY <1>3, <2>1, IntIsNoNaN, Arithmetic
  <2>3. lines[i] \in UpTo(totals[i])
    BY <1>3, <2>2, IntIsNoNaN DEF Off
  <2> QED BY <2>2, <2>3
<1>10. totals \in [1..n -> Int] /\ lines \in [1..n -> Int] /\ left \in [1..n -> Int]
  BY <1>2, <1>8, <1>9
<1>11. SumOf(left) = SumOf(totals) - SumOf(lines)
  BY <1>1, <1>9, <1>10, SumsSubtract
<1>12. totals \in Seq(Int) /\ lines \in Seq(Int)
  BY <1>1, <1>10
<1>13. SumOf(totals) \in Int /\ SumOf(lines) \in Int
  BY <1>12, SumIsInt
<1>14. order \in Int
  BY <1>6, NothingIsOff
<1>15. cart.shipping - shipping \in Int /\ cart.shipping - shipping \in Num /\ shipping \in Num
  BY <1>1, <1>5 DEF Num
<1>16. SumOf(lines) \in Num /\ order \in Num /\ SumOf(left) \in Num
  BY <1>6, <1>13, <1>14 DEF Num
<1>17. quote.totalDiscount = SumOf(lines) + order + (cart.shipping - shipping)
  <2>1. Plus(SumOf(lines), order) = SumOf(lines) + order
    BY <1>13, <1>14, <1>16, Arithmetic
  <2>2. SumOf(lines) + order \in Int /\ SumOf(lines) + order \in Num
    BY <1>13, <1>14 DEF Num
  <2> QED BY <1>4, <1>15, <2>1, <2>2, Arithmetic
<1>18. quote.finalTotal = SumOf(left) - order + shipping
  <2>1. Minus(SumOf(left), order) = SumOf(left) - order
    BY <1>6, <1>14, <1>16, Arithmetic
  <2>2. SumOf(left) - order \in Int /\ SumOf(left) - order \in Num
    BY <1>6, <1>14 DEF Num
  <2> QED BY <1>4, <1>5, <1>15, <2>1, <2>2, Arithmetic
<1>19. quote.lineDiscounts = lines /\ quote.orderDiscount = order /\ quote.shipping = shipping
  BY <1>4
<1> HIDE DEF quote
<1>20. \A i \in DOMAIN totals : Bounded(quote.lineDiscounts[i], totals[i])
  BY <1>2, <1>9, <1>19 DEF Bounded, UpTo
<1>21. Bounded(quote.orderDiscount, SumOf(totals) - SumOf(quote.lineDiscounts))
  BY <1>6, <1>11, <1>19 DEF Bounded, UpTo
<1>22. Bounded(quote.shipping, cart.shipping)
  BY <1>1, <1>5, <1>19, TopOf DEF Bounded
<1>23. quote.finalTotal + quote.totalDiscount = SumOf(totals) + cart.shipping
  BY <1>1, <1>5, <1>11, <1>13, <1>14, <1>17, <1>18
<1>24. AddsUp(cart, quote)
  BY <1>20, <1>21, <1>22, <1>23 DEF AddsUp, totals
<1>25. quote.finalTotal \in Int
  BY <1>5, <1>6, <1>14, <1>18
<1> QED BY <1>18, <1>19, <1>24, <1>25 DEF quote, left

(* applyDiscounts, for any cart and any rewards in any number, NaN among their
   numbers or not: a quote whose final total is a number adds up. *)
THEOREM AnyQuoteAddsUp ==
  ASSUME NEW cart, PricedIn(cart, Num), NEW rewards \in Seq(AnyReward)
  PROVE  LET quote == ApplyDiscounts(cart, rewards)
         IN  quote.finalTotal = NaN \/ AddsUp(cart, quote)
<1> DEFINE left == SumOf(LeftOf(cart, rewards))
           order == OrderDiscount(left, rewards)
           shipping == Shipping(cart, rewards)
<1>1. ApplyDiscounts(cart, rewards).finalTotal = Plus(Minus(left, order), shipping)
  BY QuoteParts
<1>2. \A i \in DOMAIN cart.lines :
        LineDiscount(cart.lines[i], rewards) \in Off(LineTotal(cart.lines[i]))
  BY LineTotalIn, AnyDiscounts DEF PricedIn
<1>3. left \in Num
  <2> DEFINE n == Len(cart.lines)
             part == LeftOf(cart, rewards)
  <2>1. n \in Nat /\ DOMAIN cart.lines = 1..n
    BY DEF PricedIn
  <2>2. ASSUME NEW i \in 1..n PROVE part[i] \in Num
    <3>1. LineTotal(cart.lines[i]) \in Num
      BY <2>1, LineTotalIn DEF PricedIn
    <3>2. LineDiscount(cart.lines[i], rewards) \in Num
      BY <1>2, <2>1, <3>1, NothingIsOff
    <3>3. part[i] = Minus(LineTotal(cart.lines[i]), LineDiscount(cart.lines[i], rewards))
      BY <2>1 DEF LeftOf
    <3> QED BY <3>1, <3>2, <3>3, Arithmetic
  <2>3. part = [i \in 1..n |-> part[i]]
    BY <2>1 DEF LeftOf
  <2> HIDE DEF part, n
  <2>4. part \in Seq(Num)
    BY <2>1, <2>2, <2>3
  <2> QED BY <2>4, SumIsNum DEF part
<1>4. order \in Off(left)
  BY <1>3, AnyDiscounts
<1>5. shipping \in Num
  BY DEF Shipping, PricedIn, Num
<1> SUFFICES ASSUME Plus(Minus(left, order), shipping) # NaN
             PROVE  AddsUp(cart, ApplyDiscounts(cart, rewards))
  BY <1>1
<1> HIDE DEF left, order, shipping
<1>6. order \in Num
  BY <1>3, <1>4, NothingIsOff
<1>7. Minus(left, order) \in Int
  BY <1>3, <1>5, <1>6, Arithmetic
<1>8. left \in Int /\ order \in Int
  BY <1>3, <1>6, <1>7, IntIsNoNaN, Arithmetic
<1>9. order \in UpTo(left)
  BY <1>4, <1>8, IntIsNoNaN DEF Off
<1> QED BY <1>2, <1>8, <1>9, NumbersAddUp DEF left, order, PricedIn

(* Of numbers and stored rewards there is always a quote, whatever numbers or
   nulls the rewards have: it adds up, and where no price is negative the
   final total is not. *)
THEOREM StoredQuoteAddsUp ==
  ASSUME NEW cart, PricedIn(cart, Int), NEW rewards \in Seq(Reward)
  PROVE  LET quote == ApplyDiscounts(cart, rewards)
         IN  /\ AddsUp(cart, quote) /\ quote.finalTotal \in Int
             /\ PricedIn(cart, Nat) => quote.finalTotal >= 0
<1> DEFINE n == Len(cart.lines)
           part == LeftOf(cart, rewards)
           left == SumOf(part)
           order == OrderDiscount(left, rewards)
           quote == ApplyDiscounts(cart, rewards)
<1>1. n \in Nat /\ DOMAIN cart.lines = 1..n /\ cart.shipping \in Nat
  BY DEF PricedIn
<1>2. ASSUME NEW i \in 1..n
      PROVE  LET line == cart.lines[i]
                 off  == LineDiscount(line, rewards)
             IN  /\ LineTotal(line) \in Int /\ off \in UpTo(LineTotal(line)) /\ off \in Int
                 /\ part[i] = LineTotal(line) - off /\ part[i] \in Int
                 /\ PricedIn(cart, Nat) => part[i] \in Nat
  <2> DEFINE total == LineTotal(cart.lines[i])
             off == LineDiscount(cart.lines[i], rewards)
  <2>1. total \in Int /\ (PricedIn(cart, Nat) => total \in Nat)
    BY <1>1, LineTotalIn DEF PricedIn
  <2>2. off \in UpTo(total)
    BY <2>1, StoredDiscounts
  <2>3. part[i] = Minus(total, off)
    BY <1>1 DEF LeftOf
  <2> HIDE DEF total, off, part
  <2>4. off \in Int /\ off \in Num /\ total \in Num
    BY <2>1, <2>2, NothingIsOff DEF Num
  <2>5. part[i] = total - off
    BY <2>1, <2>3, <2>4, Arithmetic
  <2>6. PricedIn(cart, Nat) => part[i] \in Nat
    BY <2>1, <2>2, <2>4, <2>5, TopOf DEF UpTo
  <2> QED BY <2>1, <2>2, <2>4, <2>5, <2>6 DEF total, off, part
<1>3. part = [i \in 1..n |-> part[i]]
  BY <1>1 DEF LeftOf
<1>4. ASSUME NEW i \in 1..n
      PROVE  /\ LineDiscount(cart.lines[i], rewards) \in Off(LineTotal(cart.lines[i]))
             /\ cart.lines[i].unit \in Num
  BY <1>1, <1>2, IntIsNoNaN DEF Off, PricedIn, Num
<1>5. PricedIn(cart, Num)
  BY <1>1, <1>4 DEF PricedIn
<1> HIDE DEF part, n
<1>6. part \in Seq(Int) /\ Len(part) = n
  BY <1>1, <1>2, <1>3
<1>7. left \in Int
  BY <1>6, SumIsInt
<1>8. order \in UpTo(left)
  BY <1>7, StoredDiscounts
<1>9. /\ AddsUp(cart, quote) /\ quote.finalTotal \in Int
      /\ quote.finalTotal = left - quote.orderDiscount + quote.shipping
  BY <1>1, <1>4, <1>5, <1>7, <1>8, NumbersAddUp DEF part
<1>10. ASSUME PricedIn(cart, Nat) PROVE quote.finalTotal >= 0
  <2>1. left \in Nat
    BY <1>2, <1>6, <1>10, SumNotNegative
  <2>2. order \in Int /\ order <= left
    BY <1>7, <1>8, <2>1, TopOf DEF UpTo
  <2>3. quote.orderDiscount = order /\ quote.shipping = Shipping(cart, rewards)
    BY QuoteParts DEF part
  <2>4. quote.shipping \in Nat
    BY <1>1, <2>3 DEF Shipping
  <2> HIDE DEF quote, left, order
  <2> QED BY <1>9, <2>1, <2>2, <2>3, <2>4
<1> QED BY <1>9, <1>10

(* Which of two rewards is listed first is not seen in what is found. *)
LEMMA FoundOfTwo ==
  ASSUME NEW r \in Reward, NEW s \in Reward, NEW kinds
  PROVE  OfKinds(<<r, s>>, kinds) =
           Found(Found(<<>>, r, kinds), s, kinds)
<1> DEFINE rewards == <<r, s>>
<1>1. /\ rewards \in Seq(Reward) /\ Len(rewards) = 2
      /\ rewards[1] = r /\ rewards[2] = s
  OBVIOUS
<1> HIDE DEF rewards
<1>2. PICK f : Selection(f, rewards, Reward, kinds)
  BY <1>1, Selections
<1>3. f[0] = <<>> /\ OfKinds(rewards, kinds) = f[2]
  BY <1>1, <1>2 DEF Selection
<1>4. \A k \in 1..2 :
        f[k] = Found(f[k - 1], rewards[k], kinds)
  BY <1>1, <1>2 DEF Selection
<1>5. 1 \in 1..2 /\ 1 - 1 = 0 /\ 2 \in 1..2 /\ 2 - 1 = 1
  OBVIOUS
<1>6. f[1] = Found(<<>>, r, kinds)
  BY <1>1, <1>3, <1>4, <1>5
<1>7. f[2] = Found(f[1], s, kinds)
  BY <1>1, <1>4, <1>5
<1> QED BY <1>3, <1>6, <1>7 DEF rewards

LEMMA EitherFirst ==
  ASSUME NEW r \in Reward, NEW s \in Reward, r.kind # s.kind, NEW kind
  PROVE  OfKind(<<r, s>>, kind) = OfKind(<<s, r>>, kind)
<1>1. ~(r.kind = kind /\ s.kind = kind)
  OBVIOUS
<1> QED BY <1>1, FoundOfTwo DEF OfKind, Found

LEMMA QuoteInAnyOrder ==
  ASSUME NEW r \in Reward, NEW s \in Reward, r.kind # s.kind, NEW cart
  PROVE  ApplyDiscounts(cart, <<r, s>>) = ApplyDiscounts(cart, <<s, r>>)
<1> DEFINE a == <<r, s>>
           b == <<s, r>>
<1>1. \A kind : OfKind(a, kind) = OfKind(b, kind)
  BY EitherFirst
<1> HIDE DEF a, b
<1>2. \A percent, fixed : PercentFirst(a, percent, fixed) = PercentFirst(b, percent, fixed)
  BY <1>1 DEF PercentFirst
<1>3. \A line : LineDiscount(line, a) = LineDiscount(line, b)
  BY <1>2 DEF LineDiscount
<1>4. \A subtotal : OrderDiscount(subtotal, a) = OrderDiscount(subtotal, b)
  BY <1>2 DEF OrderDiscount
<1>5. Shipping(cart, a) = Shipping(cart, b)
  BY <1>1 DEF Shipping
<1> QED BY <1>1, <1>3, <1>4, <1>5 DEF ApplyDiscounts, a, b

(* What a form says is stored as a reward, and read as one or as NaN. *)
LEMMA FormsAreRead ==
  \A reward \in Written :
    Stored(reward) \in Reward /\ Parsed(reward, NaN) \in AnyReward
<1> SUFFICES ASSUME NEW reward \in Written, NEW value \in {Null, NaN}
             PROVE  Parsed(reward, value) \in RewardsOf(Int \cup {value})
  <2>1. RewardsOf(Int \cup {NaN}) \subseteq AnyReward
    BY DEF RewardsOf, AnyReward
  <2> QED BY <2>1 DEF Stored, Reward
<1>1. CASE reward.kind \in {"order_percent", "line_percent"} /\ reward.percent = Garbage
  BY <1>1 DEF Parsed, Written, RewardsOf
<1>2. CASE reward.kind \in {"order_fixed", "line_fixed"} /\ reward.amount = Garbage
  BY <1>2 DEF Parsed, Written, RewardsOf
<1>3. CASE /\ ~(reward.kind \in {"order_percent", "line_percent"} /\ reward.percent = Garbage)
           /\ ~(reward.kind \in {"order_fixed", "line_fixed"} /\ reward.amount = Garbage)
  BY <1>3 DEF Parsed, Written, RewardsOf
<1> QED BY <1>1, <1>2, <1>3

LEMMA CartsArePriced ==
  ASSUME NEW cart \in Cart
  PROVE  PricedIn(cart, Nat) /\ PricedIn(cart, Int)
<1>1. cart.lines \in Seq(Line) /\ cart.shipping \in Nat
  BY DEF Cart
<1> DEFINE lines == cart.lines
<1>2. /\ Len(lines) \in Nat /\ DOMAIN lines = 1..Len(lines)
      /\ \A i \in DOMAIN lines : lines[i] \in Line
  BY <1>1
<1>3. \A line \in Line : /\ line.unit \in Nat /\ line.unit \in Int
                         /\ line.quantity \in Nat \ {0}
  BY DEF Line
<1> QED BY <1>1, <1>2, <1>3 DEF PricedIn

LEMMA CreatedRewards ==
  ASSUME DiscountsTypeOK, NEW d \in Created
  PROVE  discounts[d].reward \in Reward
<1>1. discounts[d] \in Row
  BY DEF DiscountsTypeOK, Created
<1>2. Rewards \subseteq Reward
  BY FormsAreRead, DiscountsAssumption DEF Rewards
<1> QED BY <1>1, <1>2 DEF Row

LEMMA StoredQuotes == ASSUME DiscountsTypeOK PROVE StoredQuotesAddUp
<1>1. ASSUME NEW d \in Created, NEW e \in Created, NEW cart \in Carts
      PROVE  LET r == discounts[d].reward
                 s == discounts[e].reward
                 quote == ApplyDiscounts(cart, <<r, s>>)
             IN  /\ AddsUp(cart, quote) /\ quote.finalTotal >= 0
                 /\ r.kind # s.kind => quote = ApplyDiscounts(cart, <<s, r>>)
  <2> DEFINE r == discounts[d].reward
             s == discounts[e].reward
  <2>1. r \in Reward /\ s \in Reward
    BY CreatedRewards
  <2>2. cart \in Cart
    BY DiscountsAssumption
  <2> HIDE DEF r, s
  <2>3. <<r, s>> \in Seq(Reward)
    BY <2>1
  <2>4. /\ AddsUp(cart, ApplyDiscounts(cart, <<r, s>>))
        /\ ApplyDiscounts(cart, <<r, s>>).finalTotal >= 0
    BY <2>2, <2>3, CartsArePriced, StoredQuoteAddsUp
  <2>5. r.kind # s.kind => ApplyDiscounts(cart, <<r, s>>) = ApplyDiscounts(cart, <<s, r>>)
    BY <2>1, QuoteInAnyOrder
  <2> QED BY <2>4, <2>5 DEF r, s
<1> QED BY <1>1 DEF StoredQuotesAddUp

LEMMA Previews == PreviewsAddUp
<1>1. ASSUME NEW offer \in Offers, NEW price \in Prices
      PROVE  LET quote == Preview(offer.reward, price)
             IN  \/ ~Readable(offer.reward, price) /\ quote.finalTotal = NaN
                 \/ AddsUp(SampleCart(offer.reward, price), quote)
  <2> DEFINE r == Parsed(offer.reward, NaN)
             cart == SampleCart(offer.reward, price)
             unit == IF price = Garbage THEN NaN ELSE price
  <2>1. r \in AnyReward /\ <<r>> \in Seq(AnyReward)
    BY FormsAreRead, DiscountsAssumption
  <2>2. unit \in Num /\ (price # Garbage => unit \in Int)
    BY DiscountsAssumption DEF Num
  <2>3. cart.shipping \in Nat
    BY EngineAssumption DEF SampleCart
  <2>4. /\ Len(cart.lines) = 1 /\ DOMAIN cart.lines = 1..1
        /\ \A i \in 1..1 : cart.lines[i].unit = unit /\ cart.lines[i].quantity = 1
    BY DEF SampleCart
  <2>5. Preview(offer.reward, price) = ApplyDiscounts(cart, <<r>>)
    BY DEF Preview
  <2>6. Readable(offer.reward, price) <=> price # Garbage /\ r \in Reward
    BY DEF Readable
  <2> HIDE DEF r, cart, unit
  <2>7. PricedIn(cart, Num) /\ (price # Garbage => PricedIn(cart, Int))
    BY <2>2, <2>3, <2>4 DEF PricedIn
  <2>8. CASE Readable(offer.reward, price)
    <3>1. <<r>> \in Seq(Reward)
      BY <2>6, <2>8
    <3>2. AddsUp(cart, ApplyDiscounts(cart, <<r>>))
      BY <2>6, <2>7, <2>8, <3>1, StoredQuoteAddsUp
    <3> QED BY <2>5, <3>2 DEF cart
  <2>9. CASE ~Readable(offer.reward, price)
    <3>1. \/ ApplyDiscounts(cart, <<r>>).finalTotal = NaN
          \/ AddsUp(cart, ApplyDiscounts(cart, <<r>>))
      BY <2>1, <2>7, AnyQuoteAddsUp
    <3> QED BY <2>5, <2>9, <3>1 DEF cart
  <2> QED BY <2>8, <2>9
<1> QED BY <1>1 DEF PreviewsAddUp
-----------------------------------------------------------------------------
(* The share that one percentage takes of an Order. *)
LEMMA FoundOfOne ==
  ASSUME NEW r, NEW kinds
  PROVE  OfKinds(<<r>>, kinds) = Found(<<>>, r, kinds)
<1> DEFINE rewards == <<r>>
           A == {r}
<1>1. rewards \in Seq(A) /\ Len(rewards) = 1 /\ rewards[1] = r
  OBVIOUS
<1> HIDE DEF rewards, A
<1>2. PICK f : Selection(f, rewards, A, kinds)
  BY <1>1, Selections
<1>3. f[0] = <<>> /\ OfKinds(rewards, kinds) = f[1]
  BY <1>1, <1>2 DEF Selection
<1>4. 1 \in 1..1 /\ 1 - 1 = 0
  OBVIOUS
<1>5. f[1] = Found(f[1 - 1], rewards[1], kinds)
  BY <1>1, <1>2, <1>4 DEF Selection
<1> QED BY <1>1, <1>3, <1>4, <1>5 DEF rewards

LEMMA NothingOffLines ==
  ASSUME NEW r, r.kind = "order_percent", NEW line
  PROVE  LineDiscount(line, <<r>>) = 0
<1> DEFINE list == PercentFirst(<<r>>, "line_percent", "line_fixed")
<1>1. list = <<>>
  BY FoundOfOne DEF PercentFirst, OfKind, Found
<1>2. LineDiscount(line, <<r>>) =
        FoldLeft(LAMBDA given, x : IF ForLine(x, line) THEN Raise(given, LineTotal(line), x)
                                   ELSE given, 0, list)
  BY DEF LineDiscount
<1> HIDE DEF list
<1> DEFINE A == {}
           R == {0}
<1>3. list \in Seq(A) /\ Len(list) = 0
  BY <1>1
<1>4. 0 \in R /\ \A x \in A, y \in R : OffLine(y, line, x) \in R
  OBVIOUS
<1> HIDE DEF A, R
<1>5. PICK f : LineChain(f, line, list, R)
  BY <1>3, <1>4, LineChains
<1> QED BY <1>2, <1>3, <1>5 DEF LineChain

LEMMA OneOffOrder ==
  ASSUME NEW r \in Reward, r.kind = "order_percent", NEW subtotal \in Int
  PROVE  OrderDiscount(subtotal, <<r>>) = Raise(0, subtotal, r)
<1> DEFINE list == PercentFirst(<<r>>, "order_percent", "order_fixed")
           A == {r}
           R == UpTo(subtotal)
<1>1. list = <<r>>
  <2>1. OfKind(<<r>>, "order_percent") = <<r>> /\ OfKind(<<r>>, "order_fixed") = <<>>
    BY FoundOfOne DEF OfKind, Found
  <2>2. <<r>> \o <<>> = <<r>>
    OBVIOUS
  <2>3. list = OfKind(<<r>>, "order_percent") \o OfKind(<<r>>, "order_fixed")
    BY DEF PercentFirst
  <2> HIDE DEF list
  <2> QED BY <2>1, <2>2, <2>3
<1>2. OrderDiscount(subtotal, <<r>>) =
        FoldLeft(LAMBDA given, x : Raise(given, subtotal, x), 0, list)
  BY DEF OrderDiscount
<1> HIDE DEF list
<1>3. list \in Seq(A) /\ Len(list) = 1 /\ list[1] = r
  BY <1>1
<1>4. 0 \in R /\ \A x \in A, y \in R : Raise(y, subtotal, x) \in R
  BY NothingIsOff, RaiseBounds DEF Priced
<1> HIDE DEF A, R
<1>5. PICK f : OrderChain(f, subtotal, list, R)
  BY <1>3, <1>4, OrderChains
<1>6. 1 \in 1..1 /\ 1 - 1 = 0
  OBVIOUS
<1>7. f[1] = Raise(f[1 - 1], subtotal, list[1])
  BY <1>3, <1>5, <1>6 DEF OrderChain
<1> QED BY <1>2, <1>3, <1>5, <1>6, <1>7 DEF OrderChain

(* A share of whole cents is the nearest whole number of cents, wherever its
   double lies, and no more than there is.                                  *)
LEMMA NearestCents ==
  ASSUME NEW left \in Int, NEW percent \in Int
  PROVE  Nearest(left, percent, Cents(left, percent))
<1> DEFINE pair == <<left, percent>>
           share == left * percent
           half == Halves
           number == HalfUp(left, percent)
           miss == 2 * half * number - share
<1>1. half \in Nat \ {0} /\ share \in Int
  <2>1. Unit * Cent \in Nat \ {0}
    BY EngineAssumption
  <2>2. Halves = 50 * (Unit * Cent)
    BY EngineAssumption DEF Halves
  <2> QED BY <2>1, <2>2
<1>2. number = (share + half) \div (2 * half)
  BY DEF HalfUp
<1>3. CASE pair \in DOMAIN Slip
  <2>1. pair[1] = left /\ pair[2] = percent
    OBVIOUS
  <2> QED BY <1>3, <2>1, SlipAssumption DEF Cents
<1>4. CASE pair \notin DOMAIN Slip
  <2> HIDE DEF share, half
  <2>1. -half <= miss /\ miss <= half
    <3> DEFINE whole == 2 * half
               sum == share + half
    <3>1. whole \in Nat \ {0} /\ sum \in Int /\ number = sum \div whole
      BY <1>1, <1>2
    <3> HIDE DEF whole, sum, number
    <3> DEFINE product == whole * number
    <3>2. product \in Int /\ product <= sum /\ sum < product + whole
      BY <3>1
    <3>3. miss = product - share
      BY DEF whole
    <3> HIDE DEF product, miss
    <3> QED BY <1>1, <3>2, <3>3 DEF whole, sum
  <2> QED BY <1>4, <2>1 DEF Nearest, Cents, share, half
<1> QED BY <1>3, <1>4

LEMMA ShareOfOne ==
  ASSUME NEW r, r.kind = "order_percent", r.percent \in 0..(100 * Unit),
         NEW whole \in Nat
  PROVE  LET off == Raise(0, Cent * whole, r) IN
         \E cents \in 0..off : /\ off = Cent * cents
                               /\ Nearest(Cent * whole, r.percent, cents)
<1> DEFINE left == Cent * whole
           percent == r.percent
           half == Halves
<1>1. Cent \in Nat \ {0} /\ Unit \in Nat \ {0} /\ left \in Nat /\ percent \in Nat
  BY EngineAssumption
<1>2. Raise(0, left, r) = Clamp(RoundHalfUp(left, percent), left)
  <2>1. Minus(left, 0) = left /\ Number(percent) = percent
    BY <1>1, IntIsNoNaN, EngineAssumption DEF Minus, Number
  <2> HIDE DEF left, percent
  <2>2. RoundHalfUp(left, percent) \in Int
    BY <1>1, ShareIsInt
  <2>3. Plus(0, RoundHalfUp(left, percent)) = RoundHalfUp(left, percent)
    BY <2>2, IntIsNoNaN DEF Plus
  <2>4. TakenBy(r, left) = RoundHalfUp(left, percent)
    BY <2>1 DEF TakenBy, percent
  <2> QED BY <2>1, <2>3, <2>4 DEF Raise
<1>3. PICK cents \in Int : /\ RoundHalfUp(left, percent) = Cent * cents
                           /\ Nearest(left, percent, cents)
  <2>1. left \in Int /\ percent \in Int
    BY <1>1
  <2> HIDE DEF left, percent
  <2> QED BY <2>1, NearestCents, ShareIsInt
<1>4. half \in Nat \ {0} /\ half = 50 * Unit * Cent
  <2>1. Unit * Cent \in Nat \ {0}
    BY EngineAssumption
  <2>2. Halves = 50 * (Unit * Cent) /\ Halves = 50 * Unit * Cent
    BY EngineAssumption DEF Halves
  <2> QED BY <2>1, <2>2
<1>5. left * percent \in Nat /\ left * percent <= 2 * half * whole
  <2>1. left * percent <= left * (100 * Unit)
    <3> HIDE DEF left
    <3> QED BY <1>1
  <2>2. left * (100 * Unit) = 2 * half * whole
    <3>1. (Cent * whole) * (100 * Unit) = 2 * (50 * Unit * Cent) * whole
      BY <1>1
    <3> QED BY <1>4, <3>1
  <2>3. left * percent \in Nat
    <3> HIDE DEF left, percent
    <3> QED BY <1>1
  <2> QED BY <2>1, <2>2, <2>3
<1>6. 0 <= cents /\ cents <= whole
  <2> DEFINE product == left * percent
             double == 2 * half
  <2>1. /\ double * cents - product >= -half /\ double * cents - product <= half
    BY <1>3 DEF Nearest
  <2>2. product \in Nat /\ product <= double * whole /\ double = half + half
    BY <1>4, <1>5
  <2> HIDE DEF product, half, double
  <2>3. double \in Nat \ {0} /\ double * cents \in Int /\ double * whole \in Int
    BY <1>4, <2>2
  <2>4. double * cents >= -half /\ double * cents <= double * whole + half
    BY <1>4, <2>1, <2>2, <2>3
  <2>5. ~(cents <= -1)
    <3>1. cents <= -1 => double * cents <= -double
      BY <2>3
    <3> QED BY <1>4, <2>2, <2>3, <2>4, <3>1
  <2>6. ~(cents >= whole + 1)
    <3>1. cents >= whole + 1 => double * cents >= double * whole + double
      BY <2>3
    <3> QED BY <1>4, <2>2, <2>3, <2>4, <3>1
  <2> QED BY <2>5, <2>6
<1>7. Cent * cents \in Nat /\ cents <= Cent * cents /\ Cent * cents <= left
  BY <1>1, <1>6
<1>8. Clamp(Cent * cents, left) = Cent * cents
  <2> DEFINE amount == Cent * cents
  <2>1. amount \in Nat /\ amount <= left /\ left \in Nat
    BY <1>1, <1>7
  <2> HIDE DEF amount, left
  <2>2. NaN \notin {amount, left}
    BY <2>1, IntIsNoNaN
  <2>3. Min({amount, left}) = amount
    BY <2>1 DEF Min
  <2>4. Max({0, amount}) = amount
    BY <2>1, TopOf
  <2> QED BY <2>2, <2>3, <2>4 DEF Clamp, amount
<1> QED BY <1>2, <1>3, <1>6, <1>7, <1>8

(* A sum of whole cents is whole cents. *)
LEMMA SumOfCents ==
  ASSUME NEW a \in Seq(Nat), \A i \in DOMAIN a : WholeCents(a[i])
  PROVE  \E whole \in Nat : SumOf(a) = Cent * whole
<1> DEFINE n == Len(a)
           IsWhole(amount) == \E whole \in Nat : amount = Cent * whole
<1>1. n \in Nat /\ DOMAIN a = 1..n /\ a \in Seq(Int)
  OBVIOUS
<1>2. PICK f : IntSum(f, a)
  BY <1>1, IntSums
<1> DEFINE P == {k \in 0..n : IsWhole(f[k])}
<1>3. 0 \in P
  <2>1. f[0] = 0 /\ 0 = Cent * 0
    BY <1>2, EngineAssumption DEF IntSum
  <2> QED BY <1>1, <2>1
<1>4. ASSUME NEW k \in 1..n, k - 1 \in P PROVE k \in P
  <2>1. PICK v \in Nat : f[k - 1] = Cent * v
    BY <1>4
  <2>2. PICK w \in Nat : a[k] = Cent * w
    BY <1>1 DEF WholeCents
  <2>3. f[k] = Cent * v + Cent * w
    BY <1>2, <2>1, <2>2 DEF IntSum
  <2>4. Cent * v + Cent * w = Cent * (v + w) /\ v + w \in Nat
    BY EngineAssumption
  <2> QED BY <1>1, <2>3, <2>4
<1>5. n \in 0..n
  BY <1>1
<1>6. n \in P
  <2> HIDE DEF P, n
  <2> QED BY <1>1, <1>3, <1>4, <1>5, Counting
<1> QED BY <1>2, <1>6 DEF IntSum

LEMMA Shares == ASSUME DiscountsTypeOK PROVE SharesAreToTheCent
<1>1. ASSUME NEW d \in Created, NEW cart \in Carts,
             discounts[d].reward \in Percentages
      PROVE  LET r == discounts[d].reward
                 off == PercentOff(cart, r)
             IN  \E cents \in 0..off : /\ off = Cent * cents
                                       /\ Nearest(Subtotal(cart), r.percent, cents)
  <2> DEFINE r == discounts[d].reward
             n == Len(cart.lines)
             totals == Totals(cart)
  <2>1. r \in Reward /\ r.kind = "order_percent" /\ r.percent \in 0..(100 * Unit)
    BY <1>1, CreatedRewards DEF Percentages
  <2>2. cart \in Cart /\ \A i \in DOMAIN cart.lines : WholeCents(cart.lines[i].unit)
    BY DiscountsAssumption
  <2>3. n \in Nat /\ DOMAIN cart.lines = 1..n /\ PricedIn(cart, Nat)
    BY <2>2, CartsArePriced DEF PricedIn
  <2> HIDE DEF r
  <2>4. ASSUME NEW i \in 1..n PROVE totals[i] \in Nat /\ WholeCents(totals[i])
    <3> DEFINE unit == cart.lines[i].unit
               quantity == cart.lines[i].quantity
               total == unit * quantity
    <3>1. unit \in Nat /\ quantity \in Nat \ {0}
      BY <2>3 DEF PricedIn
    <3>2. totals[i] = total
      BY <2>3, <3>1, IntIsNoNaN DEF Totals, LineTotal
    <3>3. PICK whole \in Nat : unit = Cent * whole
      BY <2>2, <2>3 DEF WholeCents
    <3> HIDE DEF unit, quantity, total
    <3>4. total \in Nat /\ total = Cent * (whole * quantity) /\ whole * quantity \in Nat
      BY <3>1, <3>3, EngineAssumption DEF total
    <3> DEFINE m == whole * quantity
    <3>5. m \in Nat /\ total = Cent * m
      BY <3>4
    <3> HIDE DEF m
    <3>6. m \in 0..total
      <4>1. m <= Cent * m
        BY <3>5, EngineAssumption
      <4> QED BY <3>4, <3>5, <4>1
    <3> QED BY <3>2, <3>4, <3>5, <3>6 DEF WholeCents
  <2>5. totals = [i \in 1..n |-> totals[i]]
    BY <2>3 DEF Totals
  <2>6. LeftOf(cart, <<r>>) = totals
    <3>1. ASSUME NEW i \in 1..n
          PROVE  Minus(LineTotal(cart.lines[i]), LineDiscount(cart.lines[i], <<r>>)) = totals[i]
      <4>1. LineTotal(cart.lines[i]) = totals[i] /\ LineDiscount(cart.lines[i], <<r>>) = 0
        BY <2>1, <2>3, NothingOffLines DEF Totals
      <4>2. totals[i] \in Int
        BY <2>4
      <4> HIDE DEF totals
      <4> QED BY <4>1, <4>2, IntIsNoNaN DEF Minus
    <3> HIDE DEF totals, n
    <3> QED BY <2>3, <2>5, <3>1 DEF LeftOf
  <2> HIDE DEF totals, n
  <2>7. totals \in Seq(Nat) /\ DOMAIN totals = 1..n
    BY <2>3, <2>4, <2>5
  <2>8. PICK whole \in Nat : SumOf(totals) = Cent * whole
    BY <2>4, <2>7, SumOfCents
  <2>9. Subtotal(cart) = Cent * whole /\ Cent * whole \in Int
    BY <2>8, EngineAssumption DEF Subtotal, totals
  <2>10. PercentOff(cart, r) = Raise(0, Cent * whole, r)
    <3>1. PercentOff(cart, r) = OrderDiscount(Cent * whole, <<r>>)
      BY <2>6, <2>8, QuoteParts DEF PercentOff
    <3> QED BY <2>1, <2>9, <3>1, OneOffOrder
  <2>11. \E cents \in 0..PercentOff(cart, r) :
           /\ PercentOff(cart, r) = Cent * cents
           /\ Nearest(Subtotal(cart), r.percent, cents)
    BY <2>1, <2>9, <2>10, ShareOfOne
  <2> QED BY <2>11 DEF r
<1> SUFFICES ASSUME NEW r \in Percentages, NEW cart \in Carts
             PROVE  LET off == PercentOff(cart, r) IN
                    \E cents \in 0..off : /\ off = Cent * cents
                                          /\ Nearest(Subtotal(cart), r.percent, cents)
  BY DEF SharesAreToTheCent
<1>2. PICK d \in Created : r = discounts[d].reward
  BY DEF Percentages
<1> QED BY <1>1, <1>2

(* Whatever percentages a Store creates, whole or fractional, and whatever the
   doubles in between do to a half: what one takes off an Order of whole cents
   is a whole number of cents, and none is nearer to its exact share.       *)
THEOREM SharesAlwaysToTheCent == DiscountsSpec => []SharesAreToTheCent
BY Shares, DiscountsTypes, PTL

(* Whatever its forms were given and whatever was created and redeemed: any two
   of the Store's rewards on any cart make a quote that adds up and does not
   depend on the order in which rewards of different kinds are listed; one
   percentage takes off whole cents, none nearer to its share; and a preview
   adds up, or the form had something that is no number and it shows none. *)
THEOREM QuotesAlwaysAddUp == DiscountsSpec => []QuotesAddUp
<1>1. DiscountsTypeOK => QuotesAddUp
  BY StoredQuotes, Previews, Shares DEF QuotesAddUp
<1> QED BY <1>1, DiscountsTypes, PTL
=============================================================================
