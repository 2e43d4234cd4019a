------------------------------ MODULE Catalog ------------------------------
(***************************************************************************)
(* The catalog of a few Stores: Merchants create and delete Products and   *)
(* put them in Collections while Customers and dashboards read pages.      *)
(*                                                                         *)
(* Every operation is one transaction, but each statement of it sees what  *)
(* is committed by then, so a page that asks for the Products and then for *)
(* the Variants of each may see two catalogs.  Adding a Product to a       *)
(* Collection locks it against deletion until the addition commits; a      *)
(* deletion that came first makes the addition wait, and fail.  Statements *)
(* that no other can come between are one step.                            *)
(*                                                                         *)
(* A Product never changes between its creation and its deletion, except   *)
(* for its stock, which is module Webhook's: so what it is, is constant.   *)
(* The caller's Role was checked before the request (module Stores).       *)
(***************************************************************************)
EXTENDS Integers, Sequences, FiniteSets, FiniteSetsExt

CONSTANTS
  Stores, Products, Collections, Requests,
  StoreOf,    \* the Store of a Product or Collection
  SlugOf,     \* the slug of a Product or Collection
  TagsOf,     \* products.tags
  PricesOf,   \* what the Variants of a Product cost; createProduct refuses none
  Drafts,     \* Products that are not published
  FormOf,     \* the form each Collection is created with
  MaxPrice,   \* above every price: Number.MAX_SAFE_INTEGER
  Garbage,    \* a form's text that is no number
  Ops,        \* what each of Requests may ask for
  Null,       \* JSON's null
  None        \* an absent field, an empty form field, nothing

Tiers == {"free", "pro", "scale"}

(* An empty field sets no limit.  What parseFloat makes of garbage is NaN, which
   JSON stores as null. *)
ParseLimit(text) == IF text = Garbage THEN Null ELSE text

(* createCollectionAction: what is stored as collections.type and .rule. *)
ParseRule(form) ==
  IF form.type = "manual" THEN [type |-> "manual"]
  ELSE CASE form.rule = "tag"   -> [type |-> "tag", tag |-> form.tag]
         [] form.rule = "price" -> [type |-> "price", min |-> ParseLimit(form.min),
                                    max |-> ParseLimit(form.max)]
         [] OTHER               -> [type |-> "none"]
RuleOf(c) == ParseRule(FormOf[c])

Storefront == {"listing", "product", "collection"}
Pages      == Storefront \cup {"products", "members", "billing"}
Kinds      == Pages \cup {"create", "delete", "collect", "add", "remove", "plan"}

OpOK(op) ==
  /\ op.kind \in Kinds /\ op.store \in Stores
  /\ op.kind \in {"create", "delete", "remove"} => op.product \in Products
  /\ op.kind \in {"collect", "add", "remove", "members"} => op.collection \in Collections
  /\ op.kind = "add" => op.products \subseteq Products
  /\ op.kind = "plan" => op.tier \in Tiers

(* The history variables tell a Product from a Collection and a membership. *)
FactsApart ==
  LET pairs == (Collections \X Products) \cup (Stores \X Tiers) IN
  /\ Products \cap Collections = {} /\ (Products \cup Collections) \cap pairs = {}
  /\ (Collections \X Products) \cap (Stores \X Tiers) = {}

ConstantsOK ==
  /\ IsFiniteSet(Products) /\ FactsApart
  /\ StoreOf \in [Products \cup Collections -> Stores]
  /\ MaxPrice \in Nat
  /\ \A p \in Products : PricesOf[p] # {} /\ PricesOf[p] \subseteq 0..MaxPrice
  /\ Drafts \subseteq Products
  /\ \A r \in Requests : \A op \in Ops[r] : OpOK(op)
  /\ None \notin Products \cup Collections \cup Tiers \cup Nat
ASSUME CatalogAssumption == ConstantsOK

VARIABLES
  products,     \* the Products there are
  gone,         \* the Products that were deleted
  collections,  \* the Collections there are
  members,      \* collection_products: <<Collection, Product>>
  tier,         \* subscriptions.tier_id, "free" without one
  req,          \* the requests
  always, ever  \* history: what held all the time a request ran, and at some time

tables == <<products, gone, collections, members, tier>>
vars   == <<tables, req, always, ever>>

(* todo is what a loop has left, wait the Product whose deletion it waits for,
   rows what is inserted and not committed, page what was read: Products with
   the prices shown. *)
Idle == [pc |-> "idle", op |-> [kind |-> "none"], todo |-> {}, wait |-> None, rows |-> {},
         collection |-> None, page |-> {}, plan |-> None, count |-> None]

InitWith(there, named) ==
  /\ products = there /\ gone = {} /\ collections = named /\ members = {}
  /\ tier = [s \in Stores |-> "free"]
  /\ req = [r \in Requests |-> Idle]
  /\ always = [r \in Requests |-> {}] /\ ever = [r \in Requests |-> {}]
Init == InitWith({}, {})

-----------------------------------------------------------------------------
Op(r)        == req[r].op
Is(r, pc, kinds) == req[r].pc = pc /\ Op(r).kind \in kinds
Set(r, x)    == req' = [req EXCEPT ![r] = x]
Goto(r, pc)  == Set(r, [req[r] EXCEPT !.pc = pc])
End(r)       == Set(r, Idle)
Shown(r, page) == Set(r, [req[r] EXCEPT !.pc = "shown", !.page = page])

(* Row level security: a request sees the rows of its own Store. *)
Sees(r, x) == StoreOf[x] = Op(r).store
(* Another request has deleted the Product and not committed. *)
Deleting(p) == \E q \in Requests : Is(q, "deleting", {"delete"}) /\ Op(q).product = p
(* Another request has put the Product in a Collection and not committed. *)
Referenced(p) == \E q \in Requests : \E row \in req[q].rows : row[2] = p

Begin(r, op) ==
  /\ req[r].pc = "idle"
  /\ Set(r, [Idle EXCEPT !.pc = "start", !.op = op, !.todo = IF op.kind = "add" THEN op.products ELSE {}])
  /\ UNCHANGED tables

(* createProduct, with all its Variants; products_store_slug_unique lets it
   wait for a deletion of the Product that has the slug. *)
SlugTaken(p) == \E q \in products : StoreOf[q] = StoreOf[p] /\ SlugOf[q] = SlugOf[p]
CreateProduct(r) ==
  LET p == Op(r).product IN
  /\ Is(r, "start", {"create"})
  /\ \A q \in products : SlugOf[q] = SlugOf[p] /\ Sees(r, q) => ~Deleting(q)
  /\ products' = IF SlugTaken(p) \/ p \in gone THEN products ELSE products \cup {p}
  /\ End(r)
  /\ UNCHANGED <<gone, collections, members, tier>>

(* deleteProduct: its row, then its Variants and memberships with it. *)
DeleteProduct(r) ==
  LET p == Op(r).product IN
  /\ Is(r, "start", {"delete"}) /\ ~Deleting(p) /\ ~Referenced(p)
  /\ IF p \in products /\ Sees(r, p) THEN Goto(r, "deleting") ELSE End(r)
  /\ UNCHANGED tables

CommitDelete(r) ==
  LET p == Op(r).product IN
  /\ Is(r, "deleting", {"delete"})
  /\ products' = products \ {p} /\ gone' = gone \cup {p}
  /\ members' = {row \in members : row[2] # p}
  /\ End(r)
  /\ UNCHANGED <<collections, tier>>

CreateCollection(r) ==
  /\ Is(r, "start", {"collect"})
  /\ collections' = collections \cup {Op(r).collection}
  /\ End(r)
  /\ UNCHANGED <<products, gone, members, tier>>

(* Mutant: a plain INSERT, whose foreign keys see every Store's rows. *)
Exist(r, c, p)  == c \in collections /\ p \in products
(* The pair is selected through row level security. *)
Linked(r, c, p) == c \in collections /\ p \in products /\ Sees(r, c) /\ Sees(r, p)

Skip(r, p)   == Set(r, [req[r] EXCEPT !.todo = @ \ {p}])
Insert(r, p) == Set(r, [req[r] EXCEPT !.pc = "start", !.todo = @ \ {p}, !.wait = None,
                                      !.rows = @ \cup {<<Op(r).collection, p>>}])
Wait(r, p)   == Set(r, [req[r] EXCEPT !.pc = "waiting", !.wait = p])

(* addCollectionMembers: one INSERT for each Product of the list. *)
AddMember(r) ==
  LET c == Op(r).collection IN
  /\ Is(r, "start", {"add"})
  /\ \E p \in req[r].todo :
       \/ ~Linked(r, c, p) /\ Skip(r, p)
       \/ Linked(r, c, p) /\ ~Deleting(p) /\ Insert(r, p)
       \/ Linked(r, c, p) /\ Deleting(p) /\ Wait(r, p)
  /\ UNCHANGED tables

(* The foreign key waits for the deletion: the Product is still there after
   all, or the addition fails with all it has inserted. *)
AwaitDelete(r) ==
  LET p == req[r].wait IN
  /\ Is(r, "waiting", {"add"}) /\ ~Deleting(p)
  /\ IF p \in products THEN Insert(r, p) ELSE End(r)
  /\ UNCHANGED tables

(* A pair has no key of its own (only the row's id has), so a Product that is
   added twice has two rows, and is listed twice until both are removed
   together; what is modelled is which pairs have a row. *)
CommitMembers(r) ==
  /\ Is(r, "start", {"add"}) /\ req[r].todo = {}
  /\ members' = members \cup req[r].rows
  /\ End(r)
  /\ UNCHANGED <<products, gone, collections, tier>>

RemoveMember(r) ==
  LET row == <<Op(r).collection, Op(r).product>> IN
  /\ Is(r, "start", {"remove"})
  /\ members' = IF Sees(r, row[1]) THEN members \ {row} ELSE members
  /\ End(r)
  /\ UNCHANGED <<products, gone, collections, tier>>

(* setStoreTier: an upsert. *)
SetTier(r) ==
  /\ Is(r, "start", {"plan"})
  /\ tier' = [tier EXCEPT ![Op(r).store] = Op(r).tier]
  /\ End(r)
  /\ UNCHANGED <<products, gone, collections, members>>

-----------------------------------------------------------------------------
(* Pages.                                                                  *)

Published(p) == p \notin Drafts
Lowest(prices) == IF prices = {} THEN 0 ELSE Min(prices)
(* What a page shows of a Product whose Variants cost that. *)
Quote(kind, prices) ==
  CASE kind \in {"products", "product"}   -> prices
    [] kind \in {"listing", "collection"} -> {Lowest(prices)}
    [] OTHER                              -> {}

(* listPublishedProducts, getProductBySlug, listProducts: first the Products. *)
Listed(r) == {p \in products : /\ Sees(r, p)
                               /\ Op(r).kind = "products" \/ Published(p)
                               /\ Op(r).kind = "product" => SlugOf[p] = Op(r).slug}
ReadProducts(r) ==
  /\ Is(r, "start", {"listing", "product", "products"})
  /\ Set(r, [req[r] EXCEPT !.pc = "variants", !.todo = Listed(r)])
  /\ UNCHANGED tables

(* Then the Variants of each. *)
ReadVariants(r) ==
  LET prices(p) == IF p \in products THEN PricesOf[p] ELSE {}
      entry(p)  == [product |-> p, prices |-> Quote(Op(r).kind, prices(p))] IN
  /\ Is(r, "variants", {"listing", "product", "products"})
  /\ \/ \E p \in req[r].todo :
          Set(r, [req[r] EXCEPT !.todo = @ \ {p}, !.page = @ \cup {entry(p)}])
     \/ req[r].todo = {} /\ Shown(r, req[r].page)
  /\ UNCHANGED tables

(* Collections are found by id, or by slug, which several may have. *)
Named(r) == {c \in Collections :
               /\ Sees(r, c)
               /\ IF Op(r).kind = "members" THEN c = Op(r).collection ELSE SlugOf[c] = Op(r).slug}
FindCollection(r) ==
  LET found == collections \cap Named(r) IN
  /\ Is(r, "start", {"collection", "members"})
  /\ \/ found = {} /\ Shown(r, {})
     \/ \E c \in found : Set(r, [req[r] EXCEPT !.pc = "query", !.collection = c])
  /\ UNCHANGED tables

(* Mutant: a rule without a maximum has none. *)
AtMostZero(max) == IF max \in {None, Null} THEN 0 ELSE max
Lower(min) == IF min \in {None, Null} THEN 0 ELSE min
Upper(max) == IF max \in {None, Null} THEN MaxPrice ELSE max

(* The rule as a WHERE clause. *)
Selected(rule, p) ==
  CASE rule.type = "tag"   -> rule.tag \in TagsOf[p]
    [] rule.type = "price" -> Lower(rule.min) <= Min(PricesOf[p]) /\ Min(PricesOf[p]) <= Upper(rule.max)
    [] OTHER               -> FALSE

(* listCollectionMembers, getStorefrontCollectionBySlug: one query. *)
QueryMembers(r) ==
  LET c    == req[r].collection
      all  == {p \in products : Sees(r, p) /\ (Op(r).kind = "members" \/ Published(p))}
      those == IF RuleOf(c).type = "manual" THEN {p \in all : <<c, p>> \in members}
               ELSE {p \in all : Selected(RuleOf(c), p)} IN
  /\ Is(r, "query", {"collection", "members"})
  /\ Shown(r, {[product |-> p, prices |-> Quote(Op(r).kind, PricesOf[p])] : p \in those})
  /\ UNCHANGED tables

(* getDashboardBilling: the Tier and the usage are read at once, on two
   connections. *)
ReadTier(r) ==
  /\ Is(r, "start", {"billing"}) /\ req[r].plan = None
  /\ Set(r, [req[r] EXCEPT !.plan = tier[Op(r).store]])
  /\ UNCHANGED tables
ReadUsage(r) ==
  /\ Is(r, "start", {"billing"}) /\ req[r].count = None
  /\ Set(r, [req[r] EXCEPT !.count = Cardinality({p \in products : Sees(r, p)})])
  /\ UNCHANGED tables
ShowBilling(r) ==
  /\ Is(r, "start", {"billing"}) /\ None \notin {req[r].plan, req[r].count}
  /\ Shown(r, {})
  /\ UNCHANGED tables

(* The page is left. *)
Leave(r) == req[r].pc = "shown" /\ End(r) /\ UNCHANGED tables

(* The request fails, and its transaction with it. *)
Fail(r) == req[r].pc \notin {"idle", "shown"} /\ End(r) /\ UNCHANGED tables

-----------------------------------------------------------------------------
(* What pages are about. *)
Facts == products \cup collections \cup members \cup {<<s, tier[s]>> : s \in Stores}

(* What is recorded for r: nothing unless it reads a page, all there is when it
   begins, then more as long as it reads. *)
Watched(r, old, more) ==
  IF req'[r].pc = "idle" \/ Op(r)'.kind \notin Pages THEN {}
  ELSE IF req[r].pc = "idle" THEN Facts'
  ELSE IF req[r].pc = "shown" THEN old ELSE more

Watch ==
  /\ always' = [r \in Requests |-> Watched(r, always[r], always[r] \cap Facts')]
  /\ ever'   = [r \in Requests |-> Watched(r, ever[r], ever[r] \cup Facts')]

Write(r) ==
  \/ CreateProduct(r) \/ DeleteProduct(r) \/ CommitDelete(r) \/ CreateCollection(r)
  \/ AddMember(r) \/ AwaitDelete(r) \/ CommitMembers(r) \/ RemoveMember(r) \/ SetTier(r)
Read(r) ==
  \/ ReadProducts(r) \/ ReadVariants(r) \/ FindCollection(r) \/ QueryMembers(r)
  \/ ReadTier(r) \/ ReadUsage(r) \/ ShowBilling(r) \/ Leave(r)

Next ==
  /\ \E r \in Requests : (\E op \in Ops[r] : Begin(r, op)) \/ Write(r) \/ Read(r) \/ Fail(r)
  /\ Watch
Spec == Init /\ [][Next]_vars

-----------------------------------------------------------------------------
(* Properties.                                                             *)

(* Whatever ids a request names and whatever is deleted meanwhile, a membership
   links a Collection and a Product that exist and are of one Store (the claim
   above addCollectionMembers). *)
MembersOfOneStore ==
  \A row \in members : /\ row[1] \in collections /\ row[2] \in products
                       /\ StoreOf[row[1]] = StoreOf[row[2]]

(* matchesRule of collections.ts.  A limit that was left out is undefined and
   none; one that is null is compared with, and counts as 0. *)
Compared(limit) == IF limit = Null THEN 0 ELSE limit
MatchesRule(rule, p) ==
  CASE rule.type = "tag"   -> rule.tag \in TagsOf[p]
    [] rule.type = "price" -> /\ rule.min # None => Min(PricesOf[p]) >= Compared(rule.min)
                              /\ rule.max # None => Min(PricesOf[p]) <= Compared(rule.max)
    [] OTHER               -> FALSE

(* The rule that a form asks for: what is no number in it sets no limit. *)
AsAsked(rule) ==
  LET Limit(value) == IF value = Null THEN None ELSE value IN
  IF rule.type = "price" THEN [type |-> "price", min |-> Limit(rule.min),
                               max |-> Limit(rule.max)]
  ELSE rule

Belongs(c, p, facts) ==
  IF RuleOf(c).type = "manual" THEN <<c, p>> \in facts
  ELSE MatchesRule(AsAsked(RuleOf(c)), p)

(* The Products that are to be on a page when the facts are these. *)
About(r, facts) ==
  LET c == req[r].collection IN
  {p \in facts \cap Products :
     /\ Sees(r, p)
     /\ Op(r).kind \in Storefront => Published(p)
     /\ Op(r).kind = "product" => SlugOf[p] = Op(r).slug
     /\ Op(r).kind \in {"collection", "members"} => c # None /\ Belongs(c, p, facts)}

(* A page leaves out nothing that was there all the time it was read, shows
   nothing that never was, and shows a wrong price only of a Product that was
   deleted while the page was read.  An automated Collection shows the Products
   that matchesRule accepts, although its page is a query of its own, with one
   exception: a limit stored as null is none for the query, and 0 for
   matchesRule.  A Collection is not found only if it was not there; and the
   billing page shows a Tier the Store had and a number of Products it can have
   had.                                                                     *)
PageIsTrue(r) ==
  LET shown == {e.product : e \in req[r].page} IN
  /\ About(r, always[r]) \subseteq shown
  /\ shown \subseteq About(r, ever[r])
  /\ \A e \in req[r].page :
       e.product \in always[r] => e.prices = Quote(Op(r).kind, PricesOf[e.product])
NotFoundIsTrue(r) == req[r].collection = None => always[r] \cap Named(r) = {}
BillingIsTrue(r) ==
  /\ <<Op(r).store, req[r].plan>> \in ever[r]
  /\ Cardinality(About(r, always[r])) <= req[r].count
  /\ req[r].count <= Cardinality(About(r, ever[r]))
PagesAreTrue ==
  \A r \in Requests :
    /\ Is(r, "shown", Storefront \cup {"products", "members"}) => PageIsTrue(r)
    /\ Is(r, "shown", {"collection", "members"}) => NotFoundIsTrue(r)
    /\ Is(r, "shown", {"billing"}) => BillingIsTrue(r)
=============================================================================
