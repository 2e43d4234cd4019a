--------------------------- MODULE CatalogProofs ---------------------------
(***************************************************************************)
(* For any Stores, Products, Collections and requests: a membership links  *)
(* a Collection and a Product that exist and are of one Store, and a page  *)
(* that is read statement by statement is true of the time it was read.    *)
(*                                                                         *)
(* A membership that is written and not committed holds its Product        *)
(* against deletion (Formed): so it still links what exists when it        *)
(* commits.  PagesInv says of a page under way what PagesAreTrue says of   *)
(* one that is shown: what it has read and what it has left to read lie    *)
(* between what was there all the time and what ever was, and the tables   *)
(* lie between them too, so the next statement adds nothing else.          *)
(***************************************************************************)
EXTENDS Catalog, FiniteSetTheorems, WellFoundedInduction, TLAPS

NoOp    == [kind |-> "none"]
AllOps  == (UNION {Ops[r] : r \in Requests}) \cup {NoOp}
Entries == [product : Products,
            prices : {Quote(kind, prices) : kind \in Kinds, prices \in SUBSET (0..MaxPrice)}]
Requested ==
  [pc : {"idle", "start", "deleting", "waiting", "variants", "query", "shown"},
   op : AllOps, todo : SUBSET Products, wait : Products \cup {None},
   rows : SUBSET (Collections \X Products), collection : Collections \cup {None},
   page : SUBSET Entries, plan : Tiers \cup {None}, count : Nat \cup {None}]

TypeOK ==
  /\ products \subseteq Products /\ gone \subseteq Products
  /\ collections \subseteq Collections
  /\ members \subseteq Collections \X Products
  /\ tier \in [Stores -> Tiers]
  /\ req \in [Requests -> Requested]

(* A membership that a request has written links what is there, in one Store;
   and nobody deletes its Product. *)
Linkable(row) ==
  /\ row[1] \in collections /\ row[2] \in products
  /\ StoreOf[row[1]] = StoreOf[row[2]]

(* What a request under way knows. *)
Formed(r) ==
  /\ req[r].pc # "idle" => OpOK(Op(r))
  /\ req[r].pc = "idle" => req[r].rows = {}
  /\ req[r].pc = "deleting" => Op(r).kind = "delete" /\ ~Referenced(Op(r).product)
  /\ req[r].pc = "waiting" =>
       /\ Op(r).kind = "add" /\ Op(r).collection \in collections
       /\ req[r].wait \in Products /\ Sees(r, Op(r).collection) /\ Sees(r, req[r].wait)
  /\ req[r].rows # {} => Op(r).kind = "add"
  /\ \A row \in req[r].rows : Linkable(row)

Inv == TypeOK /\ MembersOfOneStore /\ \A r \in Requests : Formed(r)

-----------------------------------------------------------------------------
LEMMA IdleType == Idle \in Requested /\ Idle.pc = "idle" /\ Idle.rows = {}
  <1>1. Idle.op = NoOp
    BY DEF Idle, NoOp
  <1>2. Idle.op \in AllOps
    BY <1>1 DEF AllOps
  <1> QED BY <1>2 DEF Idle, Requested

LEMMA InitInv ==
  ASSUME NEW there \in SUBSET Products, NEW named \in SUBSET Collections,
         InitWith(there, named)
  PROVE  Inv
  <1>1. TypeOK
    BY IdleType DEF InitWith, TypeOK, Tiers
  <1>2. ASSUME NEW r \in Requests PROVE Formed(r)
    <2>1. req[r].pc = "idle" /\ req[r].rows = {}
      BY IdleType DEF InitWith
    <2> QED BY <2>1 DEF Formed
  <1>3. MembersOfOneStore
    BY DEF InitWith, MembersOfOneStore
  <1> QED BY <1>1, <1>2, <1>3 DEF Inv

LEMMA Moved ==
  ASSUME Inv, NEW r \in Requests, NEW x, Set(r, x)
  PROVE  \A q \in Requests : req'[q] = IF q = r THEN x ELSE req[q]
  BY DEF Inv, TypeOK, Set

(* r moves to the state x; what the others have written stays right, nobody
   else deletes what r has written, and r deletes nothing that they have. *)
LEMMA MovesInv ==
  ASSUME Inv, TypeOK', MembersOfOneStore', NEW r \in Requests, NEW x \in Requested,
         Set(r, x), collections \subseteq collections',
         \A q \in Requests \ {r} : \A row \in req[q].rows : Linkable(row)',
         x.pc # "idle" => OpOK(x.op),
         x.pc = "idle" => x.rows = {},
         x.pc = "deleting" =>
           /\ x.op.kind = "delete" /\ x.rows = {}
           /\ \A q \in Requests \ {r} : \A row \in req[q].rows : row[2] # x.op.product,
         x.pc = "waiting" =>
           /\ x.op.kind = "add" /\ x.op.collection \in collections'
           /\ x.wait \in Products /\ StoreOf[x.op.collection] = x.op.store
           /\ StoreOf[x.wait] = x.op.store,
         x.rows # {} => x.op.kind = "add",
         \A row \in x.rows : Linkable(row)' /\ \A q \in Requests \ {r} :
           req[q].pc = "deleting" => row[2] # Op(q).product
  PROVE  Inv'
  <1>1. \A q \in Requests : req'[q] = IF q = r THEN x ELSE req[q]
    BY Moved
  <1>2. ASSUME NEW q \in Requests PROVE Formed(q)'
    <2>1. CASE q = r
      <3>1. req'[q] = x
        BY <1>1, <2>1
      <3>2. x.pc = "deleting" => ~Referenced(x.op.product)'
        BY <1>1 DEF Referenced
      <3> QED BY <3>1, <3>2 DEF Formed, Op, Sees, Referenced
    <2>2. CASE q # r
      <3>1. req'[q] = req[q] /\ Formed(q)
        BY <1>1, <2>2 DEF Inv
      <3>2. req[q].pc = "deleting" => ~Referenced(Op(q).product)'
        BY <1>1, <2>2, <3>1 DEF Formed, Referenced, Op
      <3>3. \A row \in req[q].rows : Linkable(row)'
        BY <2>2
      <3> QED BY <3>1, <3>2, <3>3 DEF Formed, Op, Sees, Referenced
    <2> QED BY <2>1, <2>2
  <1> QED BY <1>2 DEF Inv

(* r moves and changes no table. *)
LEMMA QuietInv ==
  ASSUME Inv, NEW r \in Requests, NEW x \in Requested, Set(r, x), UNCHANGED tables,
         x.pc \notin {"deleting", "waiting"},
         x.pc # "idle" => OpOK(x.op),
         \/ x.rows = {}
         \/ x.rows = req[r].rows /\ x.op = Op(r) /\ x.pc # "idle"
  PROVE  Inv'
  <1>1. TypeOK' /\ MembersOfOneStore'
    BY DEF Inv, TypeOK, tables, Set, MembersOfOneStore
  <1>2. \A q \in Requests : \A row \in req[q].rows : Linkable(row) /\ Linkable(row)'
    BY DEF Inv, Formed, Linkable, tables
  <1>3. \A q \in Requests \ {r} : \A row \in x.rows :
          req[q].pc = "deleting" => row[2] # Op(q).product
    BY DEF Inv, Formed, Referenced
  <1>4. x.rows # {} => x.op.kind = "add"
    BY DEF Inv, Formed
  <1> QED BY <1>1, <1>2, <1>3, <1>4, MovesInv DEF tables

LEMMA RequestParts ==
  ASSUME Inv, NEW r \in Requests
  PROVE  req[r] \in Requested /\ Formed(r)
  BY DEF Inv, TypeOK

(* A request ends. *)
LEMMA EndInv ==
  ASSUME Inv, NEW r \in Requests, End(r), UNCHANGED tables
  PROVE  Inv'
  BY IdleType, QuietInv DEF End

LEMMA BeginInv ==
  ASSUME ConstantsOK, Inv, NEW r \in Requests, NEW op \in Ops[r], Begin(r, op)
  PROVE  Inv'
  <1> DEFINE todo == IF op.kind = "add" THEN op.products ELSE {}
             x == [Idle EXCEPT !.pc = "start", !.op = op, !.todo = todo]
  <1>1. OpOK(op) /\ op \in AllOps
    BY DEF ConstantsOK, AllOps
  <1>2. todo \in SUBSET Products
    BY <1>1 DEF OpOK
  <1> HIDE DEF todo
  <1>3. x \in Requested /\ x.pc = "start" /\ x.op = op /\ x.rows = {}
    BY <1>1, <1>2, IdleType DEF Requested
  <1>4. Set(r, x) /\ UNCHANGED tables
    BY DEF Begin, todo
  <1> HIDE DEF x
  <1> QED BY <1>1, <1>3, <1>4, QuietInv

(* The state x that a reading step takes r to. *)
Kept(x, y) == x.op = y.op /\ x.rows = y.rows

LEMMA ReadProductsTo ==
  ASSUME Inv, NEW r \in Requests, ReadProducts(r)
  PROVE  \E x \in Requested :
           /\ Set(r, x) /\ Kept(x, req[r]) /\ x.pc = "variants" /\ x.todo = Listed(r)
           /\ x.page = req[r].page /\ x.collection = req[r].collection
  <1> DEFINE x == [req[r] EXCEPT !.pc = "variants", !.todo = Listed(r)]
  <1>1. req[r] \in Requested /\ Listed(r) \in SUBSET Products
    BY RequestParts DEF Listed, Inv, TypeOK
  <1>2. /\ x \in Requested /\ Kept(x, req[r]) /\ x.pc = "variants" /\ x.todo = Listed(r)
        /\ x.page = req[r].page /\ x.collection = req[r].collection
    BY <1>1 DEF Requested, Kept
  <1> HIDE DEF x
  <1>3. Set(r, x)
    BY DEF ReadProducts, x
  <1> QED BY <1>2, <1>3

Entry(r, p) == [product |-> p,
                prices |-> Quote(Op(r).kind, IF p \in products THEN PricesOf[p] ELSE {})]

LEMMA EntryType ==
  ASSUME ConstantsOK, Inv, NEW r \in Requests, NEW p \in Products, Op(r).kind \in Kinds
  PROVE  Entry(r, p) \in Entries
  <1> DEFINE prices == IF p \in products THEN PricesOf[p] ELSE {}
  <1>1. prices \in SUBSET (0..MaxPrice)
    BY DEF ConstantsOK
  <1> HIDE DEF prices
  <1>2. Quote(Op(r).kind, prices)
          \in {Quote(kind, them) : kind \in Kinds, them \in SUBSET (0..MaxPrice)}
    BY <1>1
  <1>3. [product |-> p, prices |-> Quote(Op(r).kind, prices)] \in Entries
    BY <1>2 DEF Entries
  <1> QED BY <1>3 DEF Entry, prices

LEMMA ReadVariantsTo ==
  ASSUME ConstantsOK, Inv, NEW r \in Requests, ReadVariants(r)
  PROVE  \E x \in Requested :
           /\ Set(r, x) /\ Kept(x, req[r]) /\ x.collection = req[r].collection
           /\ \/ \E p \in req[r].todo :
                   /\ x.pc = "variants" /\ x.todo = req[r].todo \ {p}
                   /\ x.page = req[r].page \cup {Entry(r, p)}
              \/ req[r].todo = {} /\ x.pc = "shown" /\ x.page = req[r].page
  <1>1. /\ req[r] \in Requested /\ req[r].pc = "variants" /\ Op(r).kind \in Kinds
        /\ req[r].page \in SUBSET Entries /\ req[r].todo \in SUBSET Products
    BY RequestParts DEF ReadVariants, Is, Requested, Kinds, Pages, Storefront
  <1>2. ASSUME NEW p \in req[r].todo,
               Set(r, [req[r] EXCEPT !.todo = @ \ {p}, !.page = @ \cup {Entry(r, p)}])
        PROVE  \E x \in Requested :
                 /\ Set(r, x) /\ Kept(x, req[r]) /\ x.collection = req[r].collection
                 /\ x.pc = "variants" /\ x.todo = req[r].todo \ {p}
                 /\ x.page = req[r].page \cup {Entry(r, p)}
    <2> DEFINE todo == req[r].todo \ {p}
               page == req[r].page \cup {Entry(r, p)}
               x == [req[r] EXCEPT !.todo = todo, !.page = page]
    <2>1. Set(r, x)
      BY <1>1, <1>2 DEF Requested
    <2>2. todo \in SUBSET Products /\ page \in SUBSET Entries
      BY <1>1, EntryType
    <2> HIDE DEF todo, page
    <2>3. /\ x \in Requested /\ Kept(x, req[r]) /\ x.collection = req[r].collection
          /\ x.pc = "variants" /\ x.todo = todo /\ x.page = page
      BY <1>1, <2>2 DEF Requested, Kept
    <2> HIDE DEF x
    <2> QED BY <2>1, <2>3 DEF todo, page
  <1>3. ASSUME Shown(r, req[r].page), req[r].todo = {}
        PROVE  \E x \in Requested :
                 /\ Set(r, x) /\ Kept(x, req[r]) /\ x.collection = req[r].collection
                 /\ x.pc = "shown" /\ x.page = req[r].page
    <2> DEFINE x == [req[r] EXCEPT !.pc = "shown", !.page = req[r].page]
    <2>1. /\ x \in Requested /\ Kept(x, req[r]) /\ x.collection = req[r].collection
          /\ x.pc = "shown" /\ x.page = req[r].page
      BY <1>1 DEF Requested, Kept
    <2>2. Set(r, x)
      BY <1>3 DEF Shown
    <2> HIDE DEF x
    <2> QED BY <2>1, <2>2
  <1>4. \/ \E p \in req[r].todo :
             Set(r, [req[r] EXCEPT !.todo = @ \ {p}, !.page = @ \cup {Entry(r, p)}])
        \/ req[r].todo = {} /\ Shown(r, req[r].page)
    BY DEF ReadVariants, Entry
  <1>5. CASE \E p \in req[r].todo :
               Set(r, [req[r] EXCEPT !.todo = @ \ {p}, !.page = @ \cup {Entry(r, p)}])
    <2>1. PICK p \in req[r].todo :
            Set(r, [req[r] EXCEPT !.todo = @ \ {p}, !.page = @ \cup {Entry(r, p)}])
      BY <1>5
    <2>2. PICK x \in Requested :
            /\ Set(r, x) /\ Kept(x, req[r]) /\ x.collection = req[r].collection
            /\ x.pc = "variants" /\ x.todo = req[r].todo \ {p}
            /\ x.page = req[r].page \cup {Entry(r, p)}
      BY <1>2, <2>1
    <2> QED BY <2>1, <2>2
  <1>6. CASE req[r].todo = {} /\ Shown(r, req[r].page)
    BY <1>3, <1>6
  <1> QED BY <1>4, <1>5, <1>6

LEMMA ShownTo ==
  ASSUME Inv, NEW r \in Requests, NEW page \in SUBSET Entries, Shown(r, page)
  PROVE  \E x \in Requested :
           /\ Set(r, x) /\ Kept(x, req[r]) /\ x.pc = "shown" /\ x.page = page
           /\ x.collection = req[r].collection /\ x.plan = req[r].plan
           /\ x.count = req[r].count
  <1> DEFINE x == [req[r] EXCEPT !.pc = "shown", !.page = page]
  <1>1. req[r] \in Requested
    BY RequestParts
  <1>2. /\ x \in Requested /\ Kept(x, req[r]) /\ x.pc = "shown" /\ x.page = page
        /\ x.collection = req[r].collection /\ x.plan = req[r].plan
        /\ x.count = req[r].count
    BY <1>1 DEF Requested, Kept
  <1>3. Set(r, x)
    BY DEF Shown
  <1> HIDE DEF x
  <1> QED BY <1>2, <1>3

LEMMA FindCollectionTo ==
  ASSUME Inv, NEW r \in Requests, FindCollection(r)
  PROVE  \E x \in Requested :
           /\ Set(r, x) /\ Kept(x, req[r])
           /\ \/ /\ collections \cap Named(r) = {} /\ x.pc = "shown" /\ x.page = {}
                 /\ x.collection = req[r].collection
              \/ x.collection \in Collections /\ x.pc = "query"
  <1>1. CASE collections \cap Named(r) = {} /\ Shown(r, {})
    BY <1>1, ShownTo
  <1>2. ASSUME NEW c \in collections \cap Named(r),
               Set(r, [req[r] EXCEPT !.pc = "query", !.collection = c])
        PROVE  \E x \in Requested : /\ Set(r, x) /\ Kept(x, req[r])
                                    /\ x.collection \in Collections /\ x.pc = "query"
    <2> DEFINE x == [req[r] EXCEPT !.pc = "query", !.collection = c]
    <2>1. req[r] \in Requested /\ c \in Collections
      BY RequestParts DEF Inv, TypeOK
    <2>2. /\ x \in Requested /\ Kept(x, req[r]) /\ x.pc = "query"
          /\ x.collection \in Collections
      BY <2>1 DEF Requested, Kept
    <2>3. Set(r, x)
      BY <1>2
    <2> HIDE DEF x
    <2> QED BY <2>2, <2>3
  <1> QED BY <1>1, <1>2 DEF FindCollection

(* The Products of a Collection's page, and what is shown of them. *)
Those(r) ==
  LET all == {p \in products : Sees(r, p) /\ (Op(r).kind = "members" \/ Published(p))} IN
  IF RuleOf(req[r].collection).type = "manual"
  THEN {p \in all : <<req[r].collection, p>> \in members}
  ELSE {p \in all : Selected(RuleOf(req[r].collection), p)}
PageOf(r) == {[product |-> p, prices |-> Quote(Op(r).kind, PricesOf[p])] : p \in Those(r)}

LEMMA QueryMembersTo ==
  ASSUME ConstantsOK, Inv, NEW r \in Requests, QueryMembers(r)
  PROVE  \E x \in Requested :
           /\ Set(r, x) /\ Kept(x, req[r]) /\ x.collection = req[r].collection
           /\ x.pc = "shown" /\ x.page = PageOf(r)
  <1>1. Shown(r, PageOf(r)) /\ Op(r).kind \in Kinds
    BY DEF QueryMembers, PageOf, Those, Is, Kinds, Pages, Storefront
  <1>2. Those(r) \subseteq Products
    BY DEF Those, Inv, TypeOK
  <1>3. \A p \in Products : [product |-> p, prices |-> Quote(Op(r).kind, PricesOf[p])] \in Entries
    BY <1>1 DEF Entries, ConstantsOK
  <1>4. PageOf(r) \in SUBSET Entries
    BY <1>2, <1>3 DEF PageOf
  <1> QED BY <1>1, <1>4, ShownTo

LEMMA ReadTierTo ==
  ASSUME Inv, NEW r \in Requests, ReadTier(r), Op(r).store \in Stores
  PROVE  \E x \in Requested :
           /\ Set(r, x) /\ Kept(x, req[r]) /\ x.pc = "start" /\ x.count = req[r].count
           /\ x.plan = tier[Op(r).store] /\ x.collection = req[r].collection
  <1> DEFINE x == [req[r] EXCEPT !.plan = tier[Op(r).store]]
  <1>1. req[r] \in Requested /\ tier[Op(r).store] \in Tiers /\ req[r].pc = "start"
    BY RequestParts DEF Inv, TypeOK, ReadTier, Is
  <1>2. /\ x \in Requested /\ Kept(x, req[r]) /\ x.pc = "start" /\ x.count = req[r].count
        /\ x.plan = tier[Op(r).store] /\ x.collection = req[r].collection
    BY <1>1 DEF Requested, Kept
  <1>3. Set(r, x)
    BY DEF ReadTier
  <1> HIDE DEF x
  <1> QED BY <1>2, <1>3

Mine(r) == {p \in products : Sees(r, p)}

LEMMA ReadUsageTo ==
  ASSUME ConstantsOK, Inv, NEW r \in Requests, ReadUsage(r)
  PROVE  \E x \in Requested :
           /\ Set(r, x) /\ Kept(x, req[r]) /\ x.pc = "start" /\ x.plan = req[r].plan
           /\ x.count = Cardinality(Mine(r)) /\ x.collection = req[r].collection
  <1> DEFINE n == Cardinality(Mine(r))
             x == [req[r] EXCEPT !.count = n]
  <1>1. n \in Nat
    <2>1. Mine(r) \subseteq Products
      BY DEF Mine, Inv, TypeOK
    <2> QED BY <2>1, FS_Subset, FS_CardinalityType DEF ConstantsOK
  <1>2. Set(r, x) /\ req[r] \in Requested /\ req[r].pc = "start"
    BY RequestParts DEF ReadUsage, Mine, Is
  <1> HIDE DEF n
  <1>3. /\ x \in Requested /\ Kept(x, req[r]) /\ x.pc = "start" /\ x.plan = req[r].plan
        /\ x.count = n /\ x.collection = req[r].collection
    BY <1>1, <1>2 DEF Requested, Kept
  <1> HIDE DEF x
  <1> QED BY <1>2, <1>3 DEF n

(* Reading changes no table and writes nothing. *)
LEMMA ReadInv ==
  ASSUME ConstantsOK, Inv, NEW r \in Requests, Read(r)
  PROVE  Inv'
  <1>1. UNCHANGED tables /\ Formed(r)
    BY RequestParts DEF Read, ReadProducts, ReadVariants, FindCollection, QueryMembers,
       ReadTier, ReadUsage, ShowBilling, Leave
  <1>2. CASE Leave(r)
    BY <1>1, <1>2, EndInv DEF Leave
  <1>3. CASE ~Leave(r)
    <2>1. OpOK(Op(r)) /\ Op(r).store \in Stores
      BY <1>1, <1>3 DEF Read, ReadProducts, ReadVariants, FindCollection, QueryMembers,
         ReadTier, ReadUsage, ShowBilling, Is, Formed, OpOK
    <2>2. ASSUME NEW x \in Requested, Set(r, x), Kept(x, req[r]),
                 x.pc \in {"start", "variants", "query", "shown"}
          PROVE  Inv'
      BY <1>1, <2>1, <2>2, QuietInv DEF Kept, Op
    <2>3. CASE ReadProducts(r)
      BY <2>2, <2>3, ReadProductsTo
    <2>4. CASE ReadVariants(r)
      BY <2>2, <2>4, ReadVariantsTo
    <2>5. CASE FindCollection(r)
      BY <2>2, <2>5, FindCollectionTo
    <2>6. CASE QueryMembers(r)
      BY <2>2, <2>6, QueryMembersTo
    <2>7. CASE ReadTier(r)
      BY <2>1, <2>2, <2>7, ReadTierTo
    <2>8. CASE ReadUsage(r)
      BY <2>2, <2>8, ReadUsageTo
    <2>9. CASE ShowBilling(r)
      BY <2>2, <2>9, ShownTo DEF ShowBilling
    <2> QED BY <1>3, <2>3, <2>4, <2>5, <2>6, <2>7, <2>8, <2>9 DEF Read
  <1> QED BY <1>2, <1>3

-----------------------------------------------------------------------------
(* Writing. *)

(* What a writing request asks for. *)
LEMMA WriteOps ==
  ASSUME Inv, NEW r \in Requests, req[r].pc # "idle"
  PROVE  OpOK(Op(r)) /\ Op(r) \in AllOps
  BY RequestParts DEF Formed, Requested, Op

(* A commit: r is done, and what it changed leaves the others' rows right. *)
LEMMA CommitInv ==
  ASSUME Inv, NEW r \in Requests, End(r), MembersOfOneStore',
         products' \subseteq Products, gone' \subseteq Products,
         collections' \subseteq Collections, collections \subseteq collections',
         members' \subseteq Collections \X Products, tier' \in [Stores -> Tiers],
         \A q \in Requests \ {r} : \A row \in req[q].rows : row[2] \in products'
  PROVE  Inv'
  <1>1. TypeOK'
    BY IdleType DEF Inv, TypeOK, End, Set
  <1>2. \A q \in Requests \ {r} : \A row \in req[q].rows : Linkable(row)'
    BY DEF Inv, Formed, Linkable
  <1> QED BY <1>1, <1>2, IdleType, MovesInv DEF End

LEMMA RowsLink ==
  ASSUME Inv, NEW q \in Requests, NEW row \in req[q].rows
  PROVE  Linkable(row) /\ row \in Collections \X Products /\ Op(q).kind = "add"
  BY RequestParts DEF Formed, Requested

LEMMA CreateProductInv ==
  ASSUME Inv, NEW r \in Requests, CreateProduct(r)
  PROVE  Inv'
  <1>1. Op(r).product \in Products /\ End(r)
    BY WriteOps DEF CreateProduct, Is, OpOK
  <1>2. /\ products \subseteq products' /\ products' \subseteq Products
        /\ UNCHANGED <<gone, collections, members, tier>>
    BY <1>1 DEF CreateProduct, Inv, TypeOK
  <1>3. MembersOfOneStore'
    BY <1>2 DEF Inv, MembersOfOneStore
  <1> QED BY <1>1, <1>2, <1>3, RowsLink, CommitInv DEF Inv, TypeOK, Linkable

LEMMA DeleteProductInv ==
  ASSUME Inv, NEW r \in Requests, DeleteProduct(r)
  PROVE  Inv'
  <1> DEFINE p == Op(r).product
             x == [req[r] EXCEPT !.pc = "deleting"]
  <1>1. UNCHANGED tables /\ ~Referenced(p) /\ req[r].pc = "start" /\ Op(r).kind = "delete"
    BY DEF DeleteProduct, Is
  <1>2. CASE End(r)
    BY <1>1, <1>2, EndInv
  <1>3. CASE Goto(r, "deleting")
    <2>1. req[r] \in Requested /\ Formed(r)
      BY RequestParts
    <2>2. x \in Requested /\ x.op = Op(r) /\ x.rows = req[r].rows /\ x.pc = "deleting"
      BY <2>1 DEF Requested, Op
    <2>3. Set(r, x)
      BY <1>3 DEF Goto
    <2> HIDE DEF x
    <2>4. req[r].rows = {} /\ OpOK(Op(r))
      BY <1>1, <2>1 DEF Formed
    <2>5. TypeOK' /\ MembersOfOneStore'
      BY <1>1, <2>2, <2>3 DEF Inv, TypeOK, tables, Set, MembersOfOneStore
    <2>6. \A q \in Requests : \A row \in req[q].rows : Linkable(row)' /\ row[2] # p
      BY <1>1, RowsLink DEF tables, Linkable, Referenced
    <2> QED BY <1>1, <2>2, <2>3, <2>4, <2>5, <2>6, MovesInv DEF tables
  <1> QED BY <1>2, <1>3 DEF DeleteProduct

(* No request has written a row of the Product that goes. *)
LEMMA CommitDeleteInv ==
  ASSUME Inv, NEW r \in Requests, CommitDelete(r)
  PROVE  Inv'
  <1> DEFINE p == Op(r).product
  <1>1. ~Referenced(p) /\ p \in Products /\ End(r)
    BY RequestParts, WriteOps DEF CommitDelete, Is, Formed, OpOK
  <1>2. /\ products' = products \ {p} /\ gone' = gone \cup {p}
        /\ members' = {row \in members : row[2] # p} /\ UNCHANGED <<collections, tier>>
    BY DEF CommitDelete
  <1>3. MembersOfOneStore'
    BY <1>2 DEF Inv, MembersOfOneStore
  <1>4. \A q \in Requests : \A row \in req[q].rows : row[2] \in products'
    BY <1>1, <1>2, RowsLink DEF Referenced, Linkable
  <1>5. /\ products' \subseteq Products /\ gone' \subseteq Products
        /\ members' \subseteq Collections \X Products
    BY <1>1, <1>2 DEF Inv, TypeOK
  <1>6. collections' \subseteq Collections /\ collections \subseteq collections'
        /\ tier' \in [Stores -> Tiers]
    BY <1>2 DEF Inv, TypeOK
  <1> HIDE DEF p
  <1> QED BY <1>1, <1>3, <1>4, <1>5, <1>6, CommitInv

(* The tables that a commit of r changes but products. *)
LEMMA NoProductGoes ==
  ASSUME Inv, NEW r \in Requests, End(r), UNCHANGED <<products, gone>>, MembersOfOneStore',
         collections' \subseteq Collections, collections \subseteq collections',
         members' \subseteq Collections \X Products, tier' \in [Stores -> Tiers]
  PROVE  Inv'
  BY RowsLink, CommitInv DEF Inv, TypeOK, Linkable

LEMMA CreateCollectionInv ==
  ASSUME Inv, NEW r \in Requests, CreateCollection(r)
  PROVE  Inv'
  <1>1. Op(r).collection \in Collections
    BY WriteOps DEF CreateCollection, Is, OpOK
  <1>2. MembersOfOneStore'
    BY DEF CreateCollection, Inv, MembersOfOneStore
  <1> QED BY <1>1, <1>2, NoProductGoes DEF CreateCollection, Inv, TypeOK

LEMMA CommitMembersInv ==
  ASSUME Inv, NEW r \in Requests, CommitMembers(r)
  PROVE  Inv'
  <1>1. /\ members' = members \cup req[r].rows /\ End(r)
        /\ UNCHANGED <<products, gone, collections, tier>>
    BY DEF CommitMembers
  <1>2. MembersOfOneStore' /\ members' \subseteq Collections \X Products
    BY <1>1, RowsLink DEF Inv, TypeOK, MembersOfOneStore, Linkable
  <1> QED BY <1>1, <1>2, NoProductGoes DEF Inv, TypeOK

LEMMA RemoveMemberInv ==
  ASSUME Inv, NEW r \in Requests, RemoveMember(r)
  PROVE  Inv'
  <1>1. /\ members' \subseteq members /\ End(r)
        /\ UNCHANGED <<products, gone, collections, tier>>
    BY DEF RemoveMember
  <1>2. MembersOfOneStore'
    BY <1>1 DEF Inv, MembersOfOneStore
  <1> QED BY <1>1, <1>2, NoProductGoes DEF Inv, TypeOK

LEMMA SetTierInv ==
  ASSUME Inv, NEW r \in Requests, SetTier(r)
  PROVE  Inv'
  <1>1. /\ tier' = [tier EXCEPT ![Op(r).store] = Op(r).tier] /\ End(r)
        /\ UNCHANGED <<products, gone, collections, members>>
    BY DEF SetTier
  <1>2. Op(r).tier \in Tiers
    BY WriteOps DEF SetTier, Is, OpOK
  <1>3. MembersOfOneStore' /\ tier' \in [Stores -> Tiers]
    BY <1>1, <1>2 DEF Inv, TypeOK, MembersOfOneStore
  <1> QED BY <1>1, <1>3, NoProductGoes DEF Inv, TypeOK

(* A membership is written of a Product that is there and that nobody
   deletes. *)
LEMMA InsertInv ==
  ASSUME Inv, NEW r \in Requests, NEW p \in Products, req[r].pc # "idle",
         Op(r).kind = "add", Op(r).collection \in collections,
         p \in products, ~Deleting(p), Sees(r, Op(r).collection), Sees(r, p),
         Insert(r, p), UNCHANGED tables
  PROVE  Inv'
  <1> DEFINE row == <<Op(r).collection, p>>
             todo == req[r].todo \ {p}
             rows == req[r].rows \cup {row}
             x == [req[r] EXCEPT !.pc = "start", !.todo = todo, !.wait = None, !.rows = rows]
  <1>1. req[r] \in Requested /\ Formed(r) /\ OpOK(Op(r)) /\ Op(r).collection \in Collections
    BY RequestParts, WriteOps DEF OpOK
  <1>2. row \in Collections \X Products /\ Linkable(row) /\ row[2] = p
    BY <1>1 DEF Linkable, Sees
  <1> HIDE DEF row
  <1>3. todo \in SUBSET Products /\ rows \in SUBSET (Collections \X Products)
    BY <1>1, <1>2 DEF Requested
  <1>4. Set(r, x)
    BY <1>1 DEF Insert, row
  <1>5. \A y \in rows : Linkable(y)'
    BY <1>1, <1>2 DEF Formed, Linkable, tables
  <1>6. ASSUME NEW q \in Requests, req[q].pc = "deleting"
        PROVE  \A y \in rows : y[2] # Op(q).product
    <2>1. Op(q).kind = "delete" /\ ~Referenced(Op(q).product)
      BY <1>6, RequestParts DEF Formed
    <2>2. Op(q).product # p
      BY <1>6, <2>1 DEF Deleting, Is
    <2> QED BY <1>2, <2>1, <2>2 DEF Referenced
  <1> HIDE DEF todo, rows
  <1>7. x \in Requested /\ x.pc = "start" /\ x.op = Op(r) /\ x.rows = rows
    BY <1>1, <1>3 DEF Requested, Op
  <1> HIDE DEF x
  <1>8. TypeOK' /\ MembersOfOneStore'
    BY <1>4, <1>7 DEF Inv, TypeOK, tables, Set, MembersOfOneStore
  <1>9. \A q \in Requests : \A y \in req[q].rows : Linkable(y)'
    BY RowsLink DEF Linkable, tables
  <1> QED BY <1>1, <1>4, <1>5, <1>6, <1>7, <1>8, <1>9, MovesInv DEF tables

LEMMA AddMemberInv ==
  ASSUME Inv, NEW r \in Requests, AddMember(r)
  PROVE  Inv'
  <1> DEFINE c == Op(r).collection
  <1>1. /\ req[r] \in Requested /\ Formed(r) /\ req[r].pc = "start" /\ Op(r).kind = "add"
        /\ OpOK(Op(r)) /\ UNCHANGED tables
    BY RequestParts DEF AddMember, Is, Formed
  <1>2. PICK p \in req[r].todo :
          \/ Skip(r, p)
          \/ Linked(r, c, p) /\ ~Deleting(p) /\ Insert(r, p)
          \/ Linked(r, c, p) /\ Wait(r, p)
    BY DEF AddMember
  <1>3. p \in Products
    BY <1>1, <1>2 DEF Requested
  <1>4. CASE Skip(r, p)
    <2> DEFINE todo == req[r].todo \ {p}
               x == [req[r] EXCEPT !.todo = todo]
    <2>1. todo \in SUBSET Products /\ Set(r, x)
      BY <1>1, <1>4 DEF Skip, Requested
    <2> HIDE DEF todo
    <2>2. x \in Requested /\ x.pc = "start" /\ x.op = Op(r) /\ x.rows = req[r].rows
      BY <1>1, <2>1 DEF Requested, Op
    <2> HIDE DEF x
    <2> QED BY <1>1, <2>1, <2>2, QuietInv
  <1>5. CASE Linked(r, c, p) /\ ~Deleting(p) /\ Insert(r, p)
    BY <1>1, <1>3, <1>5, InsertInv DEF Linked
  <1>6. CASE Linked(r, c, p) /\ Wait(r, p)
    <2> DEFINE x == [req[r] EXCEPT !.pc = "waiting", !.wait = p]
    <2>1. Set(r, x)
      BY <1>6 DEF Wait
    <2>2. /\ x \in Requested /\ x.pc = "waiting" /\ x.op = Op(r) /\ x.rows = req[r].rows
          /\ x.wait = p
      BY <1>1, <1>3 DEF Requested, Op
    <2> HIDE DEF x
    <2>3. TypeOK' /\ MembersOfOneStore'
      BY <1>1, <2>1, <2>2 DEF Inv, TypeOK, tables, Set, MembersOfOneStore
    <2>4. \A q \in Requests : \A y \in req[q].rows : Linkable(y)'
      BY <1>1, RowsLink DEF Linkable, tables
    <2>5. \A q \in Requests \ {r} : \A y \in x.rows :
            req[q].pc = "deleting" => y[2] # Op(q).product
      BY <2>2, RequestParts DEF Formed, Referenced
    <2>6. c \in collections' /\ StoreOf[c] = Op(r).store /\ StoreOf[p] = Op(r).store
      BY <1>1, <1>6 DEF Linked, Sees, tables
    <2> QED BY <1>1, <1>3, <2>1, <2>2, <2>3, <2>4, <2>5, <2>6, MovesInv DEF tables
  <1> QED BY <1>2, <1>4, <1>5, <1>6

LEMMA AwaitDeleteInv ==
  ASSUME Inv, NEW r \in Requests, AwaitDelete(r)
  PROVE  Inv'
  <1> DEFINE p == req[r].wait
  <1>1. /\ req[r].pc = "waiting" /\ Formed(r) /\ ~Deleting(p) /\ UNCHANGED tables
        /\ IF p \in products THEN Insert(r, p) ELSE End(r)
    BY RequestParts DEF AwaitDelete, Is
  <1>2. CASE p \in products
    BY <1>1, <1>2, InsertInv DEF Formed
  <1>3. CASE p \notin products
    BY <1>1, <1>3, EndInv
  <1> QED BY <1>2, <1>3

-----------------------------------------------------------------------------
LEMMA StepInv == ConstantsOK /\ Inv /\ [Next]_vars => Inv'
  <1> SUFFICES ASSUME ConstantsOK, Inv, [Next]_vars PROVE Inv'
    OBVIOUS
  <1>1. ASSUME NEW r \in Requests,
               (\E op \in Ops[r] : Begin(r, op)) \/ Write(r) \/ Read(r) \/ Fail(r)
        PROVE  Inv'
    BY <1>1, BeginInv, ReadInv, EndInv, CreateProductInv, DeleteProductInv, CommitDeleteInv,
       CreateCollectionInv, AddMemberInv, AwaitDeleteInv, CommitMembersInv, RemoveMemberInv,
       SetTierInv DEF Write, Fail
  <1>2. CASE UNCHANGED vars
    <2>1. UNCHANGED <<products, gone, collections, members, tier, req>>
      BY <1>2 DEF vars, tables
    <2> QED BY <2>1 DEF Inv, TypeOK, MembersOfOneStore, Formed, Op, Sees, Referenced, Linkable
  <1> QED BY <1>1, <1>2 DEF Next

(* Whatever ids a request names, and whatever is created and deleted meanwhile,
   a membership links a Collection and a Product that exist and are of one
   Store (addCollectionMembers), from any catalog without memberships. *)
THEOREM CatalogMembersOfOneStore ==
  ASSUME NEW there \in SUBSET Products, NEW named \in SUBSET Collections
  PROVE  InitWith(there, named) /\ [][Next]_vars => []MembersOfOneStore
  <1>1. InitWith(there, named) => Inv
    BY InitInv
  <1>2. Inv /\ [Next]_vars => Inv'
    BY StepInv, CatalogAssumption
  <1>3. Inv => MembersOfOneStore
    BY DEF Inv
  <1> QED BY <1>1, <1>2, <1>3, PTL

-----------------------------------------------------------------------------
(* Pages.  Between its first statement and its last, what a page has read so
   far lies between what was there all the time (always) and what ever was
   (ever), and so do the tables. *)

(* About and what else the property says, of a request in the state x. *)
AboutIn(x, facts) ==
  {p \in facts \cap Products :
     /\ StoreOf[p] = x.op.store
     /\ x.op.kind \in Storefront => Published(p)
     /\ x.op.kind = "product" => SlugOf[p] = x.op.slug
     /\ x.op.kind \in {"collection", "members"} =>
          x.collection # None /\ Belongs(x.collection, p, facts)}

NamedIn(x) ==
  {c \in Collections :
     /\ StoreOf[c] = x.op.store
     /\ IF x.op.kind = "members" THEN c = x.op.collection ELSE SlugOf[c] = x.op.slug}

Between(x, todo, all, some) ==
  LET seen == todo \cup {e.product : e \in x.page} IN
  /\ AboutIn(x, all) \subseteq seen /\ seen \subseteq AboutIn(x, some)
  /\ \A e \in x.page :
       e.product \in all => e.prices = Quote(x.op.kind, PricesOf[e.product])

BillingSoFar(x, all, some) ==
  /\ x.plan # None => <<x.op.store, x.plan>> \in some
  /\ x.count # None => /\ Cardinality(AboutIn(x, all)) <= x.count
                       /\ x.count <= Cardinality(AboutIn(x, some))

Loops == {"listing", "product", "products"}
Finds == {"collection", "members"}

(* What a page under way, or shown, has to do with all and some. *)
Good(x, all, some) ==
  /\ x.op.kind \in Loops =>
       /\ x.pc = "start" => x.page = {}
       /\ x.pc = "variants" => Between(x, x.todo, all, some)
  /\ x.op.kind \in Loops \cup Finds => (x.pc = "shown" => Between(x, {}, all, some))
  /\ x.op.kind \in Finds =>
       /\ x.pc = "start" => x.collection = None
       /\ x.pc = "query" => x.collection \in Collections
       /\ x.pc = "shown" => (x.collection = None => all \cap NamedIn(x) = {})
  /\ x.op.kind = "billing" =>
       /\ x.pc # "idle" => BillingSoFar(x, all, some)
       /\ x.pc = "shown" => None \notin {x.plan, x.count}

Reading(x) == x.pc \notin {"idle", "shown"} /\ x.op.kind \in Pages

PagesInv ==
  \A r \in Requests :
    /\ Reading(req[r]) => always[r] \subseteq Facts /\ Facts \subseteq ever[r]
    /\ Good(req[r], always[r], ever[r])

(* A set of numbers has a least one. *)
LEMMA LeastNumber ==
  ASSUME NEW S, S \subseteq Nat, S # {}
  PROVE  \E n \in S : \A m \in S : n <= m
  <1>1. PICK n \in S : \A m \in S : ~(<<m, n>> \in OpToRel(<, Nat))
    BY WFMin, NatLessThanWellFounded
  <1>2. \A m \in S : ~(m < n)
    BY <1>1 DEF OpToRel
  <1> QED BY <1>2

(* The WHERE clause of an automated Collection's page selects what the rule
   matches: the bounds it puts for none are below and above every price. *)
LEMMA QueryIsRule ==
  ASSUME ConstantsOK, NEW p \in Products, NEW rule
  PROVE  Selected(rule, p) <=> MatchesRule(AsAsked(rule), p)
  <1>1. PricesOf[p] # {} /\ PricesOf[p] \subseteq 0..MaxPrice /\ MaxPrice \in Nat
    BY DEF ConstantsOK
  <1>2. \E n \in PricesOf[p] : \A m \in PricesOf[p] : n <= m
    BY <1>1, LeastNumber
  <1>3. Min(PricesOf[p]) \in PricesOf[p]
    BY <1>2 DEF Min
  <1>4. Min(PricesOf[p]) \in Nat /\ Min(PricesOf[p]) <= MaxPrice
    BY <1>1, <1>3
  <1>5. (Lower(rule.min) <= Min(PricesOf[p])) <=>
        (rule.min \notin {None, Null} => Min(PricesOf[p]) >= rule.min)
    BY <1>4 DEF Lower
  <1>6. (Min(PricesOf[p]) <= Upper(rule.max)) <=>
        (rule.max \notin {None, Null} => Min(PricesOf[p]) <= rule.max)
    BY <1>4 DEF Upper
  <1>7. CASE rule.type = "price"
    <2>1. MatchesRule(AsAsked(rule), p) <=>
            /\ rule.min \notin {None, Null} => Min(PricesOf[p]) >= rule.min
            /\ rule.max \notin {None, Null} => Min(PricesOf[p]) <= rule.max
      BY <1>7 DEF MatchesRule, AsAsked, Compared
    <2> QED BY <1>5, <1>6, <1>7, <2>1 DEF Selected
  <1>8. CASE rule.type # "price"
    BY <1>8 DEF Selected, MatchesRule, AsAsked
  <1> QED BY <1>7, <1>8

(* The more facts, the more a page is about. *)
LEMMA AboutGrows ==
  ASSUME ConstantsOK, NEW x, NEW few, NEW many, few \subseteq many
  PROVE  /\ AboutIn(x, few) \subseteq AboutIn(x, many)
         /\ Cardinality(AboutIn(x, few)) \in Nat /\ Cardinality(AboutIn(x, many)) \in Nat
         /\ Cardinality(AboutIn(x, few)) <= Cardinality(AboutIn(x, many))
  <1>1. AboutIn(x, few) \subseteq AboutIn(x, many)
    BY DEF AboutIn, Belongs
  <1>2. IsFiniteSet(AboutIn(x, many))
    <2>1. AboutIn(x, many) \subseteq Products
      BY DEF AboutIn
    <2> QED BY <2>1, FS_Subset DEF ConstantsOK
  <1> QED BY <1>1, <1>2, FS_Subset, FS_CardinalityType

LEMMA BetweenStays ==
  ASSUME ConstantsOK, NEW x, NEW todo, NEW all, NEW some, NEW less, NEW more,
         Between(x, todo, all, some), less \subseteq all, some \subseteq more
  PROVE  Between(x, todo, less, more)
  <1>1. AboutIn(x, less) \subseteq AboutIn(x, all) /\ AboutIn(x, some) \subseteq AboutIn(x, more)
    BY AboutGrows
  <1> QED BY <1>1 DEF Between

(* What is good stays good while always shrinks and ever grows. *)
LEMMA GoodStays ==
  ASSUME ConstantsOK, NEW x \in Requested, NEW all, NEW some, NEW less, NEW more,
         Good(x, all, some), less \subseteq all, some \subseteq more
  PROVE  Good(x, less, more)
  <1>1. \A todo : Between(x, todo, all, some) => Between(x, todo, less, more)
    BY BetweenStays
  <1>2. BillingSoFar(x, all, some) => BillingSoFar(x, less, more)
    <2>1. /\ Cardinality(AboutIn(x, less)) <= Cardinality(AboutIn(x, all))
          /\ Cardinality(AboutIn(x, some)) <= Cardinality(AboutIn(x, more))
          /\ Cardinality(AboutIn(x, less)) \in Nat /\ Cardinality(AboutIn(x, all)) \in Nat
          /\ Cardinality(AboutIn(x, some)) \in Nat /\ Cardinality(AboutIn(x, more)) \in Nat
      BY AboutGrows
    <2>2. x.count # None => x.count \in Nat
      BY DEF Requested
    <2> QED BY <2>1, <2>2 DEF BillingSoFar
  <1> QED BY <1>1, <1>2 DEF Good

LEMMA OtherKinds ==
  ASSUME NEW x, NEW all, NEW some, x.op.kind \notin Pages
  PROVE  Good(x, all, some) /\ ~Reading(x)
  BY DEF Good, Reading, Loops, Finds, Pages, Storefront

LEMMA IdleIsGood ==
  ASSUME NEW x, NEW all, NEW some, x.pc = "idle"
  PROVE  Good(x, all, some) /\ ~Reading(x)
  BY DEF Good, Reading

(* The facts tell which Products, Collections and memberships there are. *)
LEMMA FactsAre ==
  ASSUME ConstantsOK, Inv
  PROVE  /\ Facts \cap Products = products
         /\ Facts \cap Collections = collections
         /\ \A c \in Collections, p \in Products : <<c, p>> \in Facts <=> <<c, p>> \in members
         /\ \A s \in Stores : <<s, tier[s]>> \in Facts
  <1> DEFINE tiers == {<<s, tier[s]>> : s \in Stores}
  <1>1. /\ products \subseteq Products /\ collections \subseteq Collections
        /\ members \subseteq Collections \X Products /\ tiers \subseteq Stores \X Tiers
    BY DEF Inv, TypeOK
  <1>2. Facts = products \cup collections \cup members \cup tiers
    BY DEF Facts
  <1>3. \A s \in Stores : <<s, tier[s]>> \in tiers
    OBVIOUS
  <1> HIDE DEF tiers
  <1>4. Facts \cap Products = products /\ Facts \cap Collections = collections
    BY <1>1, <1>2 DEF ConstantsOK, FactsApart
  <1>5. ASSUME NEW c \in Collections, NEW p \in Products
        PROVE  <<c, p>> \in Facts <=> <<c, p>> \in members
    <2>1. <<c, p>> \in Collections \X Products
      OBVIOUS
    <2> DEFINE pair == <<c, p>>
    <2> HIDE DEF pair
    <2>2. pair \in Collections \X Products
      BY <2>1 DEF pair
    <2>3. pair \notin products /\ pair \notin collections /\ pair \notin tiers
      BY <1>1, <2>2 DEF ConstantsOK, FactsApart
    <2> QED BY <1>2, <2>3 DEF pair
  <1> QED BY <1>2, <1>3, <1>4, <1>5

(* What a query returns is what the page is about when it is asked. *)
LEMMA ListedIsAbout ==
  ASSUME ConstantsOK, Inv, NEW r \in Requests, Op(r).kind \in Loops
  PROVE  Listed(r) = AboutIn(req[r], Facts)
  <1>1. Facts \cap Products = products
    BY FactsAre
  <1> QED BY <1>1 DEF Listed, AboutIn, Op, Sees, Loops, Storefront

LEMMA MineIsAbout ==
  ASSUME ConstantsOK, Inv, NEW r \in Requests, Op(r).kind = "billing"
  PROVE  Mine(r) = AboutIn(req[r], Facts)
  <1>1. Facts \cap Products = products
    BY FactsAre
  <1> QED BY <1>1 DEF Mine, AboutIn, Op, Sees, Storefront

LEMMA ThoseAreAbout ==
  ASSUME ConstantsOK, Inv, NEW r \in Requests, Op(r).kind \in Finds,
         req[r].collection \in Collections
  PROVE  Those(r) = AboutIn(req[r], Facts)
  <1> DEFINE c == req[r].collection
  <1>1. Facts \cap Products = products /\ products \subseteq Products
    BY FactsAre DEF Inv, TypeOK
  <1>2. c # None
    BY DEF ConstantsOK
  <1>3. \A p \in products : Belongs(c, p, Facts) <=>
          IF RuleOf(c).type = "manual" THEN <<c, p>> \in members ELSE Selected(RuleOf(c), p)
    BY <1>1, FactsAre, QueryIsRule DEF Belongs
  <1>4. \A p \in products : (Op(r).kind = "members" \/ Published(p)) <=>
                            (Op(r).kind \in Storefront => Published(p))
    BY DEF Finds, Storefront
  <1>5. \A p : p \in Those(r) <=>
          /\ p \in products /\ Sees(r, p)
          /\ Op(r).kind = "members" \/ Published(p)
          /\ Belongs(c, p, Facts)
    BY <1>3 DEF Those
  <1>6. Op(r).kind # "product"
    BY DEF Finds
  <1>7. \A p : p \in AboutIn(req[r], Facts) <=>
          /\ p \in products /\ Sees(r, p)
          /\ Op(r).kind \in Storefront => Published(p)
          /\ Belongs(c, p, Facts)
    <2> TAKE p
    <2>1. p \in AboutIn(req[r], Facts) <=>
            /\ p \in products /\ Sees(r, p)
            /\ Op(r).kind \in Storefront => Published(p)
            /\ Op(r).kind = "product" => SlugOf[p] = Op(r).slug
            /\ Op(r).kind \in Finds => c # None /\ Belongs(c, p, Facts)
      BY <1>1 DEF AboutIn, Op, Sees, Finds
    <2> QED BY <1>2, <1>6, <2>1
  <1>8. \A p : p \in Those(r) <=> p \in AboutIn(req[r], Facts)
    BY <1>1, <1>4, <1>5, <1>7
  <1> QED BY <1>8

(* r goes on to the state x with the same request and Collection. *)
LEMMA SameAbout ==
  ASSUME NEW x, NEW y, x.op = y.op, x.collection = y.collection, NEW facts
  PROVE  AboutIn(x, facts) = AboutIn(y, facts) /\ NamedIn(x) = NamedIn(y)
  BY DEF AboutIn, NamedIn

(* What is read now lies between what was there always and ever. *)
LEMMA AboutNow ==
  ASSUME ConstantsOK, NEW x, NEW all, NEW some, all \subseteq Facts, Facts \subseteq some
  PROVE  /\ AboutIn(x, all) \subseteq AboutIn(x, Facts)
         /\ AboutIn(x, Facts) \subseteq AboutIn(x, some)
  BY AboutGrows

LEMMA ReadProductsGood ==
  ASSUME ConstantsOK, Inv, NEW r \in Requests, ReadProducts(r), NEW all, NEW some,
         Good(req[r], all, some), all \subseteq Facts, Facts \subseteq some
  PROVE  Good(req'[r], all, some)
  <1>1. PICK x \in Requested :
          /\ Set(r, x) /\ Kept(x, req[r]) /\ x.pc = "variants" /\ x.todo = Listed(r)
          /\ x.page = req[r].page /\ x.collection = req[r].collection
    BY ReadProductsTo
  <1>2. req'[r] = x
    BY <1>1, Moved
  <1>3. req[r].pc = "start" /\ Op(r).kind \in Loops /\ x.op = Op(r) /\ Op(r) = req[r].op
    BY <1>1 DEF ReadProducts, Is, Loops, Kept, Op
  <1>4. x.page = {}
    BY <1>1, <1>3 DEF Good
  <1>5. x.todo = AboutIn(x, Facts)
    BY <1>1, <1>3, ListedIsAbout, SameAbout
  <1>6. Between(x, x.todo, all, some)
    BY <1>4, <1>5, AboutNow DEF Between
  <1>7. x.op.kind \notin Finds /\ x.op.kind # "billing"
    BY <1>3 DEF Loops, Finds
  <1> QED BY <1>1, <1>2, <1>6, <1>7 DEF Good

LEMMA ReadVariantsGood ==
  ASSUME ConstantsOK, Inv, NEW r \in Requests, ReadVariants(r), NEW all, NEW some,
         Good(req[r], all, some), all \subseteq Facts, Facts \subseteq some
  PROVE  Good(req'[r], all, some)
  <1>1. PICK x \in Requested :
          /\ Set(r, x) /\ Kept(x, req[r]) /\ x.collection = req[r].collection
          /\ \/ \E p \in req[r].todo :
                  /\ x.pc = "variants" /\ x.todo = req[r].todo \ {p}
                  /\ x.page = req[r].page \cup {Entry(r, p)}
             \/ req[r].todo = {} /\ x.pc = "shown" /\ x.page = req[r].page
    BY ReadVariantsTo
  <1>2. req'[r] = x
    BY <1>1, Moved
  <1>3. req[r].pc = "variants" /\ Op(r).kind \in Loops /\ x.op = Op(r) /\ Op(r) = req[r].op
    BY <1>1 DEF ReadVariants, Is, Loops, Kept, Op
  <1>4. x.op.kind \notin Finds /\ x.op.kind # "billing"
    BY <1>3 DEF Loops, Finds
  <1>5. Between(req[r], req[r].todo, all, some)
    BY <1>3 DEF Good
  <1>6. \A facts : AboutIn(x, facts) = AboutIn(req[r], facts)
    BY <1>1, <1>3, SameAbout
  <1>7. ASSUME NEW p \in req[r].todo, x.pc = "variants", x.todo = req[r].todo \ {p},
               x.page = req[r].page \cup {Entry(r, p)}
        PROVE  Between(x, x.todo, all, some)
    <2>1. Entry(r, p).product = p
      BY DEF Entry
    <2>2. {e.product : e \in x.page} = {e.product : e \in req[r].page} \cup {p}
      BY <1>7, <2>1
    <2>3. x.todo \cup {e.product : e \in x.page}
            = req[r].todo \cup {e.product : e \in req[r].page}
      BY <1>7, <2>2
    <2>4. p \in Products
      BY <1>7, RequestParts DEF Requested
    <2>5. p \in all => Entry(r, p).prices = Quote(x.op.kind, PricesOf[p])
      BY <1>3, <2>4, FactsAre DEF Entry
    <2> QED BY <1>3, <1>5, <1>6, <1>7, <2>1, <2>3, <2>5 DEF Between
  <1>8. CASE req[r].todo = {} /\ x.pc = "shown" /\ x.page = req[r].page
    <2>1. Between(x, {}, all, some)
      BY <1>3, <1>5, <1>6, <1>8 DEF Between
    <2> QED BY <1>2, <1>4, <1>8, <2>1 DEF Good
  <1>9. CASE \E p \in req[r].todo :
               /\ x.pc = "variants" /\ x.todo = req[r].todo \ {p}
               /\ x.page = req[r].page \cup {Entry(r, p)}
    <2>1. Between(x, x.todo, all, some) /\ x.pc = "variants"
      BY <1>7, <1>9
    <2> QED BY <1>2, <1>4, <2>1 DEF Good
  <1> QED BY <1>1, <1>8, <1>9

(* A Collection that is not found was not there all the time. *)
LEMMA FindCollectionGood ==
  ASSUME ConstantsOK, Inv, NEW r \in Requests, FindCollection(r), NEW all, NEW some,
         Good(req[r], all, some), all \subseteq Facts, Facts \subseteq some
  PROVE  Good(req'[r], all, some)
  <1>1. PICK x \in Requested :
          /\ Set(r, x) /\ Kept(x, req[r])
          /\ \/ /\ collections \cap Named(r) = {} /\ x.pc = "shown" /\ x.page = {}
                /\ x.collection = req[r].collection
             \/ x.collection \in Collections /\ x.pc = "query"
    BY FindCollectionTo
  <1>2. req'[r] = x
    BY <1>1, Moved
  <1>3. req[r].pc = "start" /\ Op(r).kind \in Finds /\ x.op = Op(r) /\ Op(r) = req[r].op
    BY <1>1 DEF FindCollection, Is, Finds, Kept, Op
  <1>4. x.op.kind \notin Loops /\ x.op.kind # "billing"
    BY <1>3 DEF Loops, Finds
  <1>5. CASE x.pc = "query" /\ x.collection \in Collections
    BY <1>2, <1>4, <1>5 DEF Good
  <1>6. CASE /\ collections \cap Named(r) = {} /\ x.pc = "shown" /\ x.page = {}
             /\ x.collection = req[r].collection
    <2>1. x.collection = None
      BY <1>3, <1>6 DEF Good
    <2>2. \A facts : AboutIn(x, facts) = {}
      BY <1>3, <2>1 DEF AboutIn, Finds
    <2>3. Between(x, {}, all, some)
      BY <1>6, <2>2 DEF Between
    <2>4. NamedIn(x) = Named(r) /\ NamedIn(x) \subseteq Collections
      BY <1>3 DEF NamedIn, Named, Sees
    <2>5. all \cap NamedIn(x) = {}
      BY <1>6, <2>4, FactsAre
    <2> QED BY <1>2, <1>4, <1>6, <2>3, <2>5 DEF Good
  <1> QED BY <1>1, <1>5, <1>6

LEMMA QueryMembersGood ==
  ASSUME ConstantsOK, Inv, NEW r \in Requests, QueryMembers(r), NEW all, NEW some,
         Good(req[r], all, some), all \subseteq Facts, Facts \subseteq some
  PROVE  Good(req'[r], all, some)
  <1>1. PICK x \in Requested :
          /\ Set(r, x) /\ Kept(x, req[r]) /\ x.collection = req[r].collection
          /\ x.pc = "shown" /\ x.page = PageOf(r)
    BY QueryMembersTo
  <1>2. req'[r] = x
    BY <1>1, Moved
  <1>3. req[r].pc = "query" /\ Op(r).kind \in Finds /\ x.op = Op(r) /\ Op(r) = req[r].op
    BY <1>1 DEF QueryMembers, Is, Finds, Kept, Op
  <1>4. x.op.kind \notin Loops /\ x.op.kind # "billing"
    BY <1>3 DEF Loops, Finds
  <1>5. x.collection \in Collections /\ x.collection # None
    BY <1>1, <1>3 DEF Good, ConstantsOK
  <1> DEFINE entry(p) == [product |-> p, prices |-> Quote(Op(r).kind, PricesOf[p])]
  <1>a. \A p : entry(p).product = p /\ entry(p).prices = Quote(Op(r).kind, PricesOf[p])
    OBVIOUS
  <1>b. x.page = {entry(p) : p \in Those(r)}
    BY <1>1 DEF PageOf
  <1> HIDE DEF entry
  <1>6. {e.product : e \in x.page} = Those(r)
    BY <1>a, <1>b
  <1>7. Those(r) = AboutIn(x, Facts)
    BY <1>1, <1>3, <1>5, ThoseAreAbout, SameAbout
  <1>8. \A e \in x.page : e.prices = Quote(x.op.kind, PricesOf[e.product])
    BY <1>3, <1>a, <1>b
  <1>9. Between(x, {}, all, some)
    BY <1>6, <1>7, <1>8, AboutNow DEF Between
  <1> QED BY <1>1, <1>2, <1>4, <1>5, <1>9 DEF Good

LEMMA BillingGood ==
  ASSUME ConstantsOK, Inv, NEW r \in Requests, Op(r).store \in Stores,
         ReadTier(r) \/ ReadUsage(r) \/ ShowBilling(r), NEW all, NEW some,
         Good(req[r], all, some), all \subseteq Facts, Facts \subseteq some
  PROVE  Good(req'[r], all, some)
  <1>1. req[r].pc = "start" /\ Op(r).kind = "billing" /\ Op(r) = req[r].op
    BY DEF ReadTier, ReadUsage, ShowBilling, Is, Op
  <1>2. BillingSoFar(req[r], all, some)
    BY <1>1 DEF Good
  <1>3. ASSUME NEW x \in Requested, Set(r, x), Kept(x, req[r]),
               BillingSoFar(x, all, some),
               x.pc = "start" \/ (x.pc = "shown" /\ None \notin {x.plan, x.count})
        PROVE  Good(req'[r], all, some)
    <2>1. req'[r] = x
      BY <1>3, Moved
    <2>2. x.op.kind = "billing"
      BY <1>1, <1>3 DEF Kept
    <2>3. x.op.kind \notin Loops /\ x.op.kind \notin Finds
      BY <2>2 DEF Loops, Finds
    <2> QED BY <1>3, <2>1, <2>2, <2>3 DEF Good
  <1>4. CASE ReadTier(r)
    <2>1. PICK x \in Requested :
            /\ Set(r, x) /\ Kept(x, req[r]) /\ x.pc = "start" /\ x.count = req[r].count
            /\ x.plan = tier[Op(r).store] /\ x.collection = req[r].collection
      BY <1>4, ReadTierTo
    <2>2. x.op = Op(r) /\ \A facts : AboutIn(x, facts) = AboutIn(req[r], facts)
      BY <1>1, <2>1, SameAbout DEF Kept
    <2>3. <<x.op.store, x.plan>> \in some
      BY <2>1, <2>2, FactsAre
    <2>4. /\ AboutIn(x, all) = AboutIn(req[r], all)
          /\ AboutIn(x, some) = AboutIn(req[r], some) /\ x.count = req[r].count
      BY <2>1, <2>2
    <2>5. BillingSoFar(x, all, some)
      BY <1>2, <2>3, <2>4 DEF BillingSoFar
    <2> QED BY <1>3, <2>1, <2>5
  <1>5. CASE ReadUsage(r)
    <2>1. PICK x \in Requested :
            /\ Set(r, x) /\ Kept(x, req[r]) /\ x.pc = "start" /\ x.plan = req[r].plan
            /\ x.count = Cardinality(Mine(r)) /\ x.collection = req[r].collection
      BY <1>5, ReadUsageTo
    <2>2. x.op = Op(r) /\ \A facts : AboutIn(x, facts) = AboutIn(req[r], facts)
      BY <1>1, <2>1, SameAbout DEF Kept
    <2>3. x.count = Cardinality(AboutIn(x, Facts))
      BY <1>1, <2>1, <2>2, MineIsAbout
    <2>4. /\ Cardinality(AboutIn(x, all)) <= x.count
          /\ x.count <= Cardinality(AboutIn(x, some))
      BY <2>3, AboutGrows
    <2>6. x.plan = req[r].plan /\ x.op = req[r].op
      BY <1>1, <2>1, <2>2
    <2>5. BillingSoFar(x, all, some)
      BY <1>2, <2>4, <2>6 DEF BillingSoFar
    <2> QED BY <1>3, <2>1, <2>5
  <1>6. CASE ShowBilling(r)
    <2>1. Shown(r, {}) /\ None \notin {req[r].plan, req[r].count}
      BY <1>6 DEF ShowBilling
    <2>2. PICK x \in Requested :
            /\ Set(r, x) /\ Kept(x, req[r]) /\ x.pc = "shown"
            /\ x.collection = req[r].collection /\ x.plan = req[r].plan
            /\ x.count = req[r].count
      BY <2>1, ShownTo
    <2>3. x.op = Op(r) /\ \A facts : AboutIn(x, facts) = AboutIn(req[r], facts)
      BY <1>1, <2>2, SameAbout DEF Kept
    <2>4. BillingSoFar(x, all, some)
      BY <1>1, <1>2, <2>2, <2>3 DEF BillingSoFar
    <2> QED BY <1>3, <2>1, <2>2, <2>4
  <1> QED BY <1>4, <1>5, <1>6

(* What the history and the page of a request have to do with each other. *)
PageSoFar(r) ==
  /\ Reading(req[r]) => always[r] \subseteq Facts /\ Facts \subseteq ever[r]
  /\ Good(req[r], always[r], ever[r])

LEMMA WatchedAre ==
  ASSUME Watch, NEW q \in Requests
  PROVE  /\ always'[q] = Watched(q, always[q], always[q] \cap Facts')
         /\ ever'[q] = Watched(q, ever[q], ever[q] \cup Facts')
  BY DEF Watch

(* While it reads, the facts at each step go into a page's history. *)
LEMMA WatchesOn ==
  ASSUME Watch, NEW q \in Requests, Reading(req[q]),
         req'[q].pc # "idle", req'[q].op.kind \in Pages
  PROVE  always'[q] = always[q] \cap Facts' /\ ever'[q] = ever[q] \cup Facts'
  <1>1. req[q].pc # "idle" /\ req[q].pc # "shown"
    BY DEF Reading
  <1> QED BY <1>1, WatchedAre DEF Watched, Op

LEMMA OthersStay ==
  ASSUME ConstantsOK, Inv, PagesInv, Watch, NEW q \in Requests, req'[q] = req[q]
  PROVE  PageSoFar(q)'
  <1>1. /\ req[q] \in Requested
        /\ Reading(req[q]) => always[q] \subseteq Facts /\ Facts \subseteq ever[q]
        /\ Good(req[q], always[q], ever[q])
    BY RequestParts DEF PagesInv
  <1>2. CASE req[q].pc = "idle"
    BY <1>2, IdleIsGood DEF PageSoFar
  <1>3. CASE req[q].op.kind \notin Pages
    BY <1>3, OtherKinds DEF PageSoFar
  <1>4. CASE req[q].pc = "shown" /\ req[q].op.kind \in Pages
    <2>1. always'[q] = always[q] /\ ever'[q] = ever[q]
      BY <1>4, WatchedAre DEF Watched, Op
    <2> QED BY <1>1, <1>4, <2>1 DEF PageSoFar, Reading
  <1>5. CASE Reading(req[q])
    <2>1. always'[q] = always[q] \cap Facts' /\ ever'[q] = ever[q] \cup Facts'
      BY <1>5, WatchesOn DEF Reading
    <2>2. Good(req[q], always'[q], ever'[q])
      BY <1>1, <2>1, GoodStays
    <2> QED BY <2>1, <2>2 DEF PageSoFar
  <1> QED BY <1>2, <1>3, <1>4, <1>5 DEF Reading

LEMMA BeginGood ==
  ASSUME ConstantsOK, Inv, Watch, NEW r \in Requests, NEW op, Begin(r, op)
  PROVE  PageSoFar(r)'
  <1> DEFINE todo == IF op.kind = "add" THEN op.products ELSE {}
             x == [Idle EXCEPT !.pc = "start", !.op = op, !.todo = todo]
  <1>1. Set(r, x) /\ req[r].pc = "idle"
    BY DEF Begin
  <1> HIDE DEF todo
  <1>2. /\ x.pc = "start" /\ x.op = op /\ x.page = {} /\ x.collection = None
        /\ x.plan = None /\ x.count = None
    BY DEF Idle
  <1> HIDE DEF x
  <1>3. req'[r] = x
    BY <1>1, Moved
  <1>4. CASE op.kind \notin Pages
    BY <1>2, <1>3, <1>4, OtherKinds DEF PageSoFar
  <1>5. CASE op.kind \in Pages
    <2>1. always'[r] = Facts' /\ ever'[r] = Facts'
      BY <1>1, <1>2, <1>3, <1>5, WatchedAre DEF Watched, Op
    <2>2. BillingSoFar(x, Facts', Facts')
      BY <1>2 DEF BillingSoFar
    <2>3. Good(x, Facts', Facts')
      BY <1>2, <2>2 DEF Good
    <2> QED BY <1>3, <2>1, <2>3 DEF PageSoFar
  <1> QED BY <1>4, <1>5

LEMMA EndGood ==
  ASSUME Inv, NEW r \in Requests, End(r)
  PROVE  PageSoFar(r)'
  <1>1. req'[r] = Idle
    BY Moved DEF End
  <1> QED BY <1>1, IdleType, IdleIsGood DEF PageSoFar

(* A request that writes reads no page. *)
LEMMA WriteGood ==
  ASSUME Inv, NEW r \in Requests, Write(r)
  PROVE  PageSoFar(r)'
  <1>1. CASE End(r)
    BY <1>1, EndGood
  <1>2. CASE ~End(r)
    <2>1. Op(r).kind \in {"delete", "add"}
      BY <1>2 DEF Write, CreateProduct, DeleteProduct, CommitDelete, CreateCollection, AddMember,
         AwaitDelete, CommitMembers, RemoveMember, SetTier, Is
    <2>2. \/ \E p : Skip(r, p) \/ Insert(r, p) \/ Wait(r, p)
          \/ Goto(r, "deleting")
      BY <1>2 DEF Write, CreateProduct, DeleteProduct, CommitDelete, CreateCollection, AddMember,
         AwaitDelete, CommitMembers, RemoveMember, SetTier
    <2>3. req[r] \in Requested
      BY RequestParts
    <2>4. \E x : Set(r, x) /\ x.op = req[r].op
      <3>1. ASSUME NEW p, Skip(r, p) PROVE \E x : Set(r, x) /\ x.op = req[r].op
        <4> DEFINE x == [req[r] EXCEPT !.todo = @ \ {p}]
        <4>1. Set(r, x) /\ x.op = req[r].op
          BY <2>3, <3>1 DEF Skip, Requested
        <4> QED BY <4>1
      <3>2. ASSUME NEW p, Insert(r, p) PROVE \E x : Set(r, x) /\ x.op = req[r].op
        <4> DEFINE x == [req[r] EXCEPT !.pc = "start", !.todo = @ \ {p}, !.wait = None,
                                       !.rows = @ \cup {<<Op(r).collection, p>>}]
        <4>1. Set(r, x) /\ x.op = req[r].op
          BY <2>3, <3>2 DEF Insert, Requested
        <4> QED BY <4>1
      <3>3. ASSUME NEW p, Wait(r, p) PROVE \E x : Set(r, x) /\ x.op = req[r].op
        <4> DEFINE x == [req[r] EXCEPT !.pc = "waiting", !.wait = p]
        <4>1. Set(r, x) /\ x.op = req[r].op
          BY <2>3, <3>3 DEF Wait, Requested
        <4> QED BY <4>1
      <3>4. ASSUME Goto(r, "deleting") PROVE \E x : Set(r, x) /\ x.op = req[r].op
        <4> DEFINE x == [req[r] EXCEPT !.pc = "deleting"]
        <4>1. Set(r, x) /\ x.op = req[r].op
          BY <2>3, <3>4 DEF Goto, Requested
        <4> QED BY <4>1
      <3> QED BY <2>2, <3>1, <3>2, <3>3, <3>4
    <2>5. req'[r].op.kind \notin Pages
      BY <2>1, <2>4, Moved DEF Op, Pages, Storefront
    <2> QED BY <2>5, OtherKinds DEF PageSoFar
  <1> QED BY <1>1, <1>2

LEMMA ReadGood ==
  ASSUME ConstantsOK, Inv, PagesInv, Watch, NEW r \in Requests, Read(r), ~Leave(r)
  PROVE  PageSoFar(r)'
  <1>1. /\ UNCHANGED tables /\ req[r].pc \in {"start", "variants", "query"}
        /\ Op(r).kind \in Pages
    BY DEF Read, ReadProducts, ReadVariants, FindCollection, QueryMembers, ReadTier, ReadUsage,
       ShowBilling, Is, Pages, Storefront
  <1>2. Reading(req[r]) /\ Facts' = Facts
    BY <1>1 DEF Reading, Op, Facts, tables
  <1>3. /\ always[r] \subseteq Facts /\ Facts \subseteq ever[r]
        /\ Good(req[r], always[r], ever[r])
    BY <1>2 DEF PagesInv
  <1>4. Op(r).store \in Stores
    BY <1>1, WriteOps DEF OpOK
  <1>5. \E x \in Requested : Set(r, x) /\ Kept(x, req[r]) /\ x.pc # "idle"
    <2>1. CASE ReadProducts(r)
      BY <2>1, ReadProductsTo
    <2>2. CASE ReadVariants(r)
      BY <2>2, ReadVariantsTo
    <2>3. CASE FindCollection(r)
      BY <2>3, FindCollectionTo
    <2>4. CASE QueryMembers(r)
      BY <2>4, QueryMembersTo
    <2>5. CASE ReadTier(r)
      BY <1>4, <2>5, ReadTierTo
    <2>6. CASE ReadUsage(r)
      BY <2>6, ReadUsageTo
    <2>7. CASE ShowBilling(r)
      BY <2>7, ShownTo DEF ShowBilling
    <2> QED BY <2>1, <2>2, <2>3, <2>4, <2>5, <2>6, <2>7 DEF Read
  <1>6. req'[r].pc # "idle" /\ req'[r].op.kind \in Pages
    BY <1>1, <1>5, Moved DEF Kept, Op
  <1>7. always'[r] = always[r] /\ ever'[r] = ever[r]
    BY <1>2, <1>3, <1>6, WatchesOn
  <1>8. Good(req'[r], always[r], ever[r])
    BY <1>3, <1>4, ReadProductsGood, ReadVariantsGood, FindCollectionGood, QueryMembersGood,
       BillingGood DEF Read
  <1> QED BY <1>2, <1>3, <1>7, <1>8 DEF PageSoFar

LEMMA StepPages == ConstantsOK /\ Inv /\ PagesInv /\ [Next]_vars => PagesInv'
  <1> SUFFICES ASSUME ConstantsOK, Inv, PagesInv, [Next]_vars PROVE PagesInv'
    OBVIOUS
  <1>1. ASSUME NEW r \in Requests, Watch,
               (\E op \in Ops[r] : Begin(r, op)) \/ Write(r) \/ Read(r) \/ Fail(r)
        PROVE  PagesInv'
    <2>1. PageSoFar(r)'
      BY <1>1, BeginGood, WriteGood, ReadGood, EndGood DEF Leave, Fail
    <2>2. \E x : Set(r, x)
      BY <1>1 DEF Begin, Write, CreateProduct, DeleteProduct, CommitDelete, CreateCollection,
         AddMember, AwaitDelete, CommitMembers, RemoveMember, SetTier, Read, ReadProducts,
         ReadVariants, FindCollection, QueryMembers, ReadTier, ReadUsage, ShowBilling, Leave,
         Fail, End, Goto, Skip, Insert, Wait, Shown
    <2>3. ASSUME NEW q \in Requests, q # r PROVE PageSoFar(q)'
      <3>1. req'[q] = req[q]
        BY <2>2, <2>3, Moved
      <3> QED BY <1>1, <3>1, OthersStay
    <2> QED BY <2>1, <2>3 DEF PagesInv, PageSoFar
  <1>2. CASE UNCHANGED vars
    <2>1. UNCHANGED <<products, collections, members, tier, req, always, ever>>
      BY <1>2 DEF vars, tables
    <2>2. Facts' = Facts
      BY <2>1 DEF Facts
    <2> QED BY <2>1, <2>2 DEF PagesInv
  <1> QED BY <1>1, <1>2 DEF Next

LEMMA PagesInvIsTrue == ConstantsOK /\ Inv /\ PagesInv => PagesAreTrue
  <1> SUFFICES ASSUME ConstantsOK, PagesInv, NEW r \in Requests
               PROVE  /\ Is(r, "shown", Storefront \cup {"products", "members"}) => PageIsTrue(r)
                      /\ Is(r, "shown", {"collection", "members"}) => NotFoundIsTrue(r)
                      /\ Is(r, "shown", {"billing"}) => BillingIsTrue(r)
    BY DEF PagesAreTrue
  <1> DEFINE x == req[r]
  <1>1. Good(x, always[r], ever[r])
    BY DEF PagesInv
  <1>2. \A facts : About(r, facts) = AboutIn(x, facts)
    BY DEF About, AboutIn, Op, Sees
  <1>3. Named(r) = NamedIn(x)
    BY DEF Named, NamedIn, Op, Sees
  <1>4. ASSUME Is(r, "shown", Storefront \cup {"products", "members"}) PROVE PageIsTrue(r)
    <2>1. x.pc = "shown" /\ x.op.kind \in Loops \cup Finds
      BY <1>4 DEF Is, Op, Loops, Finds, Storefront
    <2>2. Between(x, {}, always[r], ever[r])
      BY <1>1, <2>1 DEF Good
    <2> QED BY <1>2, <2>2 DEF Between, PageIsTrue, Op
  <1>5. ASSUME Is(r, "shown", {"collection", "members"}) PROVE NotFoundIsTrue(r)
    <2>1. x.pc = "shown" /\ x.op.kind \in Finds
      BY <1>5 DEF Is, Op, Finds
    <2> QED BY <1>1, <1>3, <2>1 DEF Good, NotFoundIsTrue
  <1>6. ASSUME Is(r, "shown", {"billing"}) PROVE BillingIsTrue(r)
    <2>1. x.pc = "shown" /\ x.op.kind = "billing"
      BY <1>6 DEF Is, Op
    <2>2. BillingSoFar(x, always[r], ever[r]) /\ x.plan # None /\ x.count # None
      BY <1>1, <2>1 DEF Good
    <2> QED BY <1>2, <2>2 DEF BillingSoFar, BillingIsTrue, Op
  <1> QED BY <1>4, <1>5, <1>6

LEMMA InitPages ==
  ASSUME NEW there, NEW named, InitWith(there, named)
  PROVE  PagesInv
  <1>1. \A r \in Requests : req[r].pc = "idle"
    BY IdleType DEF InitWith
  <1> QED BY <1>1, IdleIsGood DEF PagesInv

(* A page that is read statement by statement, while the catalog changes, leaves
   out nothing that was there all the time and shows nothing that never was
   (listPublishedProducts, getStorefrontCollectionBySlug, getDashboardBilling
   and the others). *)
THEOREM CatalogPagesAreTrue ==
  ASSUME NEW there \in SUBSET Products, NEW named \in SUBSET Collections
  PROVE  InitWith(there, named) /\ [][Next]_vars => []PagesAreTrue
  <1>1. InitWith(there, named) => Inv /\ PagesInv
    BY InitInv, InitPages
  <1>2. Inv /\ PagesInv /\ [Next]_vars => Inv' /\ PagesInv'
    BY StepInv, StepPages, CatalogAssumption
  <1>3. Inv /\ PagesInv => PagesAreTrue
    BY PagesInvIsTrue, CatalogAssumption
  <1> QED BY <1>1, <1>2, <1>3, PTL
=============================================================================
