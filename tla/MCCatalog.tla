----------------------------- MODULE MCCatalog -----------------------------
(* Module Catalog with two requests.  Store one has Products a and b, which have
   one slug, and the draft d; Store two has z, which has their slug as well. *)
EXTENDS Catalog, TLC

CONSTANTS one, two, a, b, d, z, hand, cheap, theirs

MCStoreOf == [x \in Products \cup Collections |-> IF x \in {z, theirs} THEN two ELSE one]
MCSlugOf  == [x \in Products \cup Collections |-> IF x = d THEN "draft"
                                                  ELSE IF x \in Products THEN "shirt" ELSE "sale"]
MCTagsOf   == [p \in Products |-> IF p \in {b, d} THEN {"new"} ELSE {}]
MCPricesOf == [p \in Products |-> IF p = b THEN {2, 3} ELSE {1}]
MCFormOf ==
  [c \in Collections |->
     CASE c = hand  -> [type |-> "manual"]
       [] c = cheap -> [type |-> "automated", rule |-> "price", min |-> 2, max |-> Garbage]
       [] OTHER     -> [type |-> "automated", rule |-> "tag", tag |-> "new"]]

Mine(kind) == [kind |-> kind, store |-> one]
Writes ==
  {Mine("create") @@ [product |-> p] : p \in {a, b}}
  \cup {Mine("delete") @@ [product |-> p] : p \in {a, z}}
  \cup {Mine("collect") @@ [collection |-> c] : c \in {hand, cheap}}
  \cup {Mine("add") @@ [collection |-> hand, products |-> {a, z}],
        Mine("add") @@ [collection |-> theirs, products |-> {a}],
        Mine("remove") @@ [collection |-> hand, product |-> a],
        Mine("plan") @@ [tier |-> "pro"]}
MCPages ==
  {Mine("listing"), Mine("product") @@ [slug |-> "shirt"], Mine("collection") @@ [slug |-> "sale"],
   Mine("products"), Mine("members") @@ [collection |-> hand], Mine("billing")}
MCOps == [r \in Requests |-> Writes \cup MCPages]

(* The draft and the other Store's catalog are there. *)
MCSpec == InitWith({d, z}, {theirs}) /\ [][Next]_vars
=============================================================================
