--------------------------- MODULE OwnershipProofs ---------------------------
(***************************************************************************)
(* For any Stores, Memberships and transactions: every Store has exactly   *)
(* one Owner.                                                              *)
(*                                                                         *)
(* The argument is the one the comment above part 3 makes.  All rows that  *)
(* are, or may become, the owner of one Store are in the hands of one      *)
(* transaction (Index): so the transaction whose Store is checked at       *)
(* COMMIT holds every such row (Checks), and what its check found is still *)
(* so when it commits, whoever commits in between (Passed).  The rest says *)
(* that a Store referred to, or being deleted, is not deleted, or referred *)
(* to, by another (Held, Gone, New).                                       *)
(*                                                                         *)
(* The second part is about a Store's Stripe account.                      *)
(***************************************************************************)
EXTENDS Ownership, StripeAccount, TLAPS

Pending(t, r) == tx[t].written[r]
In(v, s)      == v \in Membership /\ v.store = s
(* Row r is an owner of s, or will be if a transaction commits. *)
MayOwn(r, s) == member[r] = Owner(s) \/ \E t \in Transactions : Pending(t, r) = Owner(s)
Known(t, s)  == stores[s] = "live" \/ s \in tx[t].inserted

Locks == \A t, u \in Transactions, r \in Rows : Writes(t, r) /\ Writes(u, r) => t = u

New ==
  \A t \in Transactions, s \in Stores : s \in tx[t].inserted =>
    /\ stores[s] = "free" /\ s \in tx[t].checks
    /\ \A u \in Transactions : s \in tx[u].inserted => u = t

Gone ==
  \A t \in Transactions, s \in Stores : s \in tx[t].deleted =>
    /\ Known(t, s)
    /\ \A u \in Others(t) : s \notin tx[u].deleted /\ s \notin tx[u].checks
    /\ \A r \in Rows : ~In(Sees(t, r), s) /\ (In(member[r], s) => Writes(t, r))
    /\ \A u \in Others(t), r \in Rows : ~In(Pending(u, r), s)

Held ==
  /\ \A r \in Rows, s \in Stores : In(member[r], s) => stores[s] = "live"
  /\ \A t \in Transactions, r \in Rows, s \in Stores : In(Pending(t, r), s) =>
       Known(t, s) /\ (s \in tx[t].referenced \/ In(member[r], s))

Index ==
  /\ \A s \in Stores, r, q \in Rows : MayOwn(r, s) /\ MayOwn(q, s) /\ r # q =>
       \E t \in Transactions : Writes(t, r) /\ Writes(t, q)
  /\ \A t \in Transactions, s \in Stores, r, q \in Rows :
       Pending(t, r) = Owner(s) /\ Pending(t, q) = Owner(s) => r = q
  /\ \A s \in Stores, r, q \in Rows : member[r] = Owner(s) /\ member[q] = Owner(s) => r = q

Checks ==
  \A t \in Transactions, s \in Stores :
    /\ s \in tx[t].checks =>
         Known(t, s) /\ \A r \in Rows : MayOwn(r, s) => Writes(t, r)
    /\ \A r \in Rows : Writes(t, r) /\ member[r] = Owner(s) => s \in tx[t].checks

Passed ==
  \A t \in Transactions :
    /\ tx[t].passed \subseteq tx[t].checks
    /\ tx[t].phase # "commit" => tx[t].passed = {}
    /\ \A s \in tx[t].passed \ tx[t].deleted : \E r \in Rows : Pending(t, r) = Owner(s)

Owned == \A s \in Stores : stores[s] = "live" => \E r \in Rows : member[r] = Owner(s)

Types ==
  /\ stores \in [Stores -> {"free", "live", "gone"}]
  /\ member \in [Rows -> Membership \cup {NoRow}]
  /\ tx \in [Transactions -> TxState]

Inv == Types /\ Locks /\ New /\ Gone /\ Held /\ Index /\ Checks /\ Passed /\ Owned

-----------------------------------------------------------------------------
USE OwnershipAssumption

LEMMA Owners ==
  /\ \A s \in Stores : /\ Owner(s) \in Membership /\ Owner(s) \notin {NoRow, Unwritten}
                       /\ Owner(s).store = s /\ Owner(s).role = "owner" /\ In(Owner(s), s)
  /\ \A v \in Membership : /\ v.store \in Stores
                           /\ v.role = "owner" <=> v = Owner(v.store)
  /\ \A s, u \in Stores : Owner(s) = Owner(u) => s = u
  /\ \A s \in Stores : ~In(NoRow, s) /\ ~In(Unwritten, s)
  BY DEF Owner, Membership, In

LEMMA Idles ==
  /\ Idle \in TxState /\ Idle.phase = "idle" /\ Idle.passed = {} /\ Idle.checks = {}
  /\ Idle.inserted = {} /\ Idle.deleted = {} /\ Idle.referenced = {}
  /\ \A r \in Rows : Idle.written[r] = Unwritten
  BY DEF Idle, TxState

LEMMA InitInv == OwnershipInit => Inv
  <1> SUFFICES ASSUME OwnershipInit PROVE Inv
    OBVIOUS
  <1>1. \A t \in Transactions : tx[t] = Idle
    BY DEF OwnershipInit
  <1>2. \A t \in Transactions, r \in Rows : ~Writes(t, r) /\ Pending(t, r) = Unwritten
    BY <1>1, Idles DEF Writes, Pending
  <1>3. \A r \in Rows, s \in Stores : ~MayOwn(r, s) /\ ~In(member[r], s)
    BY <1>2, Owners DEF OwnershipInit, MayOwn
  <1>4. Types
    BY Idles DEF OwnershipInit, Types
  <1>5. Locks /\ Index
    BY <1>2, <1>3, Owners DEF Locks, Index, MayOwn
  <1>6. New /\ Gone /\ Passed
    BY <1>1, Idles DEF New, Gone, Passed
  <1>7. Held /\ Checks /\ Owned
    BY <1>1, <1>2, <1>3, Idles, Owners DEF OwnershipInit, Held, Checks, Owned
  <1> QED
    BY <1>4, <1>5, <1>6, <1>7 DEF Inv

(* A transaction that rolls back takes nothing with it. *)
LEMMA RolledInv ==
  ASSUME Inv, NEW t \in Transactions, Rolled(t), UNCHANGED <<stores, member>>
  PROVE  Inv'
  <1>1. \A u \in Transactions : tx'[u] = IF u = t THEN Idle ELSE tx[u]
    BY DEF Rolled, Inv, Types
  <1>2. \A u \in Transactions, r \in Rows :
          /\ Writes(u, r)' <=> u # t /\ Writes(u, r)
          /\ Pending(u, r)' = IF u = t THEN Unwritten ELSE Pending(u, r)
    BY <1>1, Idles DEF Writes, Pending
  <1>3. \A r \in Rows, s \in Stores : MayOwn(r, s)' => MayOwn(r, s)
    BY <1>2, Owners DEF MayOwn
  <1>4. Types'
    BY Idles DEF Inv, Types, Rolled
  <1>5. Locks'
    BY <1>2 DEF Inv, Locks
  <1>6. New'
    BY <1>1, Idles DEF Inv, New
  <1>7. \A u \in Transactions, s \in Stores : Known(u, s)' <=>
          IF u = t THEN stores[s] = "live" ELSE Known(u, s)
    BY <1>1, Idles DEF Known
  <1>8. Gone'
    <2> SUFFICES ASSUME NEW u \in Transactions, NEW s \in Stores, s \in tx'[u].deleted
                 PROVE  /\ Known(u, s)'
                        /\ \A w \in Others(u) : s \notin tx'[w].deleted /\ s \notin tx'[w].checks
                        /\ \A r \in Rows : ~In(Sees(u, r), s)' /\ (In(member[r], s)' => Writes(u, r)')
                        /\ \A w \in Others(u), r \in Rows : ~In(Pending(w, r), s)'
      BY DEF Gone, Others
    <2>1. u # t /\ s \in tx[u].deleted
      BY <1>1, Idles
    <2>2. /\ Known(u, s)
          /\ \A w \in Others(u) : s \notin tx[w].deleted /\ s \notin tx[w].checks
          /\ \A r \in Rows : ~In(Sees(u, r), s) /\ (In(member[r], s) => Writes(u, r))
          /\ \A w \in Others(u), r \in Rows : ~In(Pending(w, r), s)
      BY <2>1 DEF Inv, Gone
    <2>3. \A r \in Rows : Sees(u, r)' = Sees(u, r)
      BY <1>1, <2>1 DEF Sees, Writes
    <2> QED
      BY <1>1, <1>2, <1>7, <2>1, <2>2, <2>3, Idles, Owners DEF Others, In
  <1>9. Held'
    BY <1>1, <1>2, <1>7, Owners DEF Inv, Held, In
  <1>10. Index'
    <2>1. \A s \in Stores, r, q \in Rows : MayOwn(r, s)' /\ MayOwn(q, s)' /\ r # q =>
            \E u \in Transactions : Writes(u, r)' /\ Writes(u, q)'
      <3> SUFFICES ASSUME NEW s \in Stores, NEW r \in Rows, NEW q \in Rows,
                          MayOwn(r, s)', MayOwn(q, s)', r # q
                   PROVE  \E u \in Transactions : Writes(u, r)' /\ Writes(u, q)'
        OBVIOUS
      <3>1. PICK u \in Transactions : Writes(u, r) /\ Writes(u, q)
        BY <1>3 DEF Inv, Index
      <3>2. u # t
        <4>1. SUFFICES ASSUME u = t PROVE FALSE
          OBVIOUS
        <4>2. member[r] = Owner(s) /\ member[q] = Owner(s)
          BY <1>2, <3>1, <4>1, Owners DEF MayOwn, Inv, Locks, Writes, Pending
        <4> QED
          BY <4>2 DEF Inv, Index
      <3> QED
        BY <1>2, <3>1, <3>2
    <2> QED
      BY <1>2, <2>1, Owners DEF Inv, Index
  <1>11. Checks'
    BY <1>1, <1>2, <1>3, <1>7, Idles DEF Inv, Checks
  <1>12. Passed'
    BY <1>1, <1>2, Idles DEF Inv, Passed
  <1>13. Owned'
    BY DEF Inv, Owned
  <1> QED
    BY <1>4, <1>5, <1>6, <1>8, <1>9, <1>10, <1>11, <1>12, <1>13 DEF Inv

(* A step that only moves a transaction on. *)
LEMMA QuietInv ==
  ASSUME Inv, NEW t \in Transactions, NEW c \in TxState, tx' = [tx EXCEPT ![t] = c],
         UNCHANGED <<stores, member>>, c.written = tx[t].written,
         c.inserted = tx[t].inserted, c.deleted = tx[t].deleted,
         c.referenced = tx[t].referenced, c.checks = tx[t].checks,
         c.passed \subseteq c.checks, c.phase # "commit" => c.passed = {},
         \A s \in c.passed \ c.deleted : \E r \in Rows : c.written[r] = Owner(s)
  PROVE  Inv'
  <1>1. \A u \in Transactions : tx'[u] = IF u = t THEN c ELSE tx[u]
    BY DEF Inv, Types
  <1>2. \A u \in Transactions :
          /\ tx'[u].written = tx[u].written /\ tx'[u].inserted = tx[u].inserted
          /\ tx'[u].deleted = tx[u].deleted /\ tx'[u].checks = tx[u].checks
          /\ tx'[u].referenced = tx[u].referenced
    BY <1>1
  <1>3. \A u \in Transactions, r \in Rows :
          /\ Writes(u, r)' <=> Writes(u, r)
          /\ Pending(u, r)' = Pending(u, r) /\ Sees(u, r)' = Sees(u, r)
    BY <1>2 DEF Writes, Pending, Sees
  <1>4. \A r \in Rows, s \in Stores : MayOwn(r, s)' <=> MayOwn(r, s)
    BY <1>3 DEF MayOwn
  <1>5. \A u \in Transactions, s \in Stores : Known(u, s)' <=> Known(u, s)
    BY <1>2 DEF Known
  <1>6. Types' /\ Owned'
    BY DEF Inv, Types, Owned
  <1>7. Locks' /\ New'
    BY <1>2, <1>3 DEF Inv, Locks, New
  <1>8. Gone'
    BY <1>2, <1>3, <1>5 DEF Inv, Gone, Others, In
  <1>9. Held'
    BY <1>2, <1>3, <1>5 DEF Inv, Held, In
  <1>10. Index'
    <2>1. \A s \in Stores, r, q \in Rows : MayOwn(r, s)' /\ MayOwn(q, s)' /\ r # q =>
            \E u \in Transactions : Writes(u, r)' /\ Writes(u, q)'
      BY <1>3, <1>4 DEF Inv, Index
    <2> QED
      BY <1>3, <2>1 DEF Inv, Index
  <1>11. Checks'
    BY <1>2, <1>3, <1>4, <1>5 DEF Inv, Checks
  <1>12. Passed'
    BY <1>1, <1>2 DEF Inv, Passed, Pending
  <1> QED
    BY <1>6, <1>7, <1>8, <1>9, <1>10, <1>11, <1>12 DEF Inv

LEMMA InsertStoreInv ==
  ASSUME Inv, NEW t \in Transactions, NEW x \in Stores, InsertStore(t, x)
  PROVE  Inv'
  <1>0. /\ tx[t] \in TxState /\ tx[t].passed = {} /\ stores[x] = "free"
        /\ stores' = stores /\ member' = member
        /\ \A u \in Transactions : x \notin tx[u].inserted
    BY DEF Inv, Types, Passed, InsertStore
  <1>1. \A u \in Transactions :
          /\ tx'[u].written = tx[u].written /\ tx'[u].deleted = tx[u].deleted
          /\ tx'[u].referenced = tx[u].referenced /\ tx'[u].passed = tx[u].passed
          /\ tx'[u].phase = tx[u].phase
          /\ \A s \in Stores :
               /\ s \in tx'[u].inserted <=> s \in tx[u].inserted \/ (u = t /\ s = x)
               /\ s \in tx'[u].checks <=> s \in tx[u].checks \/ (u = t /\ s = x)
          /\ tx[u].checks \subseteq tx'[u].checks
    BY DEF Inv, Types, TxState, InsertStore
  <1>2. \A u \in Transactions, r \in Rows :
          /\ Writes(u, r)' <=> Writes(u, r)
          /\ Pending(u, r)' = Pending(u, r) /\ Sees(u, r)' = Sees(u, r)
    BY <1>0, <1>1 DEF Writes, Pending, Sees
  <1>3. \A r \in Rows, s \in Stores : MayOwn(r, s)' <=> MayOwn(r, s)
    BY <1>0, <1>2 DEF MayOwn
  <1>4. /\ \A u \in Transactions, s \in Stores : Known(u, s) => Known(u, s)'
        /\ \A u \in Transactions : ~Known(u, x)
        /\ Known(t, x)'
    BY <1>0, <1>1 DEF Known
  <1>5. \A r \in Rows : ~MayOwn(r, x)
    BY <1>4, Owners DEF Inv, Held, MayOwn, Known
  <1>6. Types'
    <2>1. tx' \in [Transactions -> TxState]
      BY <1>0 DEF Inv, Types, TxState, InsertStore
    <2> QED
      BY <1>0, <2>1 DEF Inv, Types
  <1>7. Locks' /\ Owned'
    BY <1>0, <1>2 DEF Inv, Locks, Owned
  <1>8. New'
    BY <1>0, <1>1 DEF Inv, New
  <1>9. Gone'
    <2> SUFFICES ASSUME NEW u \in Transactions, NEW s \in Stores, s \in tx'[u].deleted
                 PROVE  /\ Known(u, s)'
                        /\ \A w \in Others(u) : s \notin tx'[w].deleted /\ s \notin tx'[w].checks
                        /\ \A r \in Rows : ~In(Sees(u, r), s)' /\ (In(member[r], s)' => Writes(u, r)')
                        /\ \A w \in Others(u), r \in Rows : ~In(Pending(w, r), s)'
      BY DEF Gone, Others
    <2>1. /\ Known(u, s)
          /\ \A w \in Others(u) : s \notin tx[w].deleted /\ s \notin tx[w].checks
          /\ \A r \in Rows : ~In(Sees(u, r), s) /\ (In(member[r], s) => Writes(u, r))
          /\ \A w \in Others(u), r \in Rows : ~In(Pending(w, r), s)
      BY <1>1 DEF Inv, Gone
    <2> QED
      BY <1>0, <1>1, <1>2, <1>4, <2>1 DEF Others, In
  <1>10. Held'
    BY <1>0, <1>1, <1>2, <1>4 DEF Inv, Held, In
  <1>11. Index'
    <2>1. \A s \in Stores, r, q \in Rows : MayOwn(r, s)' /\ MayOwn(q, s)' /\ r # q =>
            \E u \in Transactions : Writes(u, r)' /\ Writes(u, q)'
      BY <1>2, <1>3 DEF Inv, Index
    <2> QED
      BY <1>0, <1>2, <2>1 DEF Inv, Index
  <1>12. Checks'
    BY <1>0, <1>1, <1>2, <1>3, <1>4, <1>5 DEF Inv, Checks
  <1>13. Passed'
    BY <1>0, <1>1 DEF Inv, Passed, Pending
  <1> QED
    BY <1>6, <1>7, <1>8, <1>9, <1>10, <1>11, <1>12, <1>13 DEF Inv

(* A statement writes row r. *)
LEMMA WriteInv ==
  ASSUME Inv, NEW t \in Transactions, NEW r \in Rows, NEW v \in Membership \cup {NoRow},
         NEW refs \in SUBSET Stores, tx[t].phase = "open", Unlocked(t, r),
         Write(t, r, v, refs), UNCHANGED <<stores, member>>,
         \A s \in Stores : In(v, s) => (s \in refs /\ Referable(t, s)) \/ In(Sees(t, r), s),
         \A s \in Stores : v = Owner(s) => IndexFree(t, r, s) /\ ~IndexTaken(t, r, s)
  PROVE  Inv'
  <1>0. tx[t] \in TxState /\ tx[t].passed = {} /\ v # Unwritten
    BY DEF Inv, Types, Passed, Membership
  <1>1. \A u \in Transactions :
          /\ tx'[u].inserted = tx[u].inserted /\ tx'[u].deleted = tx[u].deleted
          /\ tx'[u].passed = tx[u].passed /\ tx'[u].phase = tx[u].phase
          /\ \A q \in Rows : tx'[u].written[q] = IF u = t /\ q = r THEN v ELSE tx[u].written[q]
          /\ \A s \in Stores :
               /\ s \in tx'[u].checks <=> s \in tx[u].checks \/ (u = t /\ Sees(t, r) = Owner(s))
               /\ s \in tx'[u].referenced <=> s \in tx[u].referenced \/ (u = t /\ s \in refs)
          /\ tx[u].checks \subseteq tx'[u].checks
    BY DEF Inv, Types, TxState, Write, Checked
  <1>2. \A u \in Transactions, q \in Rows :
          /\ Pending(u, q)' = IF u = t /\ q = r THEN v ELSE Pending(u, q)
          /\ Writes(u, q)' <=> Writes(u, q) \/ (u = t /\ q = r)
    BY <1>0, <1>1 DEF Writes, Pending
  <1>3. \A u \in Transactions, q \in Rows :
          Sees(u, q)' = IF u = t /\ q = r THEN v ELSE Sees(u, q)
    BY <1>1, <1>2 DEF Sees, Pending
  <1>4. \A u \in Transactions, s \in Stores : Known(u, s)' <=> Known(u, s)
    BY <1>1 DEF Known
  <1>5. \A u \in Transactions \ {t} : ~Writes(u, r)
    BY DEF Unlocked, Others
  <1>6. \A u \in Transactions, s \in Stores : s \in tx[u].deleted => ~In(Sees(t, r), s)
    BY <1>5 DEF Inv, Gone, Sees, Others, Pending
  <1>7. \A u \in Transactions, s \in Stores : s \in tx[u].deleted => ~In(v, s)
    BY <1>6 DEF Referable, SeesStore, Others
  <1>8. \A s \in Stores : In(v, s) => Known(t, s)
    <2> SUFFICES ASSUME NEW s \in Stores, In(v, s) PROVE Known(t, s)
      OBVIOUS
    <2>1. CASE Referable(t, s)
      BY <2>1 DEF Referable, SeesStore, Known
    <2>2. CASE In(Sees(t, r), s)
      BY <2>2 DEF Inv, Held, Sees, Pending, Known
    <2> QED
      BY <2>1, <2>2
  <1>9. \A q \in Rows, s \in Stores : MayOwn(q, s)' => MayOwn(q, s) \/ (q = r /\ v = Owner(s))
    BY <1>2 DEF MayOwn
  <1>10. \A s \in Stores, q \in Rows : v = Owner(s) /\ MayOwn(q, s) /\ q # r => Writes(t, q)
    <2> SUFFICES ASSUME NEW s \in Stores, NEW q \in Rows, v = Owner(s), MayOwn(q, s), q # r
                 PROVE  Writes(t, q)
      OBVIOUS
    <2>1. IndexFree(t, r, s) /\ ~IndexTaken(t, r, s)
      OBVIOUS
    <2>2. CASE member[q] = Owner(s)
      BY <2>1, <2>2 DEF IndexFree, IndexTaken, Sees
    <2>3. CASE member[q] # Owner(s)
      <3>1. PICK u \in Transactions : Pending(u, q) = Owner(s)
        BY <2>3 DEF MayOwn
      <3>2. Writes(u, q)
        BY <3>1, Owners DEF Writes, Pending
      <3> QED
        BY <2>1, <3>1, <3>2 DEF IndexFree, Others, Pending
    <2> QED
      BY <2>2, <2>3
  <1>11. \A s \in Stores : Sees(t, r) = Owner(s) => MayOwn(r, s)
    BY DEF Sees, MayOwn, Pending
  <1>12. Types'
    <2>1. tx' \in [Transactions -> TxState]
      BY <1>0 DEF Inv, Types, TxState, Write, Checked
    <2> QED
      BY <2>1 DEF Inv, Types
  <1>13. Locks'
    BY <1>2, <1>5 DEF Inv, Locks
  <1>14. New'
    BY <1>1 DEF Inv, New
  <1>15. Gone'
    <2> SUFFICES ASSUME NEW u \in Transactions, NEW s \in Stores, s \in tx'[u].deleted
                 PROVE  /\ Known(u, s)'
                        /\ \A w \in Others(u) : s \notin tx'[w].deleted /\ s \notin tx'[w].checks
                        /\ \A q \in Rows : ~In(Sees(u, q), s)' /\ (In(member[q], s)' => Writes(u, q)')
                        /\ \A w \in Others(u), q \in Rows : ~In(Pending(w, q), s)'
      BY DEF Gone, Others
    <2>1. /\ Known(u, s) /\ s \in tx[u].deleted
          /\ \A w \in Others(u) : s \notin tx[w].deleted /\ s \notin tx[w].checks
          /\ \A q \in Rows : ~In(Sees(u, q), s) /\ (In(member[q], s) => Writes(u, q))
          /\ \A w \in Others(u), q \in Rows : ~In(Pending(w, q), s)
      BY <1>1 DEF Inv, Gone
    <2>2. ~In(v, s) /\ Sees(t, r) # Owner(s)
      BY <1>6, <1>7, <2>1, Owners
    <2>3. \A w \in Others(u) : s \notin tx'[w].deleted /\ s \notin tx'[w].checks
      BY <1>1, <2>1, <2>2 DEF Others
    <2>4. \A q \in Rows : ~In(Sees(u, q), s)' /\ (In(member[q], s)' => Writes(u, q)')
      BY <1>2, <1>3, <2>1, <2>2 DEF In
    <2>5. \A w \in Others(u), q \in Rows : ~In(Pending(w, q), s)'
      BY <1>2, <2>1, <2>2 DEF In, Others
    <2> QED
      BY <1>4, <2>1, <2>3, <2>4, <2>5
  <1>16. Held'
    <2> SUFFICES ASSUME NEW u \in Transactions, NEW q \in Rows, NEW s \in Stores,
                        In(Pending(u, q), s)'
                 PROVE  Known(u, s)' /\ (s \in tx'[u].referenced \/ In(member[q], s)')
      BY DEF Inv, Held, In
    <2>1. CASE u = t /\ q = r
      <3>1. In(v, s)
        BY <1>2, <2>1 DEF In
      <3>2. CASE s \in refs
        BY <1>1, <1>4, <1>8, <2>1, <3>1, <3>2
      <3>3. CASE In(Sees(t, r), s)
        BY <1>1, <1>4, <1>8, <2>1, <3>1, <3>3 DEF Inv, Held, Sees, Pending, In
      <3> QED
        BY <3>1, <3>2, <3>3
    <2>2. CASE ~(u = t /\ q = r)
      BY <1>1, <1>2, <1>4, <2>2 DEF Inv, Held, In
    <2> QED
      BY <2>1, <2>2
  <1>17. Index'
    <2>1. \A s \in Stores, p, q \in Rows : MayOwn(p, s)' /\ MayOwn(q, s)' /\ p # q =>
            \E u \in Transactions : Writes(u, p)' /\ Writes(u, q)'
      <3> SUFFICES ASSUME NEW s \in Stores, NEW p \in Rows, NEW q \in Rows,
                          MayOwn(p, s)', MayOwn(q, s)', p # q
                   PROVE  \E u \in Transactions : Writes(u, p)' /\ Writes(u, q)'
        OBVIOUS
      <3>1. CASE MayOwn(p, s) /\ MayOwn(q, s)
        BY <1>2, <3>1 DEF Inv, Index
      <3>2. CASE p = r /\ v = Owner(s) /\ MayOwn(q, s)
        BY <1>2, <1>10, <3>2
      <3>3. CASE q = r /\ v = Owner(s) /\ MayOwn(p, s)
        BY <1>2, <1>10, <3>3
      <3> QED
        BY <1>9, <3>1, <3>2, <3>3
    <2>2. \A u \in Transactions, s \in Stores, p, q \in Rows :
            Pending(u, p)' = Owner(s) /\ Pending(u, q)' = Owner(s) => p = q
      <3>1. \A s \in Stores, q \in Rows : v = Owner(s) /\ q # r => Pending(t, q) # Owner(s)
        BY Owners DEF IndexTaken, Sees, Pending, Writes
      <3> QED
        BY <1>2, <3>1 DEF Inv, Index
    <2> QED
      BY <2>1, <2>2 DEF Inv, Index
  <1>18. Checks'
    <2> SUFFICES ASSUME NEW u \in Transactions, NEW s \in Stores
                 PROVE  /\ s \in tx'[u].checks =>
                             Known(u, s)' /\ \A q \in Rows : MayOwn(q, s)' => Writes(u, q)'
                        /\ \A q \in Rows : Writes(u, q)' /\ member'[q] = Owner(s)
                                           => s \in tx'[u].checks
      BY DEF Checks
    <2>1. ASSUME s \in tx'[u].checks, s \notin tx[u].checks
          PROVE  Known(u, s)' /\ \A q \in Rows : MayOwn(q, s)' => Writes(u, q)'
      <3>1. u = t /\ Sees(t, r) = Owner(s) /\ MayOwn(r, s)
        BY <1>1, <1>11, <2>1
      <3>2. Known(t, s)
        BY <3>1, Owners DEF Inv, Held, Sees, Pending, Known
      <3>3. \A q \in Rows : MayOwn(q, s) /\ q # r => Writes(t, q)
        BY <1>5, <3>1 DEF Inv, Index
      <3> QED
        BY <1>2, <1>4, <1>9, <3>1, <3>2, <3>3
    <2>2. ASSUME s \in tx[u].checks
          PROVE  Known(u, s)' /\ \A q \in Rows : MayOwn(q, s)' => Writes(u, q)'
      <3>1. Known(u, s) /\ \A q \in Rows : MayOwn(q, s) => Writes(u, q)
        BY <2>2 DEF Inv, Checks
      <3>2. v = Owner(s) => u = t
        <4>1. SUFFICES ASSUME v = Owner(s), u # t PROVE FALSE
          OBVIOUS
        <4>2. Known(t, s)
          BY <1>8, <4>1, Owners
        <4>3. stores[s] = "live"
          BY <3>1, <4>1, <4>2 DEF Inv, New, Known
        <4>4. PICK o \in Rows : member[o] = Owner(s)
          BY <4>3 DEF Inv, Owned
        <4>5. Writes(u, o) /\ MayOwn(o, s)
          BY <3>1, <4>4 DEF MayOwn
        <4>6. o # r
          BY <1>5, <4>1, <4>5
        <4> QED
          BY <1>10, <4>1, <4>5, <4>6 DEF Inv, Locks
      <3> QED
        BY <1>2, <1>4, <1>9, <3>1, <3>2
    <2>3. \A q \in Rows : Writes(u, q)' /\ member'[q] = Owner(s) => s \in tx'[u].checks
      BY <1>1, <1>2 DEF Inv, Checks, Sees
    <2> QED
      BY <2>1, <2>2, <2>3
  <1>19. Passed'
    <2> SUFFICES ASSUME NEW u \in Transactions
                 PROVE  /\ tx'[u].passed \subseteq tx'[u].checks
                        /\ tx'[u].phase # "commit" => tx'[u].passed = {}
                        /\ \A s \in tx'[u].passed \ tx'[u].deleted :
                              \E q \in Rows : Pending(u, q)' = Owner(s)
      BY DEF Passed
    <2>1. CASE u = t
      BY <1>0, <1>1, <2>1
    <2>2. CASE u # t
      BY <1>1, <1>2, <2>2 DEF Inv, Passed
    <2> QED
      BY <2>1, <2>2
  <1>20. Owned'
    BY DEF Inv, Owned
  <1> QED
    BY <1>12, <1>13, <1>14, <1>15, <1>16, <1>17, <1>18, <1>19, <1>20 DEF Inv

(* The cascade of a deletion, which takes no owner's row. *)
LEMMA DeleteStoreInv ==
  ASSUME Inv, NEW t \in Transactions, NEW x \in Stores, DeleteStore(t, x)
  PROVE  Inv'
  <1> DEFINE cascade == {r \in Rows : Sees(t, r) # NoRow /\ Sees(t, r).store = x}
  <1>1. CASE Rolled(t)
    BY <1>1, RolledInv DEF DeleteStore
  <1>2. CASE ~Rolled(t)
    <2>0. /\ tx[t] \in TxState /\ tx[t].phase = "open" /\ tx[t].passed = {} /\ SeesStore(t, x)
          /\ stores' = stores /\ member' = member
          /\ \A u \in Others(t) : x \notin tx[u].referenced \cup tx[u].deleted
          /\ \A r \in cascade : Unlocked(t, r) /\ Sees(t, r).role # "owner"
          /\ tx' = [tx EXCEPT ![t].deleted = @ \cup {x},
                      ![t].written = [r \in Rows |-> IF r \in cascade THEN NoRow ELSE @[r]]]
      BY <1>2 DEF Inv, Types, Passed, DeleteStore
    <2>s. stores' = stores /\ member' = member
      BY <2>0
    <2>o. \A u \in Others(t) : x \notin tx[u].referenced \cup tx[u].deleted
      BY <2>0
    <2>t. \A u \in Transactions, r \in Rows : Sees(u, r) \in Membership \cup {NoRow}
      BY DEF Inv, Types, TxState, Sees, Writes
    <2>g. PICK goes \in SUBSET Rows : \A r \in Rows :
             (r \in cascade <=> r \in goes) /\ (r \in goes <=> In(Sees(t, r), x))
      <3>1. \A r \in Rows : r \in cascade <=> In(Sees(t, r), x)
        BY <2>t, Owners DEF In
      <3> QED
        BY <3>1
    <2>c. \A r \in Rows : r \in cascade <=> r \in goes
      BY <2>g
    <2>i. \A r \in Rows : r \in goes <=> In(Sees(t, r), x)
      BY <2>g
    <2>n. \A r \in Rows : r \in goes => Unlocked(t, r) /\ \A s \in Stores : Sees(t, r) # Owner(s)
      BY <2>0, <2>c, <2>i, Owners DEF In
    <2>1. \A u \in Transactions :
            /\ tx'[u].inserted = tx[u].inserted /\ tx'[u].checks = tx[u].checks
            /\ tx'[u].passed = tx[u].passed /\ tx'[u].phase = tx[u].phase
            /\ tx'[u].referenced = tx[u].referenced
            /\ \A s \in Stores : s \in tx'[u].deleted <=> s \in tx[u].deleted \/ (u = t /\ s = x)
            /\ \A r \in Rows : tx'[u].written[r] =
                                  IF u = t /\ r \in goes THEN NoRow ELSE tx[u].written[r]
      <3> HIDE DEF cascade
      <3> QED
        BY <2>0, <2>c DEF Inv, Types, TxState
    <2> HIDE DEF cascade
    <2>2. \A u \in Transactions, r \in Rows :
            /\ Pending(u, r)' = IF u = t /\ r \in goes THEN NoRow ELSE Pending(u, r)
            /\ Writes(u, r)' <=> Writes(u, r) \/ (u = t /\ r \in goes)
      <3>1. NoRow # Unwritten
        OBVIOUS
      <3> QED
        BY <2>1, <3>1 DEF Writes, Pending
    <2>3. \A u \in Transactions, r \in Rows :
            Sees(u, r)' = IF u = t /\ r \in goes THEN NoRow ELSE Sees(u, r)
      BY <2>s, <2>1, <2>2 DEF Sees
    <2>4. \A u \in Transactions, s \in Stores : Known(u, s)' <=> Known(u, s)
      BY <2>0, <2>1 DEF Known
    <2>5. \A r \in Rows, s \in Stores : MayOwn(r, s)' => MayOwn(r, s)
      BY <2>0, <2>2, Owners DEF MayOwn
    <2>6. \A u \in Others(t), r \in Rows : r \in goes => ~Writes(u, r)
      BY <2>n DEF Unlocked
    <2>7. \A r \in Rows, s \in Stores : r \in goes => ~MayOwn(r, s) \/ (Writes(t, r) /\ member[r] = Owner(s))
      <3> SUFFICES ASSUME NEW r \in Rows, NEW s \in Stores, r \in goes, MayOwn(r, s)
                   PROVE  Writes(t, r) /\ member[r] = Owner(s)
        OBVIOUS
      <3>1. Sees(t, r) # Owner(s)
        BY <2>n
      <3>2. \A u \in Others(t) : Pending(u, r) # Owner(s)
        BY <2>6, Owners DEF Writes, Pending
      <3> QED
        BY <3>1, <3>2, Owners DEF Sees, MayOwn, Others, Pending, Writes
    <2>8. \A u \in Others(t), r \in Rows : ~In(Pending(u, r), x)
      <3> SUFFICES ASSUME NEW u \in Others(t), NEW r \in Rows, In(Pending(u, r), x) PROVE FALSE
        OBVIOUS
      <3>1. u \in Transactions
        BY DEF Others
      <3>2. In(member[r], x) /\ Writes(u, r)
        BY <2>0, <3>1, Owners DEF Inv, Held, Writes, Pending
      <3>3. ~Writes(t, r)
        BY <3>1, <3>2 DEF Inv, Locks, Others
      <3>4. r \in goes
        BY <2>i, <3>2, <3>3 DEF Sees
      <3> QED
        BY <2>6, <3>2, <3>4
    <2>9. \A u \in Others(t) : x \notin tx[u].checks
      <3> SUFFICES ASSUME NEW u \in Others(t), x \in tx[u].checks PROVE FALSE
        OBVIOUS
      <3>1. u \in Transactions /\ u # t
        BY DEF Others
      <3>2. Known(u, x) /\ \A r \in Rows : MayOwn(r, x) => Writes(u, r)
        BY <3>1 DEF Inv, Checks
      <3>3. stores[x] = "live"
        BY <2>0, <3>1, <3>2 DEF Known, SeesStore, Inv, New
      <3>4. PICK o \in Rows : member[o] = Owner(x)
        BY <3>3 DEF Inv, Owned
      <3>5. Writes(u, o)
        BY <3>2, <3>4 DEF MayOwn
      <3>6. ~Writes(t, o)
        BY <3>1, <3>5 DEF Inv, Locks
      <3>7. o \in goes
        BY <2>i, <3>4, <3>6, Owners DEF Sees
      <3> QED
        BY <2>6, <3>5, <3>7
    <2>10. Types'
      <3>1. tx' \in [Transactions -> TxState]
        BY <2>0 DEF Inv, Types, TxState
      <3> QED
        BY <2>0, <3>1 DEF Inv, Types
    <2>11. Locks'
      BY <2>2, <2>6 DEF Inv, Locks, Others
    <2>12. New' /\ Owned'
      BY <2>s, <2>1 DEF Inv, New, Owned
    <2>13. Gone'
      <3> SUFFICES ASSUME NEW u \in Transactions, NEW s \in Stores, s \in tx'[u].deleted
                   PROVE  /\ Known(u, s)'
                          /\ \A w \in Others(u) : s \notin tx'[w].deleted /\ s \notin tx'[w].checks
                          /\ \A q \in Rows : ~In(Sees(u, q), s)' /\ (In(member[q], s)' => Writes(u, q)')
                          /\ \A w \in Others(u), q \in Rows : ~In(Pending(w, q), s)'
        BY DEF Gone, Others
      <3>1. CASE s \in tx[u].deleted
        <4>1. /\ Known(u, s)
              /\ \A w \in Others(u) : s \notin tx[w].deleted /\ s \notin tx[w].checks
              /\ \A q \in Rows : ~In(Sees(u, q), s) /\ (In(member[q], s) => Writes(u, q))
              /\ \A w \in Others(u), q \in Rows : ~In(Pending(w, q), s)
          BY <3>1 DEF Inv, Gone
        <4>2. \A w \in Others(u) : s \notin tx'[w].deleted /\ s \notin tx'[w].checks
          BY <2>o, <2>1, <3>1, <4>1 DEF Others
        <4>3. \A q \in Rows : ~In(Sees(u, q), s)' /\ (In(member[q], s)' => Writes(u, q)')
          BY <2>0, <2>2, <2>3, <4>1, Owners DEF In
        <4>4. \A w \in Others(u), q \in Rows : ~In(Pending(w, q), s)'
          BY <2>2, <4>1, Owners DEF In, Others
        <4> QED
          BY <2>4, <4>1, <4>2, <4>3, <4>4
      <3>2. CASE s \notin tx[u].deleted
        <4>1. u = t /\ s = x
          BY <2>1, <3>2
        <4>2. Known(u, s)'
          BY <2>0, <2>4, <4>1 DEF SeesStore, Known
        <4>3. \A w \in Others(u) : s \notin tx'[w].deleted /\ s \notin tx'[w].checks
          BY <2>0, <2>1, <2>9, <4>1 DEF Others
        <4>4. \A q \in Rows : ~In(Sees(u, q), s)'
          BY <2>i, <2>3, <4>1, Owners DEF In
        <4>5. \A q \in Rows : In(member[q], s)' => Writes(u, q)'
          BY <2>0, <2>2, <2>i, <4>1 DEF Sees, In
        <4>6. \A w \in Others(u), q \in Rows : ~In(Pending(w, q), s)'
          BY <2>2, <2>8, <4>1 DEF In, Others
        <4> QED
          BY <4>2, <4>3, <4>4, <4>5, <4>6
      <3> QED
        BY <3>1, <3>2
    <2>14. Held'
      BY <2>s, <2>1, <2>2, <2>4, Owners DEF Inv, Held, In
    <2>15. Index'
      <3>1. \A s \in Stores, r, q \in Rows : MayOwn(r, s)' /\ MayOwn(q, s)' /\ r # q =>
              \E u \in Transactions : Writes(u, r)' /\ Writes(u, q)'
        BY <2>2, <2>5 DEF Inv, Index
      <3>2. \A u \in Transactions, s \in Stores, r, q \in Rows :
              Pending(u, r)' = Owner(s) /\ Pending(u, q)' = Owner(s) => r = q
        BY <2>2, Owners DEF Inv, Index
      <3> QED
        BY <2>0, <3>1, <3>2 DEF Inv, Index
    <2>16. Checks'
      <3> SUFFICES ASSUME NEW u \in Transactions, NEW s \in Stores
                   PROVE  /\ s \in tx'[u].checks =>
                               Known(u, s)' /\ \A q \in Rows : MayOwn(q, s)' => Writes(u, q)'
                          /\ \A q \in Rows : Writes(u, q)' /\ member'[q] = Owner(s)
                                             => s \in tx'[u].checks
        BY DEF Checks
      <3>1. s \in tx'[u].checks =>
              Known(u, s)' /\ \A q \in Rows : MayOwn(q, s)' => Writes(u, q)'
        BY <2>1, <2>2, <2>4, <2>5 DEF Inv, Checks
      <3>2. \A q \in Rows : Writes(u, q)' /\ member'[q] = Owner(s) => Writes(u, q)
        BY <2>0, <2>2, <2>7 DEF MayOwn
      <3>3. \A q \in Rows : Writes(u, q)' /\ member'[q] = Owner(s) => s \in tx'[u].checks
        BY <2>0, <2>1, <3>2 DEF Inv, Checks
      <3> QED
        BY <3>1, <3>3
    <2>17. Passed'
      <3> SUFFICES ASSUME NEW u \in Transactions
                   PROVE  /\ tx'[u].passed \subseteq tx'[u].checks
                          /\ tx'[u].phase # "commit" => tx'[u].passed = {}
                          /\ \A s \in tx'[u].passed \ tx'[u].deleted :
                                \E q \in Rows : Pending(u, q)' = Owner(s)
        BY DEF Passed
      <3>1. CASE u = t
        BY <2>0, <2>1, <3>1
      <3>2. CASE u # t
        <4>1. \A q \in Rows : Pending(u, q)' = Pending(u, q)
          BY <2>2, <3>2
        <4>2. tx'[u].passed = tx[u].passed /\ tx[u].passed \in SUBSET Stores
          BY <2>1 DEF Inv, Types, TxState
        <4> QED
          BY <2>1, <3>2, <4>1, <4>2 DEF Inv, Passed
      <3> QED
        BY <3>1, <3>2
    <2> QED
      BY <2>10, <2>11, <2>12, <2>13, <2>14, <2>15, <2>16, <2>17 DEF Inv
  <1> QED
    BY <1>1, <1>2

(* What a transaction holds and has checked is still so when it commits. *)
LEMMA CommitInv ==
  ASSUME Inv, NEW t \in Transactions, Commit(t)
  PROVE  Inv'
  <1>1. \A u \in Transactions : tx'[u] = IF u = t THEN Idle ELSE tx[u]
    BY DEF Commit, Rolled, Inv, Types
  <1>2. \A u \in Transactions, r \in Rows :
          /\ Writes(u, r)' <=> u # t /\ Writes(u, r)
          /\ Pending(u, r)' = IF u = t THEN Unwritten ELSE Pending(u, r)
    BY <1>1, Idles DEF Writes, Pending
  <1>3. \A r \in Rows : member'[r] = Sees(t, r)
    BY DEF Commit
  <1>4. \A s \in Stores : stores'[s] = IF s \in tx[t].deleted THEN "gone"
                                       ELSE IF s \in tx[t].inserted THEN "live" ELSE stores[s]
    BY DEF Commit
  <1>5. tx[t].checks \subseteq tx[t].passed
    BY DEF Commit
  <1>6. \A r \in Rows : ~Writes(t, r) => member'[r] = member[r]
    BY <1>3 DEF Sees
  <1>7. \A r \in Rows : Writes(t, r) => member'[r] = Pending(t, r)
    BY <1>3 DEF Sees, Pending
  <1>8. \A u \in Transactions, r \in Rows : Writes(u, r) /\ u # t => member'[r] = member[r]
    BY <1>6 DEF Inv, Locks
  <1>9. \A r \in Rows, s \in Stores : MayOwn(r, s)' => MayOwn(r, s)
    BY <1>2, <1>3, Owners DEF MayOwn, Sees, Pending
  <1>10. \A u \in Transactions, s \in Stores : u # t /\ s \notin tx[t].deleted /\ Known(u, s)
           => Known(u, s)'
    BY <1>1, <1>4 DEF Known
  <1>11. Types'
    <2>1. tx' \in [Transactions -> TxState]
      BY Idles DEF Inv, Types, Commit, Rolled
    <2>2. \A r \in Rows : Sees(t, r) \in Membership \cup {NoRow}
      BY DEF Inv, Types, TxState, Sees, Writes
    <2>3. member' \in [Rows -> Membership \cup {NoRow}]
      BY <2>2 DEF Commit
    <2>4. stores' \in [Stores -> {"free", "live", "gone"}]
      BY DEF Inv, Types, Commit
    <2> QED
      BY <2>1, <2>3, <2>4 DEF Types
  <1>12. Locks'
    BY <1>2 DEF Inv, Locks
  <1>13. New'
    <2> SUFFICES ASSUME NEW u \in Transactions, NEW s \in Stores, s \in tx'[u].inserted
                 PROVE  /\ stores'[s] = "free" /\ s \in tx'[u].checks
                        /\ \A w \in Transactions : s \in tx'[w].inserted => w = u
      BY DEF New
    <2>1. u # t /\ s \in tx[u].inserted
      BY <1>1, Idles
    <2>2. /\ stores[s] = "free" /\ s \in tx[u].checks
          /\ \A w \in Transactions : s \in tx[w].inserted => w = u
      BY <2>1 DEF Inv, New
    <2>3. s \notin tx[t].deleted
      BY <2>1, <2>2 DEF Inv, Gone, Others
    <2> QED
      BY <1>1, <1>4, <2>1, <2>2, <2>3, Idles
  <1>14. Gone'
    <2> SUFFICES ASSUME NEW u \in Transactions, NEW s \in Stores, s \in tx'[u].deleted
                 PROVE  /\ Known(u, s)'
                        /\ \A w \in Others(u) : s \notin tx'[w].deleted /\ s \notin tx'[w].checks
                        /\ \A r \in Rows : ~In(Sees(u, r), s)' /\ (In(member[r], s)' => Writes(u, r)')
                        /\ \A w \in Others(u), r \in Rows : ~In(Pending(w, r), s)'
      BY DEF Gone, Others
    <2>1. u # t /\ s \in tx[u].deleted
      BY <1>1, Idles
    <2>2. /\ Known(u, s)
          /\ \A w \in Others(u) : s \notin tx[w].deleted /\ s \notin tx[w].checks
          /\ \A r \in Rows : ~In(Sees(u, r), s) /\ (In(member[r], s) => Writes(u, r))
          /\ \A w \in Others(u), r \in Rows : ~In(Pending(w, r), s)
      BY <2>1 DEF Inv, Gone
    <2>3. t \in Others(u)
      BY <2>1 DEF Others
    <2>4. Known(u, s)'
      BY <1>10, <2>1, <2>2, <2>3
    <2>5. \A w \in Others(u) : s \notin tx'[w].deleted /\ s \notin tx'[w].checks
      BY <1>1, <2>2, Idles DEF Others
    <2>6. \A r \in Rows : In(member[r], s)' => Writes(u, r)'
      BY <1>2, <1>6, <1>7, <2>1, <2>2, <2>3 DEF In
    <2>7. \A r \in Rows : ~In(Sees(u, r), s)'
      <3>1. \A r \in Rows : Writes(u, r) => Sees(u, r)' = Sees(u, r)
        BY <1>1, <1>2, <2>1 DEF Sees
      <3>2. \A r \in Rows : ~Writes(u, r) => Sees(u, r)' = member'[r]
        BY <1>2 DEF Sees
      <3> QED
        BY <1>2, <2>2, <2>6, <3>1, <3>2 DEF In
    <2>8. \A w \in Others(u), r \in Rows : ~In(Pending(w, r), s)'
      BY <1>2, <2>2, Owners DEF In, Others
    <2> QED
      BY <2>4, <2>5, <2>6, <2>7, <2>8
  <1>15. Held'
    <2>1. \A r \in Rows, s \in Stores : In(member[r], s)' => stores'[s] = "live"
      <3> SUFFICES ASSUME NEW r \in Rows, NEW s \in Stores, In(Sees(t, r), s)
                   PROVE  stores'[s] = "live"
        BY <1>3 DEF In
      <3>1. Known(t, s)
        BY DEF Inv, Held, Sees, Pending, Known
      <3>2. s \notin tx[t].deleted
        BY DEF Inv, Gone
      <3> QED
        BY <1>4, <3>1, <3>2 DEF Known
    <2>2. ASSUME NEW u \in Transactions, NEW r \in Rows, NEW s \in Stores, In(Pending(u, r), s)'
          PROVE  Known(u, s)' /\ (s \in tx'[u].referenced \/ In(member[r], s)')
      <3>1. u # t /\ In(Pending(u, r), s) /\ Writes(u, r)
        BY <1>2, <2>2, Owners DEF In, Writes, Pending
      <3>2. Known(u, s) /\ (s \in tx[u].referenced \/ In(member[r], s))
        BY <3>1 DEF Inv, Held
      <3>3. s \notin tx[t].deleted
        BY <3>1 DEF Inv, Gone, Others
      <3>4. member'[r] = member[r]
        BY <1>8, <3>1
      <3> QED
        BY <1>1, <1>10, <3>1, <3>2, <3>3, <3>4 DEF In
    <2> QED
      BY <2>1, <2>2 DEF Held, In
  <1>16. Index'
    <2>1. \A s \in Stores, r, q \in Rows : MayOwn(r, s)' /\ MayOwn(q, s)' /\ r # q =>
            \E u \in Transactions : u # t /\ Writes(u, r) /\ Writes(u, q)
      <3> SUFFICES ASSUME NEW s \in Stores, NEW r \in Rows, NEW q \in Rows,
                          MayOwn(r, s)', MayOwn(q, s)', r # q
                   PROVE  \E u \in Transactions : u # t /\ Writes(u, r) /\ Writes(u, q)
        OBVIOUS
      <3>1. PICK u \in Transactions : Writes(u, r) /\ Writes(u, q)
        BY <1>9 DEF Inv, Index
      <3>2. u # t
        <4>1. SUFFICES ASSUME u = t PROVE FALSE
          OBVIOUS
        <4>2. \A w \in Transactions : w # t => ~Writes(w, r) /\ ~Writes(w, q)
          BY <3>1, <4>1 DEF Inv, Locks
        <4>3. member'[r] = Owner(s) /\ member'[q] = Owner(s)
          BY <1>2, <4>2, Owners DEF MayOwn, Writes, Pending
        <4>4. Pending(t, r) = Owner(s) /\ Pending(t, q) = Owner(s)
          BY <1>7, <3>1, <4>1, <4>3
        <4> QED
          BY <4>4 DEF Inv, Index
      <3> QED
        BY <3>1, <3>2
    <2>2. \A s \in Stores, r, q \in Rows : member'[r] = Owner(s) /\ member'[q] = Owner(s) => r = q
      <3> SUFFICES ASSUME NEW s \in Stores, NEW r \in Rows, NEW q \in Rows,
                          member'[r] = Owner(s), member'[q] = Owner(s), r # q
                   PROVE  FALSE
        OBVIOUS
      <3>1. PICK u \in Transactions : u # t /\ Writes(u, r) /\ Writes(u, q)
        BY <2>1 DEF MayOwn
      <3>2. member[r] = Owner(s) /\ member[q] = Owner(s)
        BY <1>8, <3>1
      <3> QED
        BY <3>2 DEF Inv, Index
    <2>3. \A u \in Transactions, s \in Stores, r, q \in Rows :
            Pending(u, r)' = Owner(s) /\ Pending(u, q)' = Owner(s) => r = q
      BY <1>2, Owners DEF Inv, Index
    <2>4. \A s \in Stores, r, q \in Rows : MayOwn(r, s)' /\ MayOwn(q, s)' /\ r # q =>
            \E u \in Transactions : Writes(u, r)' /\ Writes(u, q)'
      BY <1>2, <2>1
    <2> QED
      BY <2>2, <2>3, <2>4 DEF Index
  <1>17. Checks'
    <2> SUFFICES ASSUME NEW u \in Transactions, NEW s \in Stores, u # t
                 PROVE  /\ s \in tx'[u].checks =>
                             Known(u, s)' /\ \A r \in Rows : MayOwn(r, s)' => Writes(u, r)'
                        /\ \A r \in Rows : Writes(u, r)' /\ member'[r] = Owner(s)
                                           => s \in tx'[u].checks
      BY <1>1, <1>2, Idles DEF Checks
    <2>1. s \in tx[u].checks => s \notin tx[t].deleted
      BY DEF Inv, Gone, Others
    <2>2. s \in tx[u].checks => Known(u, s) /\ \A r \in Rows : MayOwn(r, s) => Writes(u, r)
      BY DEF Inv, Checks
    <2>3. s \in tx'[u].checks =>
            Known(u, s)' /\ \A r \in Rows : MayOwn(r, s)' => Writes(u, r)'
      BY <1>1, <1>2, <1>9, <1>10, <2>1, <2>2
    <2>4. \A r \in Rows : Writes(u, r)' /\ member'[r] = Owner(s) => s \in tx'[u].checks
      BY <1>1, <1>2, <1>8 DEF Inv, Checks
    <2> QED
      BY <2>3, <2>4
  <1>18. Passed'
    BY <1>1, <1>2, Idles DEF Inv, Passed
  <1>19. Owned'
    <2> SUFFICES ASSUME NEW s \in Stores, stores'[s] = "live" PROVE \E r \in Rows : member'[r] = Owner(s)
      BY DEF Owned
    <2>1. s \notin tx[t].deleted
      BY <1>4
    <2>2. CASE s \in tx[t].checks
      <3>1. PICK r \in Rows : Pending(t, r) = Owner(s)
        BY <1>5, <2>1, <2>2 DEF Inv, Passed
      <3>2. Writes(t, r)
        BY <3>1, Owners DEF Writes, Pending
      <3> QED
        BY <1>7, <3>1, <3>2
    <2>3. CASE s \notin tx[t].checks
      <3>1. s \notin tx[t].inserted
        BY <2>3 DEF Inv, New
      <3>2. PICK o \in Rows : member[o] = Owner(s)
        BY <1>4, <2>1, <3>1 DEF Inv, Owned
      <3>3. ~Writes(t, o)
        BY <2>3, <3>2 DEF Inv, Checks
      <3> QED
        BY <1>6, <3>2, <3>3
    <2> QED
      BY <2>2, <2>3
  <1> QED
    BY <1>11, <1>12, <1>13, <1>14, <1>15, <1>16, <1>17, <1>18, <1>19 DEF Inv

LEMMA CheckInv ==
  ASSUME Inv, NEW t \in Transactions, NEW x \in Stores, Check(t, x)
  PROVE  Inv'
  <1>1. CASE Rolled(t)
    BY <1>1, RolledInv DEF Check
  <1>2. CASE ~Rolled(t)
    <2>1. /\ tx[t].phase = "commit" /\ x \in tx[t].checks /\ HasOneOwner(t, x)
          /\ UNCHANGED <<stores, member>>
          /\ tx' = [tx EXCEPT ![t].passed = @ \cup {x}]
      BY <1>2 DEF Check
    <2>2. PICK c \in TxState : c = [tx[t] EXCEPT !.passed = @ \cup {x}]
      BY DEF Inv, Types, TxState
    <2>3. /\ c.written = tx[t].written /\ c.inserted = tx[t].inserted /\ c.phase = "commit"
          /\ c.deleted = tx[t].deleted /\ c.referenced = tx[t].referenced
          /\ c.checks = tx[t].checks /\ c.passed = tx[t].passed \cup {x}
      BY <2>1, <2>2 DEF Inv, Types, TxState
    <2>4. tx' = [tx EXCEPT ![t] = c]
      BY <2>1, <2>2 DEF Inv, Types, TxState
    <2>5. x \notin tx[t].deleted => \E r \in Rows : tx[t].written[r] = Owner(x)
      <3> SUFFICES ASSUME x \notin tx[t].deleted
                   PROVE  \E r \in Rows : tx[t].written[r] = Owner(x)
        OBVIOUS
      <3>1. Known(t, x) /\ \A r \in Rows : MayOwn(r, x) => Writes(t, r)
        BY <2>1 DEF Inv, Checks
      <3>2. PICK r \in Rows : Sees(t, r) = Owner(x)
        BY <2>1, <3>1 DEF Known, SeesStore, HasOneOwner
      <3>3. Writes(t, r)
        BY <3>1, <3>2 DEF Sees, MayOwn, Pending
      <3> QED
        BY <3>2, <3>3 DEF Sees
    <2>6. tx[t].passed \subseteq tx[t].checks
      BY DEF Inv, Passed
    <2>7. \A s \in tx[t].passed \ tx[t].deleted : \E r \in Rows : tx[t].written[r] = Owner(s)
      BY DEF Inv, Passed, Pending
    <2>8. c.passed \subseteq c.checks
      BY <2>1, <2>3, <2>6
    <2>9. \A s \in c.passed \ c.deleted : \E r \in Rows : c.written[r] = Owner(s)
      BY <2>3, <2>5, <2>7
    <2> QED
      BY <2>1, <2>3, <2>4, <2>8, <2>9, QuietInv
  <1> QED
    BY <1>1, <1>2

LEMMA BeginInv ==
  ASSUME Inv, NEW t \in Transactions, Begin(t) \/ BeginCommit(t)
  PROVE  Inv'
  <1>1. PICK p \in {"open", "commit"} :
          tx' = [tx EXCEPT ![t].phase = p] /\ UNCHANGED <<stores, member>> /\ tx[t].phase # "commit"
    BY DEF Begin, BeginCommit
  <1>2. PICK c \in TxState : c = [tx[t] EXCEPT !.phase = p]
    BY DEF Inv, Types, TxState
  <1>3. /\ c.written = tx[t].written /\ c.inserted = tx[t].inserted
        /\ c.deleted = tx[t].deleted /\ c.referenced = tx[t].referenced
        /\ c.checks = tx[t].checks /\ c.passed = tx[t].passed
    BY <1>2 DEF Inv, Types, TxState
  <1>4. tx' = [tx EXCEPT ![t] = c]
    BY <1>1, <1>2 DEF Inv, Types, TxState
  <1>5. c.passed = {}
    BY <1>1, <1>3 DEF Inv, Passed
  <1> QED
    BY <1>1, <1>3, <1>4, <1>5, QuietInv

LEMMA SetMembershipInv ==
  ASSUME Inv, NEW t \in Transactions, NEW r \in Rows, NEW v \in Membership, SetMembership(t, r, v)
  PROVE  Inv'
  <1>1. CASE Rolled(t)
    BY <1>1, RolledInv DEF SetMembership
  <1>2. CASE ~Rolled(t)
    <2>1. PICK refs \in SUBSET Stores : refs = NewReferences(t, r, v)
      BY Owners DEF NewReferences
    <2>2. /\ tx[t].phase = "open" /\ Unlocked(t, r) /\ UNCHANGED <<stores, member>>
          /\ v.role = "owner" => IndexFree(t, r, v.store)
          /\ \A s \in refs : Referable(t, s)
          /\ v.role = "owner" => ~IndexTaken(t, r, v.store)
          /\ Write(t, r, v, refs)
      BY <1>2, <2>1 DEF SetMembership
    <2>3. Sees(t, r) \in Membership \cup {NoRow}
      BY DEF Inv, Types, TxState, Sees, Writes
    <2>4. \A s \in Stores : In(v, s) => (s \in refs /\ Referable(t, s)) \/ In(Sees(t, r), s)
      BY <2>1, <2>2, <2>3 DEF NewReferences, In
    <2>5. \A s \in Stores : v = Owner(s) => IndexFree(t, r, s) /\ ~IndexTaken(t, r, s)
      BY <2>2, Owners
    <2> QED
      BY <2>2, <2>4, <2>5, WriteInv
  <1> QED
    BY <1>1, <1>2

LEMMA DeleteMembershipInv ==
  ASSUME Inv, NEW t \in Transactions, NEW r \in Rows, DeleteMembership(t, r)
  PROVE  Inv'
  <1>1. CASE Rolled(t)
    BY <1>1, RolledInv DEF DeleteMembership
  <1>2. CASE ~Rolled(t)
    <2>1. /\ tx[t].phase = "open" /\ Unlocked(t, r) /\ UNCHANGED <<stores, member>>
          /\ Write(t, r, NoRow, {})
      BY <1>2 DEF DeleteMembership
    <2>2. \A s \in Stores : ~In(NoRow, s) /\ NoRow # Owner(s)
      BY Owners
    <2> QED
      BY <2>1, <2>2, WriteInv
  <1> QED
    BY <1>1, <1>2

LEMMA NextInv == Inv /\ [OwnershipNext]_ownershipVars => Inv'
  <1> SUFFICES ASSUME Inv, [OwnershipNext]_ownershipVars PROVE Inv'
    OBVIOUS
  <1>1. CASE OwnershipNext
    <2>1. PICK t \in Transactions : TxNext(t)
      BY <1>1 DEF OwnershipNext
    <2>2. CASE Begin(t) \/ BeginCommit(t)
      BY <2>2, BeginInv
    <2>3. CASE Commit(t)
      BY <2>3, CommitInv
    <2>4. CASE Rollback(t)
      BY <2>4, RolledInv DEF Rollback
    <2>5. CASE \E s \in Stores : InsertStore(t, s) \/ DeleteStore(t, s) \/ Check(t, s)
      BY <2>5, InsertStoreInv, DeleteStoreInv, CheckInv
    <2>6. CASE \E r \in Rows : DeleteMembership(t, r) \/ \E v \in Membership : SetMembership(t, r, v)
      BY <2>6, DeleteMembershipInv, SetMembershipInv
    <2> QED
      BY <2>1, <2>2, <2>3, <2>4, <2>5, <2>6 DEF TxNext
  <1>2. CASE UNCHANGED ownershipVars
    <2>1. UNCHANGED <<stores, member, tx>>
      BY <1>2 DEF ownershipVars
    <2>2. CASE Transactions = {}
      <3>1. Types' /\ Owned'
        BY <2>1 DEF Inv, Types, Owned
      <3>2. Locks' /\ New' /\ Gone' /\ Held' /\ Index' /\ Checks' /\ Passed'
        BY <2>1, <2>2 DEF Inv, Locks, New, Gone, Held, Index, Checks, Passed, In, MayOwn
      <3> QED
        BY <3>1, <3>2 DEF Inv
    <2>3. CASE Transactions # {}
      <3>1. PICK t \in Transactions : TRUE
        BY <2>3
      <3>2. PICK c \in TxState : c = tx[t]
        BY DEF Inv, Types
      <3>3. tx' = [tx EXCEPT ![t] = c]
        BY <2>1, <3>2 DEF Inv, Types
      <3>4. /\ c.passed \subseteq c.checks /\ (c.phase # "commit" => c.passed = {})
            /\ \A s \in c.passed \ c.deleted : \E r \in Rows : c.written[r] = Owner(s)
        BY <3>2 DEF Inv, Passed, Pending
      <3> QED
        BY <2>1, <3>2, <3>3, <3>4, QuietInv
    <2> QED
      BY <2>2, <2>3
  <1> QED
    BY <1>1, <1>2

-----------------------------------------------------------------------------
THEOREM OwnershipInv == OwnershipSpec => []Inv
  BY InitInv, NextInv, PTL DEF OwnershipSpec

(* The tables and the transactions have their types, and no Membership
   outlives its Store: nobody refers to a Store that another deletes. *)
THEOREM OwnershipTypes == OwnershipSpec => []OwnershipTypeOK
  <1>1. Inv => OwnershipTypeOK
    <2> SUFFICES ASSUME Inv PROVE OwnershipTypeOK
      OBVIOUS
    <2>1. \A r \in Rows : member[r] # NoRow => stores[member[r].store] = "live"
      <3> SUFFICES ASSUME NEW r \in Rows, member[r] # NoRow PROVE stores[member[r].store] = "live"
        OBVIOUS
      <3>1. member[r] \in Membership
        BY DEF Inv, Types
      <3> QED
        BY <3>1, Owners DEF Inv, Held, In
    <2> QED
      BY <2>1 DEF Inv, Types, OwnershipTypeOK
  <1> QED
    BY <1>1, OwnershipInv, PTL

(* Every Store has exactly one Owner, whatever transactions ran at once
   (applySchema's four parts). *)
THEOREM OneOwner == OwnershipSpec => []ExactlyOneOwner
  <1>1. Inv => ExactlyOneOwner
    BY DEF Inv, Owned, Index, ExactlyOneOwner
  <1> QED
    BY <1>1, OwnershipInv, PTL

-----------------------------------------------------------------------------
(***************************************************************************)
(* For any number of runs, accounts, changes and failures: StripeAccount   *)
(* is type-correct, only the saved account is read and linked, and an old  *)
(* answer never undoes a newer one.                                        *)
(*                                                                         *)
(* The last of these rests on the order of the tickets (Ordered): a read   *)
(* with a later ticket was begun later, what is stored was seen after      *)
(* every read with an earlier ticket was begun, and no read that ended     *)
(* was begun after one that may still be recorded.                         *)
(***************************************************************************)

Reads(r)  == run[r].pc \in {"ask", "record"}
HoldsSaved(q) ==
  /\ q.pc \in {"ask", "record", "show", "link"} => q.account = saved /\ saved # NoAccount
  /\ q.pc = "save" => q.account \in 1..made

OwnAccount ==
  /\ linked \subseteq {saved}
  /\ key = "made" => made > 0
  /\ \A r \in Runs : HoldsSaved(run[r])

(* What one read knows: where it stands among the others. *)
InOrder(q) ==
  /\ q.read <= tickets /\ q.at <= changes
  /\ q.pc = "record" => q.at <= q.reading.seen /\ q.reading.seen <= changes
  /\ q.read <= status.read => q.at <= status.reading.seen
  /\ q.read > status.read => begun <= q.at

Ordered ==
  /\ status.read <= tickets /\ begun <= changes /\ status.reading.seen <= changes
  /\ \A r \in Runs : Reads(r) => InOrder(run[r])
  /\ \A r, s \in Runs : Reads(r) /\ Reads(s) /\ run[r].read <= run[s].read
                          => run[r].at <= run[s].at

AccountInv == TypeOK /\ OwnAccount /\ Ordered /\ NeverOlderThanARead

-----------------------------------------------------------------------------
USE StripeAccountAssumption

LEMMA NewRunType ==
  /\ NoRead \in Reading /\ NewRun \in RunState
  /\ \A pc \in Steps : /\ [NewRun EXCEPT !.pc = pc] \in RunState
                       /\ [NewRun EXCEPT !.pc = pc].pc = pc
  BY DEF NoRead, Reading, NewRun, RunState, Steps, Outcomes, CardStatuses, NoAccount

LEMMA StepType ==
  ASSUME NEW q \in RunState, NEW pc \in Steps
  PROVE  /\ [q EXCEPT !.pc = pc] \in RunState
         /\ \A a \in Nat : [q EXCEPT !.pc = pc, !.account = a] \in RunState
  BY DEF RunState

LEMMA ReadType ==
  ASSUME NEW q \in RunState, NEW g \in Reading, NEW n \in {"idle", "show", "link"} \cup Outcomes
  PROVE  [q EXCEPT !.pc = "record", !.next = n, !.reading = g] \in RunState
  BY DEF RunState, Steps

LEMMA TicketType ==
  ASSUME NEW q \in RunState, NEW kind \in {"connect", "page", "event"},
         NEW a \in Nat, NEW n \in Nat, NEW c \in Nat, NEW e \in Nat
  PROVE  [q EXCEPT !.pc = "ask", !.kind = kind, !.account = a, !.read = n, !.at = c,
                   !.event = e] \in RunState
  BY DEF RunState, Steps

LEMMA StripeAccountInit == Init => AccountInv
  <1> SUFFICES ASSUME Init PROVE AccountInv
    OBVIOUS
  <1>1. \A r \in Runs : run[r] = NewRun /\ run[r].pc = "idle"
    BY DEF Init, NewRun
  <1>2. NoRead.seen = 0 /\ status.reading = NoRead
    BY DEF NoRead, Init
  <1>3. TypeOK
    BY NewRunType DEF Init, TypeOK, Ids, NoAccount
  <1>4. OwnAccount
    BY <1>1 DEF Init, OwnAccount, HoldsSaved
  <1>5. Ordered /\ NeverOlderThanARead
    BY <1>1, <1>2 DEF Init, Ordered, Reads, NeverOlderThanARead
  <1> QED
    BY <1>3, <1>4, <1>5 DEF AccountInv

(* The variables that only have a type. *)
Rest == /\ key' \in {"free", "running", "error", "made"}
        /\ key' = "made" => made' > 0
        /\ accounts' \in [Ids -> Account]
        /\ events' \subseteq [account : Ids, at : Nat]
        /\ requests' \in 0..MaxRequests /\ faults' \in 0..MaxFaults

(* A step after which run r is no read keeps the invariant if what r has then
   is the saved account. *)
LEMMA RunStep ==
  ASSUME AccountInv, NEW r \in Runs, NEW s \in RunState, run' = [run EXCEPT ![r] = s],
         UNCHANGED <<saved, status, tickets, made, changes, begun>>, Rest,
         linked' \subseteq linked \cup {saved}, linked' \subseteq Ids,
         s.pc \notin {"ask", "record"}, HoldsSaved(s)
  PROVE  AccountInv'
  <1>1. \A q \in Runs : run'[q] = IF q = r THEN s ELSE run[q]
    BY DEF AccountInv, TypeOK
  <1>2. TypeOK'
    BY DEF AccountInv, TypeOK, Rest
  <1>3. OwnAccount'
    BY <1>1 DEF AccountInv, OwnAccount, HoldsSaved, Rest
  <1>4. Ordered' /\ NeverOlderThanARead'
    BY <1>1 DEF AccountInv, Ordered, Reads, InOrder, NeverOlderThanARead
  <1> QED
    BY <1>2, <1>3, <1>4 DEF AccountInv

(* Runs that end, or go on without reading. *)
LEMMA EndStep ==
  ASSUME AccountInv, NEW r \in Runs, NEW pc \in Outcomes \cup {"idle"}, End(r, pc),
         UNCHANGED <<saved, status, tickets, made, changes, begun>>, Rest,
         linked' \subseteq linked \cup {saved}, linked' \subseteq Ids
  PROVE  AccountInv'
  <1>1. PICK s \in RunState : s = [NewRun EXCEPT !.pc = pc]
    BY NewRunType DEF Steps
  <1>2. s.pc = pc
    BY <1>1, NewRunType DEF Steps
  <1>3. s.pc \notin {"ask", "record", "show", "link", "save"}
    BY <1>2 DEF Outcomes
  <1>4. run' = [run EXCEPT ![r] = s]
    BY <1>1 DEF End
  <1> QED
    BY <1>3, <1>4, RunStep DEF HoldsSaved

LEMMA GotoStep ==
  ASSUME AccountInv, NEW r \in Runs, NEW pc \in {"creating", "show"}, Goto(r, pc),
         pc = "show" => run[r].pc = "ask",
         UNCHANGED <<saved, status, tickets, made, changes, begun, linked>>, Rest
  PROVE  AccountInv'
  <1>1. run[r] \in RunState /\ HoldsSaved(run[r]) /\ linked \subseteq Ids
    BY DEF AccountInv, TypeOK, OwnAccount
  <1>2. PICK s \in RunState : s = [run[r] EXCEPT !.pc = pc]
    BY <1>1, StepType DEF Steps, RunState
  <1>3. s.pc = pc /\ s.account = run[r].account
    BY <1>1, <1>2 DEF RunState
  <1>4. run' = [run EXCEPT ![r] = s]
    BY <1>2 DEF Goto
  <1>5. HoldsSaved(s)
    BY <1>1, <1>3 DEF HoldsSaved
  <1> QED
    BY <1>1, <1>3, <1>4, <1>5, RunStep

LEMMA SameAccountStep ==
  ASSUME AccountInv, NEW r \in Runs, SameAccount(r), key = "made",
         UNCHANGED <<saved, status, tickets, made, changes, begun, linked>>, Rest
  PROVE  AccountInv'
  <1>1. run[r] \in RunState /\ linked \subseteq Ids /\ made \in Nat /\ made > 0
    BY DEF AccountInv, TypeOK, OwnAccount
  <1>2. PICK s \in RunState : s = [run[r] EXCEPT !.pc = "save", !.account = made]
    BY <1>1, StepType DEF Steps
  <1>3. s.pc = "save" /\ s.account = made
    BY <1>1, <1>2 DEF RunState
  <1>4. run' = [run EXCEPT ![r] = s]
    BY <1>2 DEF SameAccount
  <1>5. HoldsSaved(s)
    BY <1>1, <1>3 DEF HoldsSaved
  <1> QED
    BY <1>1, <1>3, <1>4, <1>5, RunStep

(* A read is begun: its ticket is later than any other. *)
LEMMA TicketStep ==
  ASSUME AccountInv, NEW r \in Runs, NEW kind \in {"connect", "page", "event"}, NEW e \in Nat,
         saved # NoAccount, TakeTicket(r, kind, e),
         UNCHANGED <<saved, status, stripe, linked, begun>>, Rest
  PROVE  AccountInv'
  <1>0. /\ saved \in Nat /\ tickets \in Nat /\ changes \in Nat /\ begun \in Nat
        /\ status.read \in Nat /\ status.reading.seen \in Nat
    BY DEF AccountInv, TypeOK, Reading
  <1>1. PICK s \in RunState :
          s = [NewRun EXCEPT !.pc = "ask", !.kind = kind, !.account = saved,
                             !.read = tickets + 1, !.at = changes, !.event = e]
    <2>1. NewRun \in RunState /\ tickets + 1 \in Nat
      BY <1>0, NewRunType
    <2> DEFINE t == [NewRun EXCEPT !.pc = "ask", !.kind = kind, !.account = saved,
                                   !.read = tickets + 1, !.at = changes, !.event = e]
    <2>2. t \in RunState
      BY <1>0, <2>1, TicketType
    <2> QED
      BY <2>2
  <1>2. /\ s.pc = "ask" /\ s.account = saved /\ s.read = tickets + 1 /\ s.at = changes
    BY <1>1, NewRunType DEF RunState
  <1>3. \A q \in Runs : run'[q] = IF q = r THEN s ELSE run[q]
    BY <1>1 DEF AccountInv, TypeOK, TakeTicket
  <1>4. tickets' = tickets + 1 /\ run' \in [Runs -> RunState]
    BY <1>3, <1>1 DEF AccountInv, TypeOK, TakeTicket
  <1>5. TypeOK'
    BY <1>0, <1>4 DEF AccountInv, TypeOK, Rest, stripe
  <1>6. OwnAccount'
    BY <1>2, <1>3 DEF AccountInv, OwnAccount, HoldsSaved, stripe
  <1>7. \A q \in Runs : Reads(q) => run[q].read \in Nat /\ run[q].read <= tickets
                                   /\ run[q].at \in Nat /\ run[q].at <= changes
    BY DEF AccountInv, TypeOK, Ordered, InOrder, RunState
  <1>8. \A q \in Runs : Reads(q)' => InOrder(run[q])'
    <2> SUFFICES ASSUME NEW q \in Runs, Reads(q)' PROVE InOrder(run[q])'
      OBVIOUS
    <2>1. CASE q = r
      BY <2>1, <1>0, <1>2, <1>3, <1>4 DEF InOrder, AccountInv, Ordered, stripe
    <2>2. CASE q # r
      <3>1. Reads(q) /\ run'[q] = run[q]
        BY <2>2, <1>3 DEF Reads
      <3> QED
        BY <3>1, <1>0, <1>4, <1>7 DEF InOrder, AccountInv, Ordered, stripe
    <2> QED
      BY <2>1, <2>2
  <1>9. \A p, q \in Runs : Reads(p)' /\ Reads(q)' /\ run'[p].read <= run'[q].read
                              => run'[p].at <= run'[q].at
    BY <1>0, <1>2, <1>3, <1>7 DEF AccountInv, Ordered, Reads
  <1>10. Ordered'
    BY <1>0, <1>4, <1>8, <1>9 DEF AccountInv, Ordered, stripe
  <1> QED
    BY <1>5, <1>6, <1>10 DEF AccountInv, NeverOlderThanARead

(* Stripe answers a read. *)
LEMMA RetrieveInv == ASSUME AccountInv, NEW r \in Runs, Retrieve(r) PROVE AccountInv'
  <1> DEFINE a == accounts[run[r].account]
  <1>0. /\ run[r] \in RunState /\ run[r].pc = "ask" /\ changes \in Nat
        /\ run[r].account \in Ids /\ a \in Account
    BY DEF AccountInv, TypeOK, OwnAccount, HoldsSaved, Retrieve, Ids, NoAccount
  <1>1. PICK g \in Reading : /\ g = IF a.readable THEN Summary(a) ELSE Missing
                             /\ g.seen = changes
    <2>1. Summary(a) \in Reading /\ Summary(a).seen = changes
      BY <1>0 DEF Reading, Summary, CanTakePayments, Account
    <2>2. Missing \in Reading /\ Missing.seen = changes
      BY <1>0 DEF Reading, Missing, NoRead, CardStatuses
    <2> QED
      BY <2>1, <2>2
  <1>2. PICK n \in {"idle", "show", "link"} \cup Outcomes : n = AfterReading(r, a)
    <2>1. run[r].kind \in {"page", "event", "connect"}
      BY <1>0 DEF RunState
    <2> QED BY <2>1 DEF AfterReading, Outcomes
  <1>3. PICK s \in RunState : s = [run[r] EXCEPT !.pc = "record", !.next = n, !.reading = g]
    BY <1>0, ReadType
  <1>4. /\ s.pc = "record" /\ s.reading = g /\ s.account = run[r].account
        /\ s.read = run[r].read /\ s.at = run[r].at
    BY <1>0, <1>3 DEF RunState
  <1>5. run' = [run EXCEPT ![r] = s]
    BY <1>1, <1>2, <1>3 DEF Retrieve
  <1>6. \A q \in Runs : run'[q] = IF q = r THEN s ELSE run[q]
    BY <1>5 DEF AccountInv, TypeOK
  <1>7. TypeOK'
    BY <1>5 DEF AccountInv, TypeOK, Retrieve, store, stripe
  <1>8. OwnAccount'
    BY <1>0, <1>4, <1>6 DEF AccountInv, OwnAccount, HoldsSaved, Retrieve, store, stripe
  <1>9. Ordered'
    <2>1. UNCHANGED <<tickets, changes, status, begun>>
      BY DEF Retrieve, store, stripe
    <2>2. InOrder(run[r])
      BY <1>0 DEF AccountInv, Ordered, Reads
    <2>3. InOrder(s)'
      BY <1>0, <1>1, <1>4, <2>1, <2>2 DEF InOrder
    <2>4. \A q \in Runs : Reads(q)' => Reads(q) /\ run'[q].read = run[q].read
                                                /\ run'[q].at = run[q].at
      BY <1>0, <1>4, <1>6 DEF Reads
    <2>5. \A q \in Runs : Reads(q)' => InOrder(run[q])'
      <3> SUFFICES ASSUME NEW q \in Runs, Reads(q)' PROVE InOrder(run[q])'
        OBVIOUS
      <3>1. CASE q = r
        BY <3>1, <1>6, <2>3
      <3>2. CASE q # r
        <4>1. InOrder(run[q]) /\ run'[q] = run[q]
          BY <3>2, <1>6, <2>4 DEF AccountInv, Ordered
        <4> QED
          BY <4>1, <2>1 DEF InOrder
      <3> QED
        BY <3>1, <3>2
    <2> QED
      BY <2>1, <2>4, <2>5 DEF AccountInv, Ordered
  <1> QED
    BY <1>7, <1>8, <1>9 DEF AccountInv, NeverOlderThanARead, Retrieve, store

(* A reading is recorded, or is too late. *)
LEMMA RecordInv == ASSUME AccountInv, NEW r \in Runs, Record(r) PROVE AccountInv'
  <1>0. /\ run[r] \in RunState /\ run[r].pc = "record" /\ Reads(r) /\ InOrder(run[r])
        /\ HoldsSaved(run[r]) /\ changes \in Nat /\ begun \in Nat /\ tickets \in Nat
        /\ status \in [read : Nat, reading : Reading]
    BY DEF AccountInv, TypeOK, OwnAccount, Ordered, Reads, Record
  <1>1. /\ run[r].read \in Nat /\ run[r].at \in Nat /\ run[r].reading \in Reading
        /\ run[r].reading.seen \in Nat /\ status.read \in Nat /\ status.reading.seen \in Nat
    BY <1>0 DEF RunState, Reading
  <1>2. PICK s \in RunState :
          /\ run' = [run EXCEPT ![r] = s] /\ s.pc \notin {"ask", "record"} /\ HoldsSaved(s)
    <2>1. CASE run[r].next \in {"link", "show"}
      <3>1. PICK s \in RunState : s = [run[r] EXCEPT !.pc = run[r].next]
        BY <2>1, <1>0, StepType DEF Steps, RunState
      <3>2. s.pc = run[r].next /\ s.account = run[r].account
        BY <3>1, <1>0 DEF RunState
      <3> QED
        BY <2>1, <3>1, <3>2, <1>0 DEF Record, Goto, HoldsSaved
    <2>2. CASE run[r].next \notin {"link", "show"}
      <3>1. run[r].next \in Outcomes \cup {"idle"}
        BY <2>2, <1>0 DEF RunState
      <3>2. PICK s \in RunState : s = [NewRun EXCEPT !.pc = run[r].next]
        BY <3>1, NewRunType DEF Steps
      <3>3. s.pc = run[r].next
        BY <3>1, <3>2, NewRunType DEF Steps
      <3> QED
        BY <2>2, <3>1, <3>2, <3>3 DEF Record, End, HoldsSaved, Outcomes
    <2> QED
      BY <2>1, <2>2
  <1>3. \A q \in Runs : run'[q] = IF q = r THEN s ELSE run[q]
    BY <1>2 DEF AccountInv, TypeOK
  <1>4. events' \subseteq events /\ begun' = IF begun < run[r].at THEN run[r].at ELSE begun
    BY DEF Record, Answer
  <1>5. /\ status' \in [read : Nat, reading : Reading]
        /\ status'.read = IF Newer(r) THEN run[r].read ELSE status.read
        /\ status'.reading.seen = IF Newer(r) THEN run[r].reading.seen ELSE status.reading.seen
    BY <1>0, <1>1 DEF Record
  <1>6. TypeOK'
    BY <1>1, <1>2, <1>4, <1>5 DEF AccountInv, TypeOK, Record, stripe
  <1>7. OwnAccount'
    BY <1>2, <1>3 DEF AccountInv, OwnAccount, HoldsSaved, Record, stripe
  <1>8. /\ run[r].read <= tickets /\ run[r].at <= changes /\ run[r].at <= run[r].reading.seen
        /\ run[r].reading.seen <= changes
        /\ run[r].read <= status.read => run[r].at <= status.reading.seen
        /\ run[r].read > status.read => begun <= run[r].at
    BY <1>0 DEF InOrder
  <1>9. NeverOlderThanARead' /\ begun' <= changes /\ status'.read <= tickets
        /\ status'.reading.seen <= changes
    BY <1>0, <1>1, <1>4, <1>5, <1>8 DEF AccountInv, NeverOlderThanARead, Newer, Ordered
  <1>10. \A q \in Runs : Reads(q)' => InOrder(run[q])'
    <2> SUFFICES ASSUME NEW q \in Runs, Reads(q)' PROVE InOrder(run[q])'
      OBVIOUS
    <2>1. q # r /\ run'[q] = run[q] /\ Reads(q)
      BY <1>2, <1>3 DEF Reads
    <2>2. /\ InOrder(run[q]) /\ run[q].read \in Nat /\ run[q].at \in Nat
          /\ run[q].read <= run[r].read => run[q].at <= run[r].at
          /\ run[r].read <= run[q].read => run[r].at <= run[q].at
      BY <2>1, <1>0 DEF AccountInv, Ordered, TypeOK, RunState
    <2>3. tickets' = tickets /\ changes' = changes
      BY DEF Record, stripe
    <2> QED
      BY <1>0, <1>1, <1>4, <1>5, <1>8, <2>1, <2>2, <2>3 DEF InOrder, Newer
  <1>11. Ordered'
    BY <1>2, <1>3, <1>9, <1>10 DEF AccountInv, Ordered, Reads, Record, stripe
  <1> QED
    BY <1>6, <1>7, <1>9, <1>11 DEF AccountInv

(* The first account is saved, or the saved one is kept. *)
LEMMA SaveInv == ASSUME AccountInv, NEW r \in Runs, Save(r) PROVE AccountInv'
  <1>0. /\ run[r] \in RunState /\ HoldsSaved(run[r]) /\ run[r].pc = "save"
        /\ saved \in 0..made /\ made \in Nat
    BY DEF AccountInv, TypeOK, OwnAccount, Save
  <1>1. /\ saved' \in 1..made /\ saved' = Kept(r)
        /\ saved # NoAccount => saved' = saved
    BY <1>0 DEF Save, Kept, HoldsSaved, NoAccount
  <1>2. PICK s \in RunState : s = [run[r] EXCEPT !.pc = "link", !.account = Kept(r)]
    <2>1. Kept(r) \in Nat /\ "link" \in Steps
      BY <1>0, <1>1 DEF Steps
    <2> QED
      BY <1>0, <2>1, StepType
  <1>3. s.pc = "link" /\ s.account = saved'
    BY <1>0, <1>1, <1>2 DEF RunState
  <1>4. \A q \in Runs : run'[q] = IF q = r THEN s ELSE run[q]
    BY <1>2 DEF AccountInv, TypeOK, Save
  <1>5. TypeOK'
    BY <1>0, <1>1, <1>2 DEF AccountInv, TypeOK, Save, stripe
  <1>6. linked' \subseteq {saved'}
    BY <1>1 DEF AccountInv, OwnAccount, TypeOK, Save, Ids, NoAccount
  <1>7. OwnAccount'
    <2>1. \A q \in Runs : HoldsSaved(run[q])'
      <3> SUFFICES ASSUME NEW q \in Runs PROVE HoldsSaved(run[q])'
        OBVIOUS
      <3>1. saved' # NoAccount /\ made' = made /\ HoldsSaved(run[q])
        BY <1>0, <1>1 DEF AccountInv, OwnAccount, Save, stripe, NoAccount
      <3> QED
        BY <1>1, <1>3, <1>4, <3>1 DEF HoldsSaved
    <2> QED
      BY <1>6, <2>1 DEF AccountInv, OwnAccount, Save, stripe
  <1>8. Ordered' /\ NeverOlderThanARead'
    BY <1>0, <1>3, <1>4 DEF AccountInv, Ordered, Reads, InOrder, Save, stripe, NeverOlderThanARead
  <1> QED
    BY <1>5, <1>7, <1>8 DEF AccountInv

(* Stripe and the Merchant: the account changes, and time only goes on. *)
LEMMA StripeInv ==
  ASSUME AccountInv, UNCHANGED <<store, linked, run, begun>>,
         changes' \in {changes, changes + 1}, made' \in {made, made + 1},
         made' <= MaxAccounts, Rest
  PROVE  AccountInv'
  <1>0. changes \in Nat /\ made \in Nat /\ begun \in Nat
    BY DEF AccountInv, TypeOK
  <1>1. TypeOK'
    BY <1>0 DEF AccountInv, TypeOK, Rest, store
  <1>2. OwnAccount'
    BY <1>0 DEF AccountInv, OwnAccount, HoldsSaved, Rest, store
  <1>3. \A r \in Runs : run[r].at \in Nat /\ run[r].reading.seen \in Nat
    BY DEF AccountInv, TypeOK, RunState, Reading
  <1>4. status.reading.seen \in Nat
    BY DEF AccountInv, TypeOK, Reading
  <1>5. Ordered' /\ NeverOlderThanARead'
    BY <1>0, <1>3, <1>4 DEF AccountInv, Ordered, Reads, InOrder, store, NeverOlderThanARead
  <1> QED
    BY <1>1, <1>2, <1>5 DEF AccountInv

LEMMA RestKept ==
  ASSUME AccountInv, UNCHANGED <<made, accounts>>, key' = key, events' \subseteq events,
         UNCHANGED <<requests, faults>> \/ (MayFail /\ UNCHANGED requests)
           \/ (requests < MaxRequests /\ requests' = requests + 1 /\ UNCHANGED faults)
  PROVE  Rest
  BY DEF AccountInv, TypeOK, OwnAccount, Rest, MayFail

(* Every step of a run. *)
LEMMA RunInv == ASSUME AccountInv, NEW r \in Runs, RunNext(r) PROVE AccountInv'
  <1> USE DEF store, stripe
  <1>0. linked \subseteq Ids
    BY DEF AccountInv, TypeOK
  <1>1. CASE StartConnect(r)
    <2>1. Rest
      BY <1>1, RestKept DEF StartConnect
    <2>2. PICK s \in RunState : s = [NewRun EXCEPT !.pc = "create"]
      BY NewRunType DEF Steps
    <2>3. s.pc = "create"
      BY <2>2, NewRunType DEF Steps
    <2>4. HoldsSaved(s) /\ run' = [run EXCEPT ![r] = s]
      BY <2>2, <2>3, <1>1 DEF HoldsSaved, StartConnect
    <2> QED
      BY <1>0, <1>1, <2>1, <2>3, <2>4, RunStep DEF StartConnect
  <1>2. ASSUME NEW kind \in {"connect", "page"}, StartRead(r, kind) PROVE AccountInv'
    <2>1. Rest
      BY <1>2, RestKept DEF StartRead
    <2> QED
      BY <1>2, <2>1, TicketStep DEF StartRead
  <1>3. ASSUME NEW e \in events, Deliver(r, e) PROVE AccountInv'
    <2>0. e.at \in Nat /\ e.account \in Ids
      BY DEF AccountInv, TypeOK
    <2>1. Rest
      BY <1>3, RestKept DEF Deliver
    <2>2. CASE e.account = saved
      BY <1>3, <2>0, <2>1, <2>2, TicketStep DEF Deliver, Ids, NoAccount
    <2>3. CASE e.account # saved
      BY <1>0, <1>3, <2>1, <2>3, EndStep DEF Deliver, Outcomes
    <2> QED
      BY <2>2, <2>3
  <1>4. CASE Retrieve(r)
    BY <1>4, RetrieveInv
  <1>5. ASSUME NEW f \in Failures, RetrieveFails(r, f) PROVE AccountInv'
    <2>1. Rest
      BY <1>5, RestKept DEF RetrieveFails, Answer
    <2>2. CASE run[r].kind = "page"
      BY <1>5, <2>1, <2>2, GotoStep DEF RetrieveFails
    <2>3. CASE run[r].kind # "page"
      <3>1. PICK pc \in Outcomes : End(r, pc)
        BY <1>5, <2>3 DEF RetrieveFails, Outcomes
      <3> QED
        BY <1>0, <1>5, <2>1, <3>1, EndStep DEF RetrieveFails
    <2> QED
      BY <2>2, <2>3
  <1>6. CASE Record(r)
    BY <1>6, RecordInv
  <1>7. CASE Show(r)
    <2>1. Rest
      BY <1>7, RestKept DEF Show
    <2> QED
      BY <1>0, <1>7, <2>1, EndStep DEF Show, Outcomes
  <1>8. CASE Create(r)
    <2>1. Rest
      BY <1>8 DEF Create, Rest, AccountInv, TypeOK, OwnAccount
    <2>2. CASE key = "free" /\ Goto(r, "creating")
      BY <1>8, <2>1, <2>2, GotoStep DEF Create
    <2>3. CASE key = "running" /\ End(r, "busy")
      BY <1>0, <1>8, <2>1, <2>3, EndStep DEF Create, Outcomes
    <2>4. CASE key = "error" /\ End(r, "failed")
      BY <1>0, <1>8, <2>1, <2>4, EndStep DEF Create, Outcomes
    <2>5. CASE key = "made" /\ SameAccount(r)
      BY <1>8, <2>1, <2>5, SameAccountStep DEF Create
    <2> QED
      BY <1>8, <2>2, <2>3, <2>4, <2>5 DEF Create
  <1>9. CASE Answered(r)
    <2>1. Rest
      BY <1>9, RestKept DEF Answered
    <2>2. CASE key = "made"
      BY <1>9, <2>1, <2>2, SameAccountStep DEF Answered, SameAccount
    <2>3. CASE key # "made"
      <3>1. PICK pc \in Outcomes : End(r, pc)
        BY <1>9, <2>3 DEF Answered, Outcomes
      <3> QED
        BY <1>0, <1>9, <2>1, <3>1, EndStep DEF Answered
    <2> QED
      BY <2>2, <2>3
  <1>10. CASE Save(r)
    BY <1>10, SaveInv
  <1>11. CASE Link(r)
    <2>1. Rest
      BY <1>11, RestKept DEF Link
    <2>2. run[r].account = saved /\ saved \in Ids
      BY <1>11 DEF Link, AccountInv, TypeOK, OwnAccount, HoldsSaved, Ids, NoAccount
    <2>3. linked' \subseteq linked \cup {saved} /\ linked' \subseteq Ids
      BY <1>0, <1>11, <2>2 DEF Link
    <2> QED
      BY <1>11, <2>1, <2>3, EndStep DEF Link, Outcomes
  <1>12. CASE Fail(r)
    <2>1. Rest
      BY <1>12, RestKept DEF Fail
    <2>2. PICK pc \in Outcomes : End(r, pc)
      BY <1>12 DEF Fail, Outcomes
    <2> QED
      BY <1>0, <1>12, <2>1, <2>2, EndStep DEF Fail
  <1> QED
    BY <1>1, <1>2, <1>3, <1>4, <1>5, <1>6, <1>7, <1>8, <1>9, <1>10, <1>11, <1>12 DEF RunNext

LEMMA StripeAccountNext == AccountInv /\ [Next]_vars => AccountInv'
  <1> SUFFICES ASSUME AccountInv, [Next]_vars PROVE AccountInv'
    OBVIOUS
  <1> USE DEF store, stripe
  <1>0. changes \in Nat /\ made \in 0..MaxAccounts
    BY DEF AccountInv, TypeOK
  <1>1. ASSUME NEW r \in Runs, RunNext(r) PROVE AccountInv'
    BY <1>1, RunInv
  <1>2. CASE StripeCreates
    <2>1. Rest
      BY <1>0, <1>2 DEF StripeCreates, Rest, AccountInv, TypeOK
    <2> QED
      BY <1>0, <1>2, <2>1, StripeInv DEF StripeCreates
  <1>3. CASE StripeErrors
    <2>1. Rest
      BY <1>3 DEF StripeErrors, Rest, AccountInv, TypeOK, MayFail
    <2> QED
      BY <1>0, <1>3, <2>1, StripeInv DEF StripeErrors
  <1>4. CASE KeyDropped
    <2>1. Rest
      BY <1>4 DEF KeyDropped, Rest, AccountInv, TypeOK
    <2> QED
      BY <1>0, <1>4, <2>1, StripeInv DEF KeyDropped
  <1>5. ASSUME NEW a \in Ids, Revoke(a) PROVE AccountInv'
    <2>1. [accounts[a] EXCEPT !.readable = FALSE] \in Account
      BY DEF AccountInv, TypeOK, Account
    <2>2. Rest
      BY <1>5, <2>1 DEF Revoke, Rest, AccountInv, TypeOK, OwnAccount
    <2> QED
      BY <1>0, <1>5, <2>2, StripeInv DEF Revoke
  <1>6. ASSUME NEW a \in Ids, NEW s \in AccountStates, AccountChanges(a, s) PROVE AccountInv'
    <2>1. Rest
      BY <1>0, <1>6 DEF AccountChanges, Rest, AccountInv, TypeOK, OwnAccount
    <2> QED
      BY <1>0, <1>6, <2>1, StripeInv DEF AccountChanges
  <1>7. CASE UNCHANGED vars
    <2>1. Rest
      BY <1>7 DEF vars, Rest, AccountInv, TypeOK, OwnAccount
    <2> QED
      BY <1>0, <1>7, <2>1, StripeInv DEF vars
  <1> QED
    BY <1>1, <1>2, <1>3, <1>4, <1>5, <1>6, <1>7 DEF Next

THEOREM StripeAccountInv == Spec => []AccountInv
  BY StripeAccountInit, StripeAccountNext, PTL DEF Spec

(* Type correctness: above all, no Store is recorded to take payments unless
   its card payments are active (the table's CHECK). *)
THEOREM StripeAccountTypes == Spec => []TypeOK
  BY StripeAccountInv, PTL DEF AccountInv

(* Every onboarding link, and everything Connect goes on to do, is for the
   account that is saved for the Store. *)
THEOREM OnlySavedAccount == Spec => []OnlySavedAccountIsLinked
  <1>1. AccountInv => OnlySavedAccountIsLinked
    BY DEF AccountInv, OwnAccount, HoldsSaved, OnlySavedAccountIsLinked
  <1> QED
    BY <1>1, StripeAccountInv, PTL

(* The recorded status is never older than the beginning of a read that came
   to its end. *)
THEOREM NewestReadWins == Spec => []NeverOlderThanARead
  BY StripeAccountInv, PTL DEF AccountInv
=============================================================================
