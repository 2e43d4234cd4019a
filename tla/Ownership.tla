------------------------------ MODULE Ownership ------------------------------
(***************************************************************************)
(* Stores and their Memberships under any transactions at once: what keeps *)
(* exactly one Owner per Store (applySchema, "Single-Owner invariant, in   *)
(* four parts"), as Postgres runs it under READ COMMITTED.                 *)
(*                                                                         *)
(* A transaction is any sequence of statements on single rows.  A row it   *)
(* has written is locked until it ends, others see the committed version.  *)
(* A statement that must wait is not enabled.  The checks of parts 3 and 4 *)
(* run at COMMIT, each on a fresh snapshot, and other transactions may     *)
(* commit after a check and before the transaction does.                   *)
(*                                                                         *)
(* The roles Admin and Staff are not told apart, and neither are users: a  *)
(* user's deletion is the deletion of that user's rows, and the unique key *)
(* of user and Store only refuses more.                                    *)
(***************************************************************************)
CONSTANTS Rows, Stores, Transactions, NoRow, Unwritten

Membership == [store : Stores, role : {"owner", "member"}]

ASSUME OwnershipAssumption ==
  NoRow \notin Membership /\ Unwritten \notin Membership \cup {NoRow}

VARIABLES
  stores,   \* which Stores exist: not yet, now, or not any more
  member,   \* the committed memberships
  tx        \* the transactions

ownershipVars == <<stores, member, tx>>

(* written are its versions of the rows it has written, checks the Stores
   parts 3 and 4 check at COMMIT, and passed those they have; referenced are
   the Stores its foreign keys hold (FOR KEY SHARE). *)
TxState ==
  [phase : {"idle", "open", "commit"},
   written : [Rows -> Membership \cup {NoRow, Unwritten}],
   inserted : SUBSET Stores, deleted : SUBSET Stores, referenced : SUBSET Stores,
   checks : SUBSET Stores, passed : SUBSET Stores]
Idle ==
  [phase |-> "idle", written |-> [r \in Rows |-> Unwritten],
   inserted |-> {}, deleted |-> {}, referenced |-> {}, checks |-> {}, passed |-> {}]

(* And no Membership outlives its Store. *)
OwnershipTypeOK ==
  /\ stores \in [Stores -> {"free", "live", "gone"}]
  /\ member \in [Rows -> Membership \cup {NoRow}]
  /\ tx \in [Transactions -> TxState]
  /\ \A r \in Rows : member[r] # NoRow => stores[member[r].store] = "live"

OwnershipInit ==
  /\ stores = [s \in Stores |-> "free"]
  /\ member = [r \in Rows |-> NoRow]
  /\ tx = [t \in Transactions |-> Idle]

-----------------------------------------------------------------------------
Owner(s) == [store |-> s, role |-> "owner"]
Writes(t, r) == tx[t].written[r] # Unwritten
(* What a transaction sees: its own writes and what is committed. *)
Sees(t, r)      == IF Writes(t, r) THEN tx[t].written[r] ELSE member[r]
SeesStore(t, s) == (stores[s] = "live" \/ s \in tx[t].inserted) /\ s \notin tx[t].deleted
Others(t)       == Transactions \ {t}
Unlocked(t, r)  == \A u \in Others(t) : ~Writes(u, r)

(* Part 1: a row becomes the owner of s when no other transaction may have
   made, or may be taking back, another owner row of s. *)
IndexFree(t, r, s) ==
  \A q \in Rows \ {r}, u \in Others(t) :
    Writes(u, q) => Owner(s) \notin {member[q], tx[u].written[q]}

(* ... and is refused if the transaction finds one. *)
IndexTaken(t, r, s) == \E q \in Rows \ {r} : Sees(t, q) = Owner(s)

(* The foreign keys that a statement looks up: the Store's, if it changes. *)
NewReferences(t, r, v) ==
  IF Sees(t, r) # NoRow /\ Sees(t, r).store = v.store THEN {} ELSE {v.store}
(* The Store is there, and nobody is deleting it. *)
Referable(t, s) == SeesStore(t, s) /\ \A u \in Others(t) : s \notin tx[u].deleted

(* Mutant: only the deletion of an owner row is checked. *)
NotChecked(t, r) == {}
(* Part 3: when an owner row is updated or deleted, its Store is checked. *)
Checked(t, r) == {s \in Stores : Sees(t, r) = Owner(s)}

Rolled(t) == tx' = [tx EXCEPT ![t] = Idle]

(* A statement makes of row r the version v; refs are the Stores whose foreign
   key it has looked up. *)
Write(t, r, v, refs) ==
  tx' = [tx EXCEPT ![t].written[r] = v, ![t].checks = @ \cup Checked(t, r),
                   ![t].referenced = @ \cup refs]

Begin(t) ==
  /\ tx[t].phase = "idle"
  /\ tx' = [tx EXCEPT ![t].phase = "open"]
  /\ UNCHANGED <<stores, member>>

InsertStore(t, s) ==
  /\ tx[t].phase = "open" /\ stores[s] = "free"
  /\ \A u \in Transactions : s \notin tx[u].inserted
  /\ tx' = [tx EXCEPT ![t].inserted = @ \cup {s}, ![t].checks = @ \cup {s}]
  /\ UNCHANGED <<stores, member>>

(* An INSERT, or an UPDATE of the role, the person or the Store. *)
SetMembership(t, r, v) ==
  /\ tx[t].phase = "open" /\ Unlocked(t, r)
  /\ v.role = "owner" => IndexFree(t, r, v.store)
  /\ LET refs == NewReferences(t, r, v) IN
     /\ \A s \in refs : Referable(t, s)
     /\ IF v.role = "owner" /\ IndexTaken(t, r, v.store) THEN Rolled(t) ELSE Write(t, r, v, refs)
  /\ UNCHANGED <<stores, member>>

(* Part 2: an owner row is not deleted, whatever else the transaction does. *)
DeleteMembership(t, r) ==
  /\ tx[t].phase = "open" /\ Unlocked(t, r) /\ Sees(t, r) # NoRow
  /\ IF Sees(t, r).role = "owner" THEN Rolled(t) ELSE Write(t, r, NoRow, {})
  /\ UNCHANGED <<stores, member>>

(* DELETE FROM stores, and its cascade over the Store's memberships. *)
DeleteStore(t, s) ==
  /\ tx[t].phase = "open" /\ SeesStore(t, s)
  /\ \A u \in Others(t) : s \notin tx[u].referenced \cup tx[u].deleted
  /\ LET cascade == {r \in Rows : Sees(t, r) # NoRow /\ Sees(t, r).store = s} IN
     /\ \A r \in cascade : Unlocked(t, r)
     /\ IF \E r \in cascade : Sees(t, r).role = "owner" THEN Rolled(t)
        ELSE tx' = [tx EXCEPT ![t].deleted = @ \cup {s},
                      ![t].written = [r \in Rows |-> IF r \in cascade THEN NoRow ELSE @[r]]]
  /\ UNCHANGED <<stores, member>>

BeginCommit(t) ==
  /\ tx[t].phase = "open"
  /\ tx' = [tx EXCEPT ![t].phase = "commit"]
  /\ UNCHANGED <<stores, member>>

(* Parts 3 and 4: the Store is gone, or has its one owner. *)
HasOneOwner(t, s) ==
  SeesStore(t, s) =>
    /\ \E r \in Rows : Sees(t, r) = Owner(s)
    /\ \A r, q \in Rows : Sees(t, r) = Owner(s) /\ Sees(t, q) = Owner(s) => r = q

Check(t, s) ==
  /\ tx[t].phase = "commit" /\ s \in tx[t].checks \ tx[t].passed
  /\ IF HasOneOwner(t, s) THEN tx' = [tx EXCEPT ![t].passed = @ \cup {s}] ELSE Rolled(t)
  /\ UNCHANGED <<stores, member>>

Commit(t) ==
  /\ tx[t].phase = "commit" /\ tx[t].checks \subseteq tx[t].passed
  /\ stores' = [s \in Stores |-> IF s \in tx[t].deleted THEN "gone"
                                 ELSE IF s \in tx[t].inserted THEN "live" ELSE stores[s]]
  /\ member' = [r \in Rows |-> Sees(t, r)]
  /\ Rolled(t)

(* An error, a deadlock, or a lost connection. *)
Rollback(t) ==
  /\ tx[t].phase # "idle" /\ Rolled(t)
  /\ UNCHANGED <<stores, member>>

TxNext(t) ==
  \/ Begin(t) \/ BeginCommit(t) \/ Commit(t) \/ Rollback(t)
  \/ \E s \in Stores : InsertStore(t, s) \/ DeleteStore(t, s) \/ Check(t, s)
  \/ \E r \in Rows : DeleteMembership(t, r) \/ \E v \in Membership : SetMembership(t, r, v)

OwnershipNext == \E t \in Transactions : TxNext(t)
OwnershipSpec == OwnershipInit /\ [][OwnershipNext]_ownershipVars

-----------------------------------------------------------------------------
(* Every Store has exactly one Owner, whatever transactions ran at once and
   whichever of them was checked first. *)
ExactlyOneOwner ==
  \A s \in Stores : stores[s] = "live" =>
    /\ \E r \in Rows : member[r] = Owner(s)
    /\ \A r, q \in Rows : member[r] = Owner(s) /\ member[q] = Owner(s) => r = q
=============================================================================
