---------------------------- MODULE StripeAccount ----------------------------
(***************************************************************************)
(* A Store's Stripe account: Connect (connectStripeAccount), the Payments  *)
(* page (syncStripeAccount) and Stripe's account events                    *)
(* (handleStripeAccountEvent), all at once.  A run is one of these; each   *)
(* await is a boundary between two actions.                                *)
(*                                                                         *)
(* Stripe creates at most one account under the Store's key while it keeps *)
(* the key, and an account changes at any time.  A read takes a ticket     *)
(* before it asks Stripe, and is recorded only if no later ticket was.     *)
(***************************************************************************)
EXTENDS Naturals

CONSTANTS
  Runs,
  NewAccount,     \* an account as Stripe creates it
  AccountStates,  \* what it may become
  Failures,       \* how requests to Stripe may fail
  MaxAccounts, MaxChanges, MaxRequests, MaxFaults

(* What summarizeStripeAccount looks at; owed are the deadlines of the
   requirements that await the Merchant, and an account is not readable when
   Stripe has it no more (404) or gives shp0 no access to it (403). *)
CardStatuses == {"active", "pending", "restricted", "unsupported", "none"}
Deadlines    == {"eventually_due", "currently_due", "past_due"}
Account == [readable : BOOLEAN, closed : BOOLEAN, applied : BOOLEAN,
            card : CardStatuses, provideInfo : BOOLEAN, owed : SUBSET Deadlines]

StripeFailure == {"retryable", "refused"}

ASSUME StripeAccountAssumption ==
  /\ NewAccount \in Account /\ AccountStates \subseteq Account
  /\ Failures \subseteq StripeFailure
  /\ {MaxAccounts, MaxChanges, MaxRequests, MaxFaults} \subseteq Nat

VARIABLES
  saved,      \* the account saved for the Store, or NoAccount
  status,     \* its status as recorded
  tickets,    \* the sequence stripe_account_reads
  key,        \* what Stripe keeps under account:<Store id>
  made,       \* the number of accounts Stripe made; the last is the key's
  accounts,   \* the accounts at Stripe
  linked,     \* the accounts an onboarding link was given for
  changes,    \* how often the accounts have changed
  events,     \* the account events not yet answered 200
  run,        \* the runs
  begun,      \* history: when the latest read that came to its end was begun
  requests, faults

store  == <<saved, status, tickets>>
stripe == <<key, made, accounts, changes>>
vars   == <<store, stripe, linked, events, run, begun, requests, faults>>

NoAccount == 0
Ids       == 1..MaxAccounts

(* seen is history: after how many changes Stripe gave the answer.  The table
   takes payments to be enabled only if card payments are active. *)
Reading == {s \in [enabled : BOOLEAN, card : CardStatuses, seen : Nat] :
              s.enabled => s.card = "active"}
NoRead  == [enabled |-> FALSE, card |-> "none", seen |-> 0]

Outcomes == {"onboarding", "active", "closed", "missing", "busy", "unavailable",
             "failed", "shown", "answered", "again"}
Steps == {"idle", "create", "creating", "save", "ask", "record", "show", "link"} \cup Outcomes

(* next is where a Connect goes when its reading is recorded. *)
RunState == [pc : Steps, kind : {"connect", "page", "event"}, account : Nat,
             read : Nat, at : Nat, event : Nat, reading : Reading,
             next : {"idle", "show", "link"} \cup Outcomes]
NewRun == [pc |-> "idle", kind |-> "connect", account |-> NoAccount, read |-> 0,
           at |-> 0, event |-> 0, reading |-> NoRead, next |-> "idle"]

TypeOK ==
  /\ made \in 0..MaxAccounts
  /\ saved \in 0..made
  /\ tickets \in Nat /\ begun \in Nat
  /\ status \in [read : Nat, reading : Reading]
  /\ key \in {"free", "running", "error", "made"}
  /\ accounts \in [Ids -> Account]
  /\ linked \subseteq Ids
  /\ changes \in Nat
  /\ events \subseteq [account : Ids, at : Nat]
  /\ run \in [Runs -> RunState]
  /\ requests \in 0..MaxRequests /\ faults \in 0..MaxFaults

Init ==
  /\ saved = NoAccount /\ tickets = 0 /\ begun = 0
  /\ status = [read |-> 0, reading |-> NoRead]
  /\ key = "free" /\ made = 0
  /\ accounts = [a \in Ids |-> NewAccount]
  /\ linked = {} /\ changes = 0 /\ events = {}
  /\ run = [r \in Runs |-> NewRun]
  /\ requests = 0 /\ faults = 0

-----------------------------------------------------------------------------
(* summarizeStripeAccount *)
CanTakePayments(a) == ~a.closed /\ a.applied /\ a.card = "active"
NeedsInfo(a) == a.provideInfo \/ a.owed \cap {"currently_due", "past_due"} # {}
Summary(a) == [enabled |-> CanTakePayments(a), card |-> a.card, seen |-> changes]
Missing    == [NoRead EXCEPT !.seen = changes]

Goto(r, pc) == run' = [run EXCEPT ![r].pc = pc]
(* A run that has ended forgets what it held. *)
End(r, outcome) == run' = [run EXCEPT ![r] = [NewRun EXCEPT !.pc = outcome]]
MayStart(r) == run[r].pc \in {"idle"} \cup Outcomes
MayFail     == faults < MaxFaults /\ faults' = faults + 1

(* startStripeAccountRead, when the Store has an account. *)
TakeTicket(r, kind, event) ==
  /\ tickets' = tickets + 1
  /\ run' = [run EXCEPT ![r] = [NewRun EXCEPT
       !.pc = "ask", !.kind = kind, !.account = saved, !.read = tickets + 1,
       !.at = changes, !.event = event]]

(* Connect of a Store that has no account yet. *)
StartConnect(r) ==
  /\ MayStart(r) /\ saved = NoAccount
  /\ run' = [run EXCEPT ![r] = [NewRun EXCEPT !.pc = "create"]]
  /\ UNCHANGED <<store, stripe, linked, events, begun, requests, faults>>

(* Connect of a connected Store, or the Payments page. *)
StartRead(r, kind) ==
  /\ MayStart(r) /\ saved # NoAccount
  /\ requests < MaxRequests /\ requests' = requests + 1
  /\ TakeTicket(r, kind, 0)
  /\ UNCHANGED <<saved, status, stripe, linked, events, begun, faults>>

(* handleStripeAccountEvent: an account that is no Store's is ignored. *)
Deliver(r, e) ==
  /\ MayStart(r)
  /\ IF e.account = saved
     THEN TakeTicket(r, "event", e.at) /\ UNCHANGED events
     ELSE End(r, "answered") /\ events' = events \ {e} /\ UNCHANGED tickets
  /\ UNCHANGED <<saved, status, stripe, linked, begun, requests, faults>>

-----------------------------------------------------------------------------
(* readAccount: what Stripe answers, and where that leads. *)
AfterReading(r, a) ==
  CASE run[r].kind = "page"  -> "show"
    [] run[r].kind = "event" -> "answered"
    [] run[r].kind = "connect" ->
         IF ~a.readable THEN "missing" ELSE IF a.closed THEN "closed"
         ELSE IF CanTakePayments(a) /\ ~NeedsInfo(a) THEN "active" ELSE "link"

Retrieve(r) ==
  /\ run[r].pc = "ask"
  /\ LET a == accounts[run[r].account] IN
     run' = [run EXCEPT ![r].pc = "record", ![r].next = AfterReading(r, a),
                        ![r].reading = IF a.readable THEN Summary(a) ELSE Missing]
  /\ UNCHANGED <<store, stripe, linked, events, begun, requests, faults>>

Answer(r) == events' = events \ {[account |-> run[r].account, at |-> run[r].event]}

(* Mutant: whatever fails, Stripe is told that the event arrived. *)
AlwaysAcked(f) == TRUE
(* Stripe delivers an event again only if a retry can help. *)
Acked(f) == f = "refused"

(* The page shows what is stored; Connect tells the Merchant to try again, or
   that it failed. *)
RetrieveFails(r, f) ==
  /\ run[r].pc = "ask" /\ MayFail
  /\ CASE run[r].kind = "page" -> Goto(r, "show") /\ UNCHANGED events
       [] run[r].kind = "connect" ->
            End(r, IF f = "retryable" THEN "unavailable" ELSE "failed") /\ UNCHANGED events
       [] OTHER -> IF Acked(f) THEN End(r, "answered") /\ Answer(r)
                   ELSE End(r, "again") /\ UNCHANGED events
  /\ UNCHANGED <<store, stripe, linked, begun, requests>>

(* Mutant: the latest answer is recorded, not the latest read. *)
AnyRead(r) == TRUE
(* recordStripeAccountStatus: no read with a later ticket has been recorded. *)
Newer(r) == status.read < run[r].read

Record(r) ==
  /\ run[r].pc = "record"
  /\ status' = IF Newer(r) THEN [read |-> run[r].read, reading |-> run[r].reading] ELSE status
  /\ begun' = IF begun < run[r].at THEN run[r].at ELSE begun
  /\ IF run[r].next \in {"link", "show"} THEN Goto(r, run[r].next) ELSE End(r, run[r].next)
  /\ IF run[r].kind = "event" THEN Answer(r) ELSE UNCHANGED events
  /\ UNCHANGED <<saved, tickets, stripe, linked, requests, faults>>

(* getPaymentAccount, at the end of syncStripeAccount *)
Show(r) ==
  /\ run[r].pc = "show" /\ End(r, "shown")
  /\ UNCHANGED <<store, stripe, linked, events, begun, requests, faults>>

-----------------------------------------------------------------------------
(* Mutant: an account whose save failed is not asked for again. *)
NotTheSame(r) == End(r, "failed")
(* Stripe gives the account it made under the key. *)
SameAccount(r) == run' = [run EXCEPT ![r].pc = "save", ![r].account = made]

(* accounts.create: Stripe refuses a key in use, and repeats the answer it has
   kept. *)
Create(r) ==
  /\ run[r].pc = "create"
  /\ \/ key = "free"    /\ key' = "running" /\ Goto(r, "creating")
     \/ key = "running" /\ End(r, "busy") /\ UNCHANGED key
     \/ key = "error"   /\ End(r, "failed") /\ UNCHANGED key
     \/ key = "made"    /\ SameAccount(r) /\ UNCHANGED key
  /\ UNCHANGED <<store, made, accounts, changes, linked, events, begun, requests, faults>>

StripeCreates ==
  /\ key = "running" /\ made < MaxAccounts
  /\ key' = "made" /\ made' = made + 1
  /\ UNCHANGED <<store, accounts, changes, linked, events, run, begun, requests, faults>>

(* Stripe fails, and keeps its answer or not. *)
StripeErrors ==
  /\ key = "running" /\ MayFail
  /\ key' \in {"error", "free"}
  /\ UNCHANGED <<store, made, accounts, changes, linked, events, run, begun, requests>>

Answered(r) ==
  /\ run[r].pc = "creating" /\ key # "running"
  /\ IF key = "made" THEN run' = [run EXCEPT ![r].pc = "save", ![r].account = made]
     ELSE \E outcome \in {"unavailable", "failed"} : End(r, outcome)
  /\ UNCHANGED <<store, stripe, linked, events, begun, requests, faults>>

(* Mutant: the account just created replaces the saved one. *)
Replacing(r) == run[r].account
(* savePaymentAccount: the account the Store has then. *)
Kept(r) == IF saved = NoAccount THEN run[r].account ELSE saved

Save(r) ==
  /\ run[r].pc = "save"
  /\ saved' = Kept(r)
  /\ run' = [run EXCEPT ![r].pc = "link", ![r].account = Kept(r)]
  /\ UNCHANGED <<status, tickets, stripe, linked, events, begun, requests, faults>>

(* accountLinks.create *)
Link(r) ==
  /\ run[r].pc = "link" /\ End(r, "onboarding")
  /\ linked' = linked \cup {run[r].account}
  /\ UNCHANGED <<store, stripe, events, begun, requests, faults>>

(* A request to Stripe is lost, the database fails, or the process dies. *)
Fail(r) ==
  /\ run[r].pc \in {"create", "creating", "save", "ask", "record", "show", "link"} /\ MayFail
  /\ End(r, IF run[r].kind = "event" THEN "again"
            ELSE IF run[r].pc \in {"create", "creating", "link"} THEN "unavailable" ELSE "failed")
  /\ UNCHANGED <<store, stripe, linked, events, begun, requests>>

-----------------------------------------------------------------------------
(* Stripe and the Merchant.  Only onboarding makes an account active, and a
   closed one stays closed. *)
AccountChanges(a, s) ==
  /\ a <= made /\ changes < MaxChanges
  /\ s.readable /\ accounts[a].readable /\ s # accounts[a]
  /\ s.card = "active" => a \in linked
  /\ accounts[a].closed => s.closed
  /\ changes' = changes + 1
  /\ accounts' = [accounts EXCEPT ![a] = s]
  /\ events' = events \cup {[account |-> a, at |-> changes']}
  /\ UNCHANGED <<store, key, made, linked, run, begun, requests, faults>>

(* Access is revoked without an event. *)
Revoke(a) ==
  /\ a <= made /\ changes < MaxChanges /\ accounts[a].readable
  /\ changes' = changes + 1
  /\ accounts' = [accounts EXCEPT ![a].readable = FALSE]
  /\ UNCHANGED <<store, key, made, linked, events, run, begun, requests, faults>>

(* Stripe keeps a key longer than any request lasts. *)
KeyDropped ==
  /\ key = "error" \/ (key = "made" /\ made < MaxAccounts)
  /\ \A r \in Runs : run[r].pc # "creating"
  /\ key' = "free"
  /\ UNCHANGED <<store, made, accounts, changes, linked, events, run, begun, requests, faults>>

RunNext(r) ==
  \/ StartConnect(r)
  \/ \E kind \in {"connect", "page"} : StartRead(r, kind)
  \/ \E e \in events : Deliver(r, e)
  \/ Retrieve(r) \/ (\E f \in Failures : RetrieveFails(r, f)) \/ Record(r) \/ Show(r)
  \/ Create(r) \/ Answered(r) \/ Save(r) \/ Link(r) \/ Fail(r)

Next ==
  \/ \E r \in Runs : RunNext(r)
  \/ StripeCreates \/ StripeErrors \/ KeyDropped
  \/ \E a \in Ids : Revoke(a) \/ \E s \in AccountStates : AccountChanges(a, s)

Spec == Init /\ [][Next]_vars

(* A run goes on, Stripe answers and delivers what was not answered, keeps an
   error for a time only, and somebody presses Connect until there is an
   account. *)
Progress(r) ==
  Retrieve(r) \/ Record(r) \/ Show(r) \/ Create(r) \/ Answered(r) \/ Save(r) \/ Link(r)
Delivery == \E r \in Runs, e \in events : Deliver(r, e)

FairSpec ==
  /\ Spec
  /\ \A r \in Runs : WF_vars(Progress(r))
  /\ WF_vars(Delivery) /\ WF_vars(StripeCreates)
  /\ WF_vars(key = "error" /\ KeyDropped)
  /\ SF_vars(\E r \in Runs : StartConnect(r))

-----------------------------------------------------------------------------
(* Every onboarding link, and everything Connect goes on to do, is for the
   account that is saved for the Store: also when two Connects create one, a
   save fails, or Stripe makes a second account under a key it has dropped. *)
OnlySavedAccountIsLinked ==
  /\ linked \subseteq {saved}
  /\ \A r \in Runs : run[r].pc \in {"ask", "record", "show", "link"} => run[r].account = saved

(* The recorded status is never older than the beginning of any read that came
   to its end: an answer that was late does not undo a newer one. *)
NeverOlderThanARead == begun <= status.reading.seen

(* When the account comes to rest, the Store ends up able to take payments
   exactly if Stripe says so, unless shp0 lost its access without being told. *)
PaymentsFollowStripe ==
  <>[](saved # NoAccount /\ accounts[saved].readable
         => status.reading.enabled = CanTakePayments(accounts[saved]))

(* Whatever failed before, a Store whose Merchant keeps pressing Connect has its
   account saved in the end. *)
ConnectRecovers == <>(saved # NoAccount)
=============================================================================
