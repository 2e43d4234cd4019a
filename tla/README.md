# A TLA+ model of shp0

shp0 is a multi-tenant shop platform: a Merchant's Store has Products with
Variants, a Customer fills a Cart, checks it out into an Order and pays it at
Stripe, on the Store's own Stripe account. The program's core is
`packages/db/src` (Postgres transactions and pure domain rules) and
`packages/payments/src` (Stripe). This directory models the parts of it that
are hard to test: what several requests, webhook deliveries and failures can
do to each other.

Everything here is translated from the source. PROJECT.json's `map` names the
lines each definition stands for.

## The system and its parts

| Part | State | Operations | What is hard | What makes it correct |
|---|---|---|---|---|
| Pay (`payments/src/checkout.ts`, `reserve/end/recordCheckoutAttempt` in `db/src/index.ts`) | an Order's current Checkout attempt, when it started and its session; sessions at Stripe | `startCheckout`, `getCheckoutAvailability` | several Pays at once, state read several awaits before it is used, Stripe answers late, never, or with an error it kept for the key | one session a Customer can pay; no second payment while money is held; an Order never gets stuck |
| Order page (`order-page.ts`, `order/[orderId]/page.tsx`) | none of its own | `getStorefrontOrder`, `describeOrderPayment` | six reads one after another, with Pays and the webhook in between | a Customer whose money is held is told so and not asked to pay |
| Payment webhook (`payments/src/webhook.ts`, `recordStripePayment`, `takeStock`) | Orders' payment status, inventory, Payments, processed events; charges and refund keys at Stripe | `handleStripeWebhook` | deliveries repeated, concurrent, out of order; crashes between two steps; refunds that fail | one Payment per paid Order; exact stock; a payment not honoured is given back; nothing is forgotten |
| Stock locks (`takeStock`, `markOrderPaid`, `deleteProduct`, `withDeadlockRetry`) and client pools | row locks, pooled connections | the payment transactions, `deleteProduct` | lock order, deadlocks with other transactions, bounded retry, a pool that is used up | no circle among them; a payment is applied once or not at all; every call ends |
| Stripe account (`payments/src/stripe-account.ts`, `account-events.ts`) | the Store's saved account and its last recorded status | Connect, the Payments page, account events | two Connects, a save that fails after a create, reads that return out of order | an account is saved once and never replaced; an old read never overwrites a newer one |
| Cart and checkout (`cart.ts`, `changeDbCart`, `checkout`) | Carts and their lines, Orders | add, set, remove, checkout | two tabs at once, a checkout in between, a Product deleted meanwhile | no change lost, at most one Order per Cart, line quantities within the limit |
| Memberships (`provisionStore`, the four parts of the single-Owner invariant) | Stores and their Members' roles | any transaction | deferred checks of concurrent transactions | exactly one Owner per Store |
| Store status and Custom Domains (`store-status.ts`, `domain-verification.ts`, `current-store.ts`) | a status each, a Store's Subdomain | create, add a domain, Operator actions, verification results, a visit | read, validate and write by two at once; bad rows | only allowed transitions; a host leads to its own Store |
| Discounts (`discounts.ts`, `redeemDiscount`) | usage counts, redemptions | create, redeem, apply, preview | the last use redeemed twice, a COMMIT whose answer is lost; the rounding of doubles, numbers that are none | the limit holds; answers stay true; a total is never negative |
| Customer sessions (`actions/customers.ts`) | Customers, sessions, browsers' cookies | sign up, sign in, sign out, the account page | a second transaction that fails, cookies of another Store | nobody sees another's account; a failed sign-up can be repeated |
| Catalog (`actions/products.ts`, `actions/collections.ts` and their pages) | Products, Collections, their members, the Tier | create, delete, add, remove, the lists and pages, Billing | pages that read in several statements, a deletion in between, rules written twice (SQL and TypeScript) | no membership across Stores; a page shows what was there |
| Hostname parsing, authentication library, schema script, forms, pages' wording, CI | | | | not modelled, see below |

How they interact: Cart's checkout makes the Order; Pay gives the Customer a
Checkout Session for it, if the Store's Stripe account can take payments and
there is stock; Stripe tells the webhook the session was completed; the webhook
pays the Order and takes the stock, or refunds; Pay and the Order page read the
Payment the webhook recorded to decide whether the Order may be paid again. The
Store's Stripe status, which Pay reads, is kept by Connect and account events;
a host is led to a Store before any of this. There is no shared memory: all
coordination is through guarded UPDATEs, row locks, unique keys and triggers in
Postgres and through idempotency keys at Stripe.

## Modules

| Module | What it is | TLC | Proofs |
|---|---|---|---|
| `Pay` | `startCheckout` run by several requests, with Stripe, the Customer, the webhook's effects and time as environment | `MCPay` | `PayProofs` |
| `OrderPage` | extends `Pay` with the Order page, read while Pays run | `MCPay` | `PayProofs` |
| `Webhook` | `handleStripeWebhook` run by several deliveries, with Stripe and the Merchant as environment | `MCWebhook` | `WebhookProofs` |
| `Ledger` | what the webhook promises about money and stock | `MCWebhook` | `WebhookProofs`: `Webhook` refines it |
| `StockLocks` | the transactions that lock Variants, lock by lock, on a pool of connections | `MCStockLocks` | `StockLocksProofs` |
| `Fence` | what they promise: each payment takes effect in one step | `MCStockLocks` | `StockLocksProofs`: `StockLocks` refines it |
| `Cart` | the requests that change one Customer's Cart or check it out, as concurrent transactions | `MCCart` | `CartProofs` |
| `Shopping` | what they promise: each takes effect at one moment or not at all | `MCCart` | `CartProofs`: `Cart` refines it |
| `StripeAccount` | Connect, the Payments page and account events at once | `MCStripeAccount` | `OwnershipProofs` |
| `Ownership` | any transactions on Stores and Memberships, with the deferred checks | `MCOwnership` | `OwnershipProofs` |
| `Stores` | Store status, Custom Domains, who may change them, and where a host leads | `MCStores` | `StoresProofs` |
| `Discounts` | discounts created and redeemed by concurrent calls | `MCDiscounts` | `StoresProofs` |
| `DiscountEngine` | `applyDiscounts`, as operators | `MCDiscounts` | `StoresProofs` |
| `Customers` | sign-up, sign-in, sign-out and the account page, with browsers and their cookies | `MCCustomers` | `CustomersProofs` |
| `Catalog` | Products, Collections, their pages, and the Billing page | `MCCatalog` | `CatalogProofs` |

An operator whose comment says what a bug could do, or that begins with
"Mutant", is not used by the model: PROJECT.json names it as a plausible error
in the definition after it, which the property listed with it would catch.

### Pay

A Pay is a process whose `pc` is the await it stands at; each action goes from
one await to the next. A database transaction is one action. The three that
write are single guarded UPDATEs of one row: `Reserve`, `End` and `Record`
carry the code's WHERE clause as their guard. `ReadOrder` stands for both reads
of `getOrderForCheckout`: the stock it reads is only a hint, nothing later
relies on it.

What a Pay holds between two awaits is its own record (`attempt`, `session`,
`inFlight`, `blocked`, `enabled`), so everything it read may be stale when it
is used; that is the point of the model. A session is named by its idempotency
key (Order and attempt), because Stripe makes at most one session per key. The
`session` variable is Stripe's state for the key: nothing received, running,
an error kept, or the session's status.

`Create` and `Answered` are separate, so a session can come into being while
nobody waits for it any more (`CreateFails`, `Abandon`), and two Pays can wait
for one create. `LeaseLapses` may happen at any time, also while the create is
running: the code says that correctness does not depend on the lease
(`db/src/index.ts`, above `CHECKOUT_ATTEMPT_LEASE_SECONDS`), and the model
holds it to that.

Abstracted: amounts and lines (an Order here is chargeable), the Customer's
cart token, the difference between reasons for refusing a Pay.

### Webhook and Ledger

A delivery is a process (`work`) that goes through `Check` (is the event
processed, is it shp0's, is it paid), `RecordPayment`, `Refund`, `MarkRefund`
and `MarkProcessed`, one per await. `RecordPayment` is the transaction of
`recordStripePayment`: it holds the unique key of the PaymentIntent, the Order
row and the Variant rows before it decides, so it is one action; `NewPayment`
and `KnownPayment` are its two halves. `Refund` is the request at Stripe, with
the answer kept under `refund:<PaymentIntent>:<attempt>`; `Fail` after it is a
lost answer. `charge` says where the money really is, `payments` what shp0
recorded about it: several properties compare the two.

`Ledger` knows neither events nor requests. A payment's money is held, then
either sold (the Order is paid and its stock taken in the same step) or owed
and then returned, or stuck when Stripe refuses. `Webhook` implements it under
the mapping `Fate`, with fairness: `KeepsLedger` is the safety part and
`ImplementsLedger` all of it.

### Cart and Shopping

A request is one transaction on one connection. It checks that the Variant is
for sale (`Check`), looks for the Cart's row (`Find`), waits for its lock
(`Lock`) or makes the row (`Upsert`), reads the lines (`Read`), prices them if
it is a checkout (`Price`), and commits (`Commit`). Its writes are seen by
others when it commits, so they are one action with the COMMIT; what it read
before is in its own record. The row lock is taken by id: a request that waited
for a row which a checkout then deleted has no Cart, even if another tab has
made a new one by then, and an upsert that has not committed is invisible to
`SELECT` but makes other upserts wait. `Fail` is a statement that fails or a
process that dies; the transaction rolls back.

`Shopping` has no row, lock or transaction. `sawEmpty` and `wasGone` are history
variables: a request that says it found nothing ran at some moment while the
Cart was empty, and one that put a Variant in the Cart or an Order began while
it was for sale. They say exactly how stale the code's answers may be: the
Variant is checked before the Cart is locked, so a change may go through for a
Variant deleted since, and the checkout that follows refuses it.

Abstracted: prices and the order of lines. Nothing in the code takes a
published Product back to draft, so `gone` only grows, by `deleteProduct`;
`cart_items` has no foreign key to Variants, so the lines stay.
`saveDbCartLines`, `getOrCreateDbCart` and `deleteDbCart` are called by tests
only; a save here has one line.

### OrderPage

The page reads the Order and its session's Payment, then runs the same
assessment as Pay in four more reads, and only then decides what to say. Each
read is an action (`ReadStorefrontOrder` … `PageReadPayment`), `AvailabilityFails`
is the page that could not ask. `Describe` is `describeOrderPayment` without its
words. `held` is history: the sessions that held money when the page was opened.
`PageTellsOfHeldMoney` quantifies over the note in the URL, which anybody may
write. The order of the reads matters: `RecordedLast` looks at stock first and
would tell a Customer who has paid that the item is gone.

### StockLocks and Fence

`Webhook` takes `recordStripePayment` as one step. `StockLocks` is the same
transaction lock by lock: a call waits for a connection (`Connect`), inserts the
Payment (`Claim`), locks the Order and then the Variants in id order, decides
when it has them all, and its writes are seen at `Commit`. `markOrderPaid` and
`deleteProduct` are calls beside it. `LoseDeadlock` is Postgres' choice of a
victim; a payment starts from scratch (`Restart`), at most `PaymentAttempts`
times. Two calls are not in the code: "other" locks the Variants in the opposite
order, and stands for any transaction written later (the reason the code gives
for `withDeadlockRetry`), and "nested" opens a client inside a client, which
`refuseNestedClient` refuses. `NoCircle` leaves "other" out: that the payments
and `deleteProduct` never wait for each other in a circle is the code's own
claim, and it counts connections as well as rows. `Fence` is the comment "THE
CONCURRENCY FENCE" as a specification; `KeepsFence` is the refinement.

`markOrderPaid` is called by tests only. Lines, amounts and foreign Orders are
in `Webhook`.

### StripeAccount

A run is a Connect, a Payments page or an event delivery; its `pc` is the await
it stands at. A read takes its ticket from the sequence
(`startStripeAccountRead`), asks Stripe (`Retrieve`), and is recorded
(`Record`) unless a later ticket was. `Create` is `accounts.create` under the
Store's key: Stripe refuses a key in use and repeats an error it kept. `Save`
is `savePaymentAccount`, which keeps the account the Store has. `KeyDropped` is
Stripe forgetting the key after a day, so a second account can be made; it must
never replace the saved one or be linked. `begun` and `at` are history: after
how many changes of the account a read began. `Revoke` takes shp0's access away
without an event.

### Ownership

Any sequence of statements in any number of transactions: `InsertStore`,
`SetMembership`, `DeleteMembership`, `DeleteStore`, and the COMMIT as its
deferred checks, one `Check` per Store, and then `Commit`. The four parts of the
invariant in `applySchema` are `IndexFree`/`IndexTaken` (the partial unique
index, which makes a transaction wait for another's uncommitted owner row),
`DeleteMembership`'s refusal, `Checked` and `Check`. Others commit between a
check and the commit it belongs to; the foreign keys (`referenced`) keep a Store
from being deleted under a new Membership. `provisionStore` is one of these
transactions. A statement that would wait is not enabled; a deadlock is a
`Rollback`.

### Stores

A request is authorized (`Authorize`), then acts. `CreateStore`, `AddDomain` and
`Visit` are one step; a change of a status is two, `ReadStatus`/`ReadDomain`
under `FOR NO KEY UPDATE` and `WriteStatus`/`WriteDomain`, with the transition
tables of the code as sets of triples. The Role is read before the transaction,
so `ChangeRole` may come in between: nothing here promises that the Role is
still there. The initial state lets `custom_domains` hold rows with the
platform's own Subdomains, because `resolveStoreByHost` is written to be right
"whatever it holds". Hosts are a partition, not strings. DNS is not asked by
the code yet; `applyDomainVerification` takes the result, and so does the model.

### Discounts and DiscountEngine

A redemption locks the discount's row, looks for the Order's redemption and the
limit, raises the count and inserts the row; `Commit` shows them. `Commit` may
answer "error" (the answer of a COMMIT was lost), and the caller calls again.
A limit that is no number counts as 0, as `usage_count >= null` does in
JavaScript. `redeemDiscount` and `getDiscountByCode` are called by tests only.

`DiscountEngine` is `applyDiscounts`. Amounts are counted in parts of a cent
(`Cent` of them) and percents in parts of a percent (`Unit`), so the hundredths
of a percent that the form takes (`step="0.01"`) and the unrounded price of a
preview are integers too; negative ones are included because no form refuses
them. What is no number is `Garbage` in a form, `NaN` to the engine
(`parseFloat`), and `Null` once `JSON.stringify` has stored it; NaN makes NaN of
a sum, null counts as 0. `Parsed` and `Stored` are these conversions, and
`Preview` is `previewDiscountAction`, the engine's only caller outside the
tests.

A share, `left * percent / 100`, is a double, and its double may lie on the
other side of a half. `Slip` is the table of the shares that are rounded
otherwise for it, and to what. `SlipAssumption` says only that there is no nearer
number of cents than that, so that only halves slip: a
share of whole cents under a percent in hundredths is a multiple of 1/10000 of a
cent, so one that is not a half is at least that far from it, and its double is
that far off only above 2^38 cents. The instance's table was computed with
doubles for its seven percents and every half cent up to 1150 cents; it has two
entries, 9.20% of $3.75 and of $8.75. Sums and differences are exact below
2^53.

### Customers

A request reads its browser's cookie when it begins, runs its transactions one
after another (`SignUp`, then `SignIn`, then `EndPrevious`), and changes the
cookie when its answer arrives (`Reply`), or never (`LoseReply`). Any
transaction can fail, or commit and lose its answer. `Carry` copies the cookie
of one host to another by hand, `Reroute` is a Custom Domain that fails a check
and passes it again. Password hashes are equality, a session's token is a name
nobody holds. On a host that leads to no Store, signing out clears the cookie
and leaves the session to expire (`actions/customers.ts:89-93`); the model does
the same.

### Catalog

An operation is a transaction, but under READ COMMITTED each of its statements
sees what is committed by then: a page that asks for the Products and then for
the Variants of each (`ReadProducts`, `ReadVariants`) may see two catalogs, and
so may Billing, whose two reads are on two connections. `DeleteProduct` holds
the row until `CommitDelete`; an addition to a Collection that meets it waits
(`AwaitDelete`) and fails if the Product goes. `always` and `ever` are history:
what held all the time a request ran, and at some time. `Selected` is a rule as
the SQL has it, `MatchesRule` is `matchesRule`, and `PagesAreTrue` compares the
two. They differ in one case. A limit that is no number is stored as null; the
queries take null for no limit (`rule.maxCents ?? Number.MAX_SAFE_INTEGER`),
`matchesRule` compares it as 0, although `collections.ts:9` says that it "is the
single source of truth for what 'matches' means". The pages do what the form
asked for, so `AsAsked` drops such a limit before the rule is compared. With
`RuleOf(c)` in its place TLC shows a Product above 0 on the page of a Collection
whose maximum was garbage. Only tests call `matchesRule`.

Memberships are a set of pairs. `collection_products` has no key but its id, so
`ON CONFLICT DO NOTHING` (`index.ts:2778`) never applies, and a Product that is
added twice has two rows and is listed twice; no property speaks of that.

Also seen while modelling, and left as they are: a Product deleted between the
two queries of `listPublishedProducts` is listed at price 0; a Collection's slug
is not unique, so a page may be of either; the Free Tier's limit is described as
a hard cap (`CONTEXT.md:107`) and `checkUsagePolicy` is called by tests only;
reserved Subdomains (`hostname.ts:16`) are not refused by `createStoreAction`,
so such a Store can be made and never reached.

## What the runs check

| Run | Instance | Distinct states | Shows |
|---|---|---|---|
| `mc_pay` | one Order; two Pays, or a Pay and the Order page; four attempts, one fault, fairness | 263 thousand | `OneLiveSession`, `MoneyHeldOnce`, `HeldMoneyIsShown`, `PageTellsOfHeldMoney`, `ReplacedOnlyWhenSpent`, `PayIsAnswered`, `PayRecovers` |
| `mc_webhook` | three payments for two Orders that share a scarce Variant, two deliveries at a time, one fault | 1.3 million | `TypeOK`, `PaidByExactlyOne`, `StockMatchesSales`, `OnlyDeclinedReturned`, `DecisionsAreFinal`, `KeepsLedger` |
| `mc_webhook_live` | a payment that can be honoured and one that is not shp0's, two faults, fairness | 188 thousand | `RefundedIsReturned`, `ProcessedIsDone`, `FreshRefundKey`, `EventsAreAnswered`, `ImplementsLedger` |
| `mc_webhook_refusal` | two payments of one Order, without fairness | stops at the violation | `RefundFailedIsHeld` does not hold, see Findings |
| `mc_stock_locks` | three calls of any kind on two connections, two attempts, fairness | 418 thousand | `NoCircle`, `KeepsFence`, `CallsEnd` |
| `mc_cart` | two requests that add or check out and any third, two Variants, at most two of each, fairness | 538 thousand | `OneOrderPerCart`, `WritesWhatItRead`, `AtomicCart`, `RequestsEnd` |
| `mc_stripe_account` | two runs, two accounts, two changes, one fault, fairness | 831 thousand | `OnlySavedAccountIsLinked`, `NeverOlderThanARead`, `PaymentsFollowStripe`, `ConnectRecovers` |
| `mc_ownership` | three transactions, two Stores, three Memberships | 229 thousand | `ExactlyOneOwner` |
| `mc_stores` | two requests, two Stores, a Merchant, a Member, an Operator, a domain, bad rows | 2.9 million | `TypeOK`, `EachToItsOwn`, `LegalMoves` |
| `mc_discounts` | two discounts: of four limits with two redemptions at once for three Orders, and of fifteen other rewards (whole and fractional percents, above all and below nothing, amounts, garbage); five carts, five previewed prices | 61 thousand | `UsedOncePerOrder`, `AnswersAreTrue`, `QuotesAddUp` |
| `mc_customers` | two people with one email, two Stores, two requests, one fault, fairness | 890 thousand | `EachSeesTheirOwn`, `SignUpRecovers` |
| `mc_catalog` | two requests of any kind, two Stores with Products of one slug, three Collections | 1.9 million | `MembersOfOneStore`, `PagesAreTrue` |

**Bounds.** `MaxFaults` counts what may go wrong in a behaviour: a failed or
lost request, a crash, an expiry, a lapsed lease, a repeated delivery. In Pay a
lapsed lease and a create that comes back late need one fault and two Pays; two
faults with three attempts, and three with four (13.8 million states), were
checked with the same result and take too long to run each time. `MaxAttempts`
and `MaxRefunds` are above what the faults can spend, so they never stop a Pay
or a delivery. `Rounds` is 2 where the code has 3, and `PaymentAttempts` 2 where
it has 3: one more repeats the last. Three requests are what it takes for one to
wait for a Cart, another to consume it and a third to make a new one; three
calls, for two to wait in a circle while another waits for the pool; three
transactions, for one to commit between another's check and its commit while a
third holds a Store's row. `MaxLine` is 2 where the code has 99: two adds reach
it and a third passes it. Two runs and two changes are what it takes for an old
read to return after a newer one; `MaxRequests` bounds the reads that nobody has
to make (pages, and Connects of a connected Store), Connects of a Store without
an account and events are unbounded. Two tokens are enough because a session
expires when there is no other.

In `mc_discounts`, discounts are redeemed only while both are of one reward
(`MCLimitedRedeemed`): no step of a redemption looks at the reward, and the
other rewards would only multiply the states. Two calls and the limits 1 and 2
are what a race for the last use takes.

Symmetry is used where no definition tells the values apart, and never with
liveness. Deadlock is checked in all runs but the webhook's, the Cart's and the
Stripe account's: there the behaviour rightly ends, when all events are answered
or all requests have ended.

**Fairness.** A running Pay, delivery, run, call or request goes on, because
the server runs it, its statements return or fail, and its Stripe requests have
a timeout; Stripe answers a create it has taken in. Faults are never fair. What
else is assumed:

- `PayRecovers`: somebody presses Pay again, since the code has no other way to
  recover. The fairness of `MCPay` has it.
- `PayIsAnswered` needs no more than that a running Pay goes on. A Pay looks
  again only when another has moved the Order on, which after the first attempt
  costs a fault or the end of a session, and the bounds on these limit that as
  well as `Rounds` does. So the run shows that a Pay gets an answer among other Pays, lost answers and kept
  errors; it does not show that the limit on looking again is needed.
- `EventsAreAnswered`, `ImplementsLedger`, `PaymentsFollowStripe`: Stripe
  delivers an event again while it is not answered 200. In reality it stops
  after about three days (ADR-0006), so these are conditional on failures ending
  before that; the ADR says refunds still due then need a retry outside the
  webhook, which does not exist yet.
- `PaymentsFollowStripe`: Stripe's failures are ones a retry can help with
  (`Failures = {"retryable"}`). After one that cannot be retried the event is
  answered 200 and the status stays as it was until the next event or page: with
  `"refused"` in `Failures` the property does not hold.
- `ConnectRecovers`: the Merchant presses Connect until there is an account
  (strong fairness, as only the bound on runs can keep them from it), and Stripe
  drops an error it has kept.
- `SignUpRecovers`: a Customer repeats the sign-up, signs in when told that the
  email is taken, and sessions expire, so that the bound on tokens is no
  obstacle.
- `CallsEnd`, `RequestsEnd`: Postgres finds a deadlock, and a lock that is free
  is given.

## What is proved

`PayProofs` proves for every set of Orders and Pays, every assignment of Pays
to Orders and every bound, from `PayAssumption` alone:

- `PayTypes`: `Spec => []TypeOK`
- `PayOneLiveSession`: `Spec => []OneLiveSession`
- `PayMoneyHeldOnce`: `Spec => []MoneyHeldOnce`
- `PayHeldMoneyIsShown`: `Spec => []HeldMoneyIsShown`
- `PayReplacedOnlyWhenSpent`: `Spec => ReplacedOnlyWhenSpent`
- `OrderPageTellsOfHeldMoney`: `PageSpec => []PageTellsOfHeldMoney`

None of the properties is inductive: a Pay about to reserve or to redirect acts
on what it read long ago. The invariant `Inv` says what such a reading is still
worth. `OwnSession`: an Order's recorded session is a session of that Order's
current attempt. `PayKnows`: a Pay about to reserve either read a state that
has moved on since, so its UPDATE changes nothing, or the session it read is
spent, and spent sessions stay spent; a Pay about to record or to redirect
holds a session of the attempt it names. `DeliveredSettled`: a session that was
delivered and is not the Order's recorded one is spent. From the last one, two
sessions that are payable, or hold money, are both the recorded one.

The Order page adds `PageKnows`: of a session that held money when the page was
opened, and still does, what the page has read so far tells (`PageSees`); and
`AccountKnown`, because a page without an account asks nobody. The first attempt
at this proof failed where the model was wrong: `Open` had taken the held
sessions of every Order for the viewed one's, which one Order in `MCPay` could
not show.

`WebhookProofs` proves, for all sets of Orders, Variants,
payments and Workers, all quantities and all bounds, from `WebhookAssumption`
(and, for the sum, `FinitePayments`: in a run there are finitely many payments):

- `WebhookTypes`: `Spec => []TypeOK`
- `OnePaymentPerOrder`: `Spec => []PaidByExactlyOne`
- `OnlyDeclinedPaymentsReturned`: `Spec => []OnlyDeclinedReturned`
- `RefundedPaymentsReturned`: `Spec => []RefundedIsReturned`
- `ProcessedEventsAreDone`: `Spec => []ProcessedIsDone`
- `RefundKeysAreFresh`: `Spec => []FreshRefundKey`
- `WebhookKeepsLedger`: `Spec => KeepsLedger`
- `WebhookDecidesOnce`: `Spec => DecisionsAreFinal`
- `StockIsWhatWasSold`: `Spec => []StockMatchesSales`

The argument is again about memory. A delivery reads a Payment, then asks
Stripe, then writes, and others do the same in between. `Knows` says what it
remembers that stays true: a payment it refunds is declined, and declined
payments stay declined; an attempt it holds was counted, and counts only grow;
an answer that says the money is back means that it is. `OwnAttempt` says that
no two deliveries hold one attempt, and `UnusedKeys` that a key has no answer
before its attempt is claimed: together they give `FreshRefundKey` and make a
delivery's request its own. `Money` ties `charge` to `payments`. Each of the
three kinds of step that change more than a delivery has a lemma of its own:
`RefundInv` (Stripe answers), `DecisionMoves` (a Payment's row is written) and
`PaysInv` (a payment moves on at Stripe). For the refinement, `Inv` gives that
a payment recorded for the first time has its money held (`NotYetDecided`),
that one refunded is owed or stuck, and that a recorded refund was made.

`StockMatchesSales` sums over all payments with a fold, that is a recursion on
sets that CHOOSEs an element at each step. The library's induction theorems
cannot be used, so the induction is by hand: `LeastNumber` (from `WFMin`) gives
the least size of a set for which a claim fails, and the claim for the set
without its chosen element refutes it (`SubsetInduction`). So the recursion
defines a function (`SumExists`, `SumIs`), and a sum grows by exactly what one
payment's sale adds (`SumGrows`).

`StockLocksProofs` proves, for any Orders, Variants, payments, calls and number
of connections, from `StockAssumption`:

- `StockLocksTypes`: `Spec => []TypeOK`
- `NoCircleEver`: `Spec => []NoCircle`
- `StockKeepsFence`: `Spec => KeepsFence`, the refinement of `Fence`

`Inv` says of each call what it may hold at each step (`Holds`) and what it
knows of the rows it has (`Has`). Of any set of calls, the one whose Variant to
wait for is the greatest waits for nobody in the set: that is `NoCircle`. For
the refinement, `Untouched` says that nobody changes a row that another has
locked, so what a payment decided under its locks is still so at its commit.

`CartProofs` proves, for all sets of requests and Variants, all operations and
every limit, from `CartAssumption` alone:

- `CartTypes`: `Spec => []TypeOK`
- `CartOneOrder`: `Spec => []OneOrderPerCart`
- `CartWritesWhatItRead`: `Spec => []WritesWhatItRead`
- `CartIsAtomic`: `Spec => AtomicCart`, the whole refinement of `Shopping`

The lock alone does not give them. `Inv` adds what a request has found out at
each step (`Knows`: the lines it holds are the Cart's, and a checkout's Variants
were for sale when it began), that an Order's Cart is never the present one
(`Consumed`), and that a request waiting for a row that is not the Cart's any
more ran while there was none (`Noticed`). `QuietStep` is the lemma that steps
which write no table share; `CommitInv` is the one that does.

`OwnershipProofs` proves, for any Stores, Memberships and transactions, from
`OwnershipAssumption`: `OwnershipTypes` and `OneOwner` (`[]ExactlyOneOwner`). A
check at COMMIT is on a snapshot that others change afterwards, so it is worth
something only because all rows that are, or may become, the owner of one Store
are in the hands of one transaction (`Index`, by part 1), and the transaction
whose Store is checked holds every such row (`Checks`, by part 3): what the
check found is still so when it commits (`Passed`). `Held`, `Gone` and `New` say
that a Store that is referred to is not deleted by another.

Its second part proves, for any number of runs, accounts, changes and
failures, from `StripeAccountAssumption`: `StripeAccountTypes`,
`OnlySavedAccount` (`[]OnlySavedAccountIsLinked`) and `NewestReadWins`
(`[]NeverOlderThanARead`). The first needs `Owned`: what a run is about to read
or link is the saved account, and nothing replaces that. The second needs
`Ordered`: tickets are in the order in which reads began, what is stored was
seen after every read with an earlier ticket began, and no read that has ended
began after one that may still be recorded.

`StoresProofs` proves, for any Stores, Users, hosts and requests, from
`StoresAssumption`: `StoresTypes`, `HostsLeadHome` (`[]EachToItsOwn`) and
`StatusesFollowTheirMachines` (`LegalMoves`). `Alone` says that one request at a
time is about to write a row, and `Knows` that what it read is the row's; a Store
never leaves its Subdomain, nor a domain its Store.

Its second part proves, for any discounts, Orders and calls, from
`DiscountsAssumption`: `DiscountsTypes`, `RedeemedOnce` (`[]UsedOncePerOrder`)
and `RedemptionAnswersAreTrue` (`[]AnswersAreTrue`). `OneHolder` says that the
call holding the lock is alone, `KnowsRow` that what it found stays so until it
commits, and `StaysUsedUp` that a limit once reached stays reached; the count is
then the cardinality of a finite set that grows by one.

Its third part is about `DiscountEngine`, from `EngineAssumption` (there are
parts of a cent and of a percent, slips are whole cents, and NaN and null are no
numbers), `SlipAssumption` and `DiscountsAssumption`. Of a form it assumes that
each of its numbers is an integer of parts or garbage; of a cart, that prices and
shipping are not negative (`parseMoney` takes no sign) and in whole cents, and
quantities whole numbers from 1.

- `AnyQuoteAddsUp`: for any list of rewards of any length, with null or NaN for
  any number and NaN for any price, the quote either adds up or has no total.
- `StoredQuoteAddsUp`: without NaN (as in what is stored) it has one and adds
  up, and the total is not negative when no price is.
- `QuotesAlwaysAddUp` (`[]QuotesAddUp`) says all this of what the Store has
  created and of every preview, and adds that two rewards of different kinds may be
  listed in either order.
- `SharesAlwaysToTheCent` (`[]SharesAreToTheCent`, a part of `QuotesAddUp`): a
  percentage takes whole cents, and none are nearer to its share. Only this needs
  `SlipAssumption`. Half-up cannot be proved, see Findings.

The engine is made of folds, each the solution of a recursion over sets of positions
that `FoldLeft` chooses. `FoldExists` shows by hand that there is one, by
counting up to the last position (`Counting`, from `LeastNumber`), and
`FoldChain` that any solution goes through one partial result per position. The
provers take no operator as a parameter, so the argument that a fold is such a
chain is written once for each of the four: `Selections`, `LineChains`,
`OrderChains` and `PartialSums`. The rest is counting along those chains, with
`RaiseBounds` (a reward leaves what is off between nothing and all) and
`SumsSubtract` (sums are subtracted term by term).

`CustomersProofs` proves, for any hosts, browsers, requests, tokens and faults,
from `CustomersAssumption`: `CustomersTypes` and `CustomersSeeTheirOwn`
(`[]EachSeesTheirOwn`). `HeldIsOwn` carries the second: the session of a token
that a browser holds, in a cookie or in a request on its way, is of a Customer
with the browser's password. An account keeps its password, and a session begins
with a token that nobody holds.

`CatalogProofs` proves, for any Stores, Products, Collections and requests, and
from any catalog without memberships, from `CatalogAssumption`:

- `CatalogMembersOfOneStore`: `[]MembersOfOneStore`
- `CatalogPagesAreTrue`: `[]PagesAreTrue`

For the first, a request's uncommitted memberships hold their Products against
deletion (`Formed`), so they still link what exists when they commit. For the
second, `PagesInv` says of a page that is still being read what the property
says of one that is shown: what it has read and has left to read lies between
what was there all the time and what ever was (`Between`), and so do the tables
while it reads, so the next statement cannot add anything else. `QueryIsRule` is
the lemma that the SQL of a Collection's rule selects what its form asked for.

`OwnershipProofs` and `StoresProofs` each extend two components that share
nothing; the definitions of one of the two are named after it (`OwnershipInit`,
`DiscountsSpec`) so that both can be extended.

Checked by TLC only: liveness, that is `PayIsAnswered`, `PayRecovers`,
`EventsAreAnswered`, `RequestsEnd`, `CallsEnd`, `PaymentsFollowStripe`,
`ConnectRecovers`, `SignUpRecovers` and the fairness part of `ImplementsLedger`
(fairness and ENABLED are beyond the prover). Every safety property of a passing
run is a theorem. No module declares a RECURSIVE operator.

## Findings

- **A refund that was made can be recorded as refused** (`mc_webhook_refusal`).
  Two deliveries of an event retry the refund of one payment at once, each
  under an attempt of its own. Stripe refuses one and makes the other. If the
  refusal is recorded first, `markPaymentRefunded` finds the Payment no longer
  `refund_due` and changes nothing: it stays `refund_failed` although the money
  is back, Pay stays closed on the Order, and the Store is asked to refund it by
  hand. `checkout.ts:31-36` says of that state that the money is still held. It
  takes a refusal that stops being one between two requests (a balance, a
  dispute), and two deliveries at once.

Two places where the code does not do what a comment says, and a property had to
be weaker for it:

- A percentage can be rounded down at half a cent. `discounts.ts:11` says
  "Percent rounds half-up on minor units (cents)", and ADR-0004 that no
  floating-point is used in any calculation. 9.20% of 375 cents is 34.5 cents,
  `375 * 9.2 / 100` is 34.49999999999999, and 34 are taken off. It takes a
  fractional percent and is one cent; the total adds up all the same. So
  `SharesAreToTheCent` says "none nearer", not "half-up".
- A page of a Collection can show what `matchesRule` refuses, see Catalog above.

## Not modelled

- Hostname, redirect and form parsing: no state, well reached by unit tests. The
  partition of hosts that parsing computes is in `Stores`.
- better-auth: a Merchant's session is the library's state. The Operators' list
  and the Roles are guards in `Stores`.
- Row-level security as such: a module models the rows of one Store, except
  `Catalog` (references across Stores), `Stores` and `Customers`. Tests of the
  repository cover the policies.
- `applySchema` as a program: it is run against a test database. What it
  declares is in the modules of the operations it constrains.
- Single queries: addresses, the Merchant's lists of Customers and Orders.
- Pure tables that only tests call: `order.ts` (the code writes `pending` and
  `paid` only), `checkUsagePolicy`, `mergeCarts`.
- Stripe dropping the idempotency keys of sessions and refunds after a day (for
  accounts it is modelled), refunds that fail after Stripe made them, refunds
  made by hand, and disputes: ADR-0006 lists the last three as not handled.
- An infinite number in a preview or a discount (a number field of a form sends
  none), and amounts of 2^53 parts and more.
- `parseMoney` and `formatMoney`, pages, translations of errors into messages,
  logs, repository scripts and CI.
