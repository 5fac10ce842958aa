# A TLA+ model of the ShoppingWeb shop

ShoppingWeb is a shop made of Spring Boot services (catalog, cart, order,
payment, a gateway, a shared security library), a Next.js front end and two C++
command-line tools for ciphers and hashes.  This directory holds TLA+ modules that
model the parts of it where several processes have to agree - placing an order
and settling it, the pages that drive them, the gate between them - and the two
parts of the C++ tools that are protocols: streaming contexts behind a C API, and
files shared by runs of the cipher tool.  TLC configurations check them on small
instances, and proofs establish most of the properties for every instance.

## 1. Inventory

### Components

| Component | State | Operations | Talks to |
| --- | --- | --- | --- |
| order-service: `OrderService`, `OrderController` | orders, items, shipping data (MySQL); one pooled connection | create an order, read orders, set a status | cart and catalog (Feign), gate (in process) |
| order-service: `PaymentSecurityGateway` | cached approvals, pending authentications (memory) | validate a transition, verify an additional authentication, tell payment requirements | risk scoring |
| shared-security: `TransactionSecurityService` | none | six checks, weighted score, decision | catalog (`RestTemplate`, no timeout) |
| cart-service | a cart with items per user (MySQL) | get or create, add, set a quantity, remove, clear | - |
| catalog-service: products | products with name, price, stock, active flag | read, create, update, deactivate | - |
| catalog-service: accounts | users | register, log in, deactivate | - |
| payment-service | transactions (unique order id), audit log (MySQL); one pooled connection | process a payment behind an HMAC filter | order-service (`RestTemplate`, no timeout) |
| front end: checkout page | local cart, page state | synchronise the cart, order, pay | gateway |
| front end: cart and catalog pages | the local cart in `localStorage` | add, change, remove | - |
| front end: admin pages | loaded orders, a local copy of the products | verify an order, edit products | gateway |
| front end: chat | history in `localStorage`, a broadcast channel | send, reply | - |
| gateway-service | routes | forward | all services |
| shared-security: events, metrics | counters, sliding windows (memory) | publish, count (no caller) | - |
| hash tool: streaming C API and its Python front end | contexts, a last error per thread | new, update, copy, final, free, last error | OpenSSL |
| cipher tool | ciphertext, tag and output files | encrypt, decrypt | OpenSSL |

### What is hard, and what correct means

*Order placement* is one database transaction around remote calls.  It reads
the cart first and clears it last.  In between, customers and admins act, other
requests run, and calls fail or are executed late.  Correct: no unit is
ordered twice, none is lost or made up when nobody interferes, a refused
request costs nothing, the stored total fits the stored items, prices that
changed stop a large order, and a request that hangs in a call to another program
holds up nobody else's for ever.

*The gate and the risk scoring* read the catalog again, twice, and turn what
they find into a number.  Correct: the number does what its thresholds are
for, at the boundaries too; an approval in the cache is used for what was approved.

*Settlement* is a transaction in one service that changes the database of
another before it commits.  Correct: an order is charged at most once however
payments are retried, its status can be explained by its payments, and an
admin's verification of a paid order is not overwritten.

*The browser* is a client that retries, keeps its own cart, and does not look at
every answer.  Correct: a retry does not double the order, what the page says
happened did happen.

*Accounts, chat, local cart, cart row creation* are check-then-act and
read-modify-write patterns.

*The C API* is a calling protocol: contexts are addresses that are reused, errors
are read by a second call.  Correct: a digest is of the chunks its owner fed in, an
error text is the caller's own, no context is leaked or freed twice.

*The cipher tool* writes two files one after the other.  Correct: a decryption
returns one whole encrypted text or none, and only a genuine pair costs the output
file its contents.  The code has two exceptions, which the model has too: CCM compares
no tag when the ciphertext file is empty, and empties the output; and a write of the
output that is cut short may pass unnoticed.

`PROJECT.json` lists every hazard at its line, with the properties that cover it.
Where the code lets a hazard's bad outcome happen, a property cannot forbid it.  What is
checked then is a limit: that it needs the disturbance named in a hypothesis - a customer
who is not `calm`, pages that are not `serene`, challenges that are `crowded`, a failed
payment, a CCM ciphertext that is empty.  The "note" of each such hazard says what is left
open.

## 2. Modules

| Module | What it is |
| --- | --- |
| `RiskScoring` | the scoring and decision of `TransactionSecurityService`, pure operators |
| `OrderLedger` | abstract: what order placement promises a customer |
| `OrderPlacement` | `createOrder` with cart, catalog, gate, pool, failures, crashes; EXTENDS `RiskScoring` |
| `MCOrderPlacement` | instances of it for TLC |
| `OrderPlacementProofs` | type correctness, at-most-once ordering, conservation of units, refinement of `OrderLedger` |
| `OrderGateProofs` | bounds of the scores, and the gate's invariants in `OrderPlacement` |
| `OrderTotalsProofs` | sums over sets, and the totals of the stored orders |
| `Settlement` | `processPayment`, the status update, the admin page |
| `MCSettlement` | instances of it for TLC |
| `SettlementProofs` | type correctness and all the properties of `Settlement` |
| `ApprovalLease` | abstract: whom the gate lets through |
| `PaymentGate` | the gate's two maps under threads, clocks and restarts; implements `ApprovalLease` |
| `MCPaymentGate` | an instance of it for TLC |
| `PaymentGateProofs` | type correctness, its invariants, the refinement of `ApprovalLease` |
| `CheckoutPage` | the pages of one browser; EXTENDS `OrderPlacement` |
| `MCCheckoutPage` | instances of it for TLC |
| `CheckoutPageProofs` | the composition takes steps of `OrderPlacement` only; both properties of its passing run |
| `DigestStreaming` | the streaming half of the hash tool's C API and its clients |
| `MCDigestStreaming` | instances of it for TLC |
| `DigestStreamingProofs` | all the properties of its passing run |
| `AeadCalls` | the AEAD functions as sequences of OpenSSL calls, and the order OpenSSL asks for |
| `CipherFiles` | runs of the cipher tool on shared files; EXTENDS `AeadCalls` |
| `MCCipherFiles` | an instance of it for TLC |
| `CipherFilesProofs` | all the properties of its run: outputs, the order of the calls, the round trip |

### OrderPlacement

A request `r` walks through `pc[r]`:

    new -> waiting -> getCart -> fetch* -> gate -> hash* -> price* -> decide
                                             \-- cached approval --------> save
        decide -> save -> clearing -> cleared -> ok

and ends in `ok`, `refused` (404, 403) or `failed` (500).  Each arrow is one
remote call or one local computation of `createOrder`, in the order of the code:

| Variable | Code |
| --- | --- |
| `cart` | the items of `Cart` in the cart-service |
| `price` | `Product.price` in the catalog-service |
| `orders` | committed `Order` and `OrderItem` rows |
| `approved`, `pendingAuth` | the two maps of `PaymentSecurityGateway` |
| `clears` | DELETE /api/cart calls sent and not yet executed |
| `units`, `quote`, `total`, `todo` | the local variables of `createOrder` and its loops |
| `seen` | what `validateProductIntegrity` and `validatePriceAccuracy` have found |
| `origin` | the User-Agent and address of the request |
| `added`, `removed`, `sold`, `calm` | history, read by no guard but the bound on `added` |

Modelling decisions:

- The cart-service and the catalog-service have a pool of one connection, held
  from an operation's first query to its end, so that each of their operations
  is one step.  The order-service's own pool is the constant `PoolSize`: that it
  is 1 keeps the checkouts of a customer apart, which the most important theorem
  depends on.
- A call that changes something elsewhere is a message: `SaveAndSendClear` sends
  it, `ExecuteClear` executes it whenever it arrives, `LoseClear` loses it, and
  the sender may fail (its time limit, a lost reply) before or after either.
  Calls that only read are one step; their failure is `Fail`.
- A rollback undoes the rows of the transaction and nothing else.
- `CheckHash` abstracts SHA-256 to equality of what is hashed.  The catalog's
  answer passes through the same conversion in `createOrder`, in the hash and
  in the price check, so that the code's `equals` on decimals compares like with like.
- Quantities are the natural numbers the pages send.  A stored order implies a
  committed transaction; whether the customer sees the answer is the client's story.
- The signature of the controller is a free choice to refuse.  User and session
  id are never null there.
- What the additional authentication would do later is left to `PaymentGate`.

### Settlement

A payment `t` goes `new -> waiting -> getOrder -> insert -> put -> commit -> ok`.
`puts` are the status updates under way, `status` the orders' status in the
order-service, `transactions` the committed rows of the payment-service, `list`
what the admin page has loaded.  The unique `order_id` makes a second `Insert`
wait while the first transaction is open and fail once it has committed
(`DuplicateOrder`).  The update is executed by the other service at once, so it
survives a rollback of the payment.  The HMAC filter is a free choice to refuse.

### PaymentGate

`OrderPlacement` has the gate inside one checkout, with the checks behind its
decision; `PaymentGate` has it as an object shared by threads, with any decision.

| Variable | Code |
| --- | --- |
| `approvals` | `approvedTransactions`: the expiry of a key's entry, 0 if there is none |
| `pending`, `deadline`, `failures` | `pendingAuthentications` and the fields of its values |
| `rpc` | a request in `validatePaymentTransition` |
| `vpc`, `on`, `read` | a call of `verifyAdditionalAuthentication`, its token, `failedAttempts` as it read it |
| `clock` | the system clock |
| `earned`, `wrong`, `crowded`, `settled`, `late` | history |

The maps are concurrent, so that one access is one step; the value found is shared
by the calls that found it, and its counter is a plain `int`, so that reading and
writing it are two steps (`WrongCode`, `Increment`).  A restart forgets both maps.
Nothing in the repository calls the verification, so any thread may, for any token.

### CheckoutPage

One browser of one customer with tabs that show a cart page or a checkout page, over
the steps of `OrderPlacement`.  `local` is `vault_cart` in `localStorage`;
`shown` and `copy` are the copies that pages made of it when they were opened.
`confirmPayment` goes `open -> syncing -> ordering -> paying -> success`: the
items are posted one by one (`PostItem`, a step with `AddItem`), the order is a
`Submit`, and the answer of the payment request is not looked at.  Every request may
be answered with an error or not at all.  `PassesHmacFilter` compares the headers the
page sends with those that `HmacVerificationFilter` asks for.

`asked` counts what the customer wants; `serene` says that no *hitch* has happened
yet.  The hitches are the places where the code itself gives up on keeping stored
cart, service cart and orders together, and each is a conjunct at its action:

- a stored cart edited from an outdated copy, or dropped after it was changed;
- a confirmation while an earlier attempt has left units in the cart of the
  service, or may still change it, or another page is at work;
- an item post that is refused (the loop does not look) or not answered;
- an order's or a payment's answer that is lost, a page reloaded in the middle.

### DigestStreaming

A client is a thread that follows `hash_gui.py`: new, update, copy, update the copy,
finish both, free both, and `last_error` after a failed call.  `Style` tells the callers
that pass a buffer at once (`stream_demo`, the test) from those that ask for the length
first (`hash_gui.py`).  A digest is represented by the chunks it is of, a context by
what it was fed and whether it is finished.  Addresses are reused at once.

### CipherFiles

Encryptions and decryptions are processes on the same three files.  Opening for
writing empties a file and is a step of its own; a write may be cut short, noticed
(the stream's state is tested) or not (what is written when the stream is
destroyed), in any of the files; a run may be killed anywhere.  Of empty data nothing
is written, as in `write_file`.  `Torn` is any mixture.  "write failed" is a decryption
that ended after it had opened its output.  A
ciphertext and a tag are represented by the encryption and the text they are of.
`owner` and `quiet` record whether a pair was made and read without interference.
`AeadCalls` says which OpenSSL calls `encrypt_gcm_ocb`, `encrypt_ccm` and their
inverses make, in which order, and which order OpenSSL accepts; OpenSSL itself is
not in this repository, and its part is marked external.  `NoTagCompared` is the case
in which `decrypt_ccm` returns `tag_valid` without having compared anything.

## 3. What is checked

| Run | Instance | Shows |
| --- | --- | --- |
| `order_retry` | one customer, one product, two requests, at most 2 units | `OrderedAtMostOnce`, `CalmCheckoutConservesUnits`, `RefusedRequestKeepsCart`, and that placement implements `OrderLedger` |
| `order_pricing` | two products, one request, prices 200 and 201, threshold 650, two origins | `StoredTotalIsSumOfItems`, `HighValueOrdersAtLivePrice`, `ApprovedOrdersAreTolerable` |
| `order_answers` | two customers, one connection, fairness | `HangsHoldUpNobodyElse` |
| `order_live_price` | one product, prices 100 and 300 | counterexample to `DifferingTotalIsRefused` |
| `settlement_retry` | two payments for one order, one for another, two connections | `ChargedOnce`, `PaidIsAccountedFor`, `ChargedOrderIsNotPending`, `SettledOrderStaysSettled` |
| `settlement_pending` | one order, two payments | counterexample to `OnlyPendingOrdersAreCharged` |
| `gate_challenges` | two requests of one user and total, four calls, restarts | `SettledForGood`, `ThreeStrikes`, and that the gate implements `ApprovalLease` |
| `checkout_page` | one product, a checkout tab, a cart tab, two order requests | `SereneCustomerGetsWhatSheAsked`, `SuccessHasOrder` |
| `checkout_paid` | one product, one request | counterexample to `SuccessHasPayment` |
| `digest_streaming` | a client of each style, four addresses, two kinds of chunks | `DigestIsOfOwnChunks`, `ReportedErrorIsOwn`, `EveryContextHasOneOwner` |
| `digest_two_pass` | one client of the two-pass style | counterexample to `SecondPassDelivers` |
| `cipher_files` | two encryptions and a decryption of the first, an empty and another text | `OutputIsOneEncryptedText`, `OutputFileIsAuthentic`, `RoundTrip`, `LegalEncryptionSucceeds` |

The type invariant of each module is checked by one of its runs.

Why these bounds are enough to be interesting:

- Ordering a unit twice takes two requests of one customer.  `MaxUnits = 2`
  lets the cart hold something while another unit has been ordered, or be
  refilled between a request's failure and the arrival of its clear.
  With a larger pool TLC finds the double order in this instance (this is
  the mutant of `Begin`).
- Prices 200 and 201 differ by no more than the tolerance and the totals of several
  units by more; the threshold lies between three units and four.  Above it one point
  decides, that of the price check; below it two items can fail the hash comparison
  while the total is off, where one point decides again.  Five differing prices, the
  other limit of `ApprovedOrdersAreTolerable`, take five products: that is left to the
  proof.
- The pool of two in `settlement_retry` is larger than the configured one:
  with one connection the unique key is never contended.
- `gate_challenges`: an approval lives for two ticks, a challenge for one, and the
  clock stops at four, so that an approval can expire, be earned again and be used
  within one run; four calls are one more than a challenge has attempts, and two of
  them can overlap.  Calls are symmetric: their challenge is chosen in `Init`.
- `checkout_page`: two units of one product and two requests are what a doubled or
  lost unit, and a retry after a failed order, need.  `MaxAsked` bounds what the
  customer asks for.  Requests are symmetric, all being of one customer.
- `digest_streaming`: four addresses let both clients hold a context and a clone, or
  one reuse what the other has just freed; two chunks before the clone and one after
  tell a shared state from a copied one.  Addresses and data are symmetric.
- `cipher_files`: two writers are what it takes to mix files of two encryptions; the
  settings contain one for each way through the four functions, the empty text is the
  case CCM treats differently.  The other settings, and two decryptions that write the
  output at once, are left to the proofs.
- `MaxUnits` bounds `AddItem` and `SetQuantity`, `MaxChunks` the updates; requests,
  payments, calls and runs are finitely many, and every other variable is bounded by
  these.

`CHECK_DEADLOCK FALSE`: the systems stop for good once their requests or runs are
answered or over and the bounds are used up.

Fairness (`FairSpec`, used by `order_answers` only): weak fairness of `OwnStep(r)` for
each request, that is of its own computation and of the end of its wait for a connection,
which the pool limits to 30 s.  Nothing is assumed of a step that waits for another
program (`AwaitingStep`): the gate's `RestTemplate` has no timeout, and the datasource of
application.yml:8-14 sets none for its statements and commits, so that these may hang for
ever; a Feign call ends after 60 s, but with a rollback, which is the database's again.
Nor is anything assumed of customers, admins, the arrival of a clear or a crash.
`HangsHoldUpNobodyElse` says of each request that it is answered if its own awaited
steps go on - wherever the other one, which may have the only connection, hangs.  It
is the timeout of the wait that this rests on: the mutant has it fire only when a
connection is free.  A `RestTemplate` without a timeout is also why
`Settlement` has no liveness property, `fetch` without one why the pages have
none; the gate's and the tools' operations are called by clients that may stop at any time.

### Four places where the code and the documents differ

1. `order_live_price`: BoSung.md:10 says an order is refused at once if its
   total differs by 1 VND from the recomputed one.  In the code this costs 25 of
   100 points (33 with the hash check's eight) and the order is approved with
   monitoring, below the high-value threshold.
2. `settlement_pending`: BoSung.md:11 says it is ensured that an order is
   PENDING before it is paid.  `processPayment` does not look at the status.
3. `checkout_paid`: the comment at checkout/page.tsx:153 announces the payment
   transaction.  The request lacks the headers the HMAC filter asks for, its answer
   is not looked at, and the page reports success without a transaction.
4. `digest_two_pass`: hash_gui.py:209-216 describes a sizing call followed by the call
   proper.  For `ctx_final` and `ctx_final_xof` the sizing call has finished the
   context already, and the second one is refused or delivers another digest.

## 4. What is proved

All proofs are checked by TLAPS, for every value of the constants that satisfies
the named assumptions (`RequestsFinite`, `ProductsFinite`, `UsersOfRequests`, `OriginsTyped`,
`PricesPositive`, `SizesNatural`; `OrdersOfPayments`, `PaymentsFinite`, `PoolNatural`;
`KeysOfRequests`, `LivesPositive`; `CustomerIsUser`, `MaxAskedNatural`;
`StylesTyped`, `NullIsNoHandle`, `MaxChunksNatural`; `UndoesTyped`, `ChosenTyped`,
`EmptyTextIsText`).

- `OrderPlacementProofs!SerialAtMostOnce`: no unit is ordered twice in a behaviour in
  which no two checkouts of one customer overlap (`OneAtATime`), for any pool size.
  `OrderedAtMostOnce` is not inductive: an order is committed from what was read
  long before.  The invariant `OrderInv` adds that the units sold, together with those
  in the cart (`CartIsUnsold`) or with those a request has read (`ReadUnitsAreUnsold`),
  are no more than were added; that after the clear all three together are not
  (`ClearedUnitsAreGone`: what was read has left the cart, so that the commit may
  move it); that an order's request has been answered, and that a request with
  items orders something.  TLC checked it on the instance of `order_retry`
  before it was proved.
- `OrderPlacementProofs!PoolOfOneSerializes`: with `PoolSize = 1`, `application.yml`'s
  setting, no two checkouts overlap at all.  `AtMostOnce`, `ImplementsLedger` and
  `CalmConserves` are the general results with this one; with a larger pool they are
  false, unless the customers themselves wait for one checkout to end.
- `OrderPlacementProofs!SerialImplementsLedger` follows: adding maps to `Add`, a commit
  to `Place`, everything else to a stutter.
- `OrderTotalsProofs!TotalsAddUp`: the total is a fold over a set.  `SumExists`,
  `SumsAgree` and `SumWithOneChange` say of such sums that they are defined, do not depend
  on the order of the elements, and change with one element by its difference; they are
  proved by induction over the subsets of a finite set, stated for sets so that
  well-foundedness yields it (`SubsetInduction`).  The invariant `TotalsInv` says that the
  total is at any time the sum over what has been priced so far, and that every
  ordered item has been priced once the loop is over.
- `OrderGateProofs!ChangedPriceStopsLargeOrder`: every score but the price
  score is at most 100, a changed price takes 10 points of the weighted sum and
  the high value 0.75, so that the rounded sum is at most 89.
- `OrderGateProofs!ApprovalTolerates`, by the same bounds: a total that is off takes 25
  points and two bad hashes 16, five differing prices 50, which is more than the 40 an
  approved order can lose.  `FindingsAreLimited` carries it through the steps.
- `OrderGateProofs!LargeOrdersAtLivePrice` carries this through the steps of a
  request: `seen` is what the decision saw, and is not touched later.
- `OrderGateProofs!RefusedKeepsCart` needs only that a clear under way belongs to
  a request that waits for it, or failed after sending it.
- `SettlementProofs` proves all properties of `settlement_retry` for any
  pool size: the key is that a payment between insert and commit excludes
  any other for its order, committed or not.
- `OrderPlacementProofs!SerialCalmConserves`: `CalmInv` adds to the
  conservation law that a clear of a calm customer belongs to a request that waits for
  it (`CalmClearIsAwaited`), that what such a request has read is what is in the cart
  (`ReadUnitsAreInCart`), and what the books say while the clear is executed and the
  order not yet committed (`ClearedUnitsAreAllThereIs`).
- `PaymentGateProofs`: `Standing` ties the pending map to the answers given, so that a
  settled challenge is in it no more; `ApprovalsAreEarned` ties an entry's
  expiry to the moment its key was cleared, from which the refinement follows;
  `CountedSoFar` follows the counter through a call, for challenges that
  calls do not crowd.
- `CheckoutPageProofs!PagesDrivePlacement`: every step of the composition is a step
  or a stutter of `OrderPlacement`, given that a page posts what it shows, at least
  one unit at a time.  What is proved of `OrderPlacement` then holds of the
  composition (`PagesOrderAtMostOnce`, `PagesImplementLedger`, `PagesOrderAtCheckedPrices`).  `SuccessIsOrdered` needs that an accepted
  request has its order, and that a page asks for a payment after acceptance only.
- `CheckoutPageProofs!SereneCustomersAreServed`, for any pool size: `Serenity` says
  where the units are in each phase - posted so far (`CartIsPosted`), in the cart until
  the order reads it and in the order afterwards (`OrderIsShown`), in both the
  stored cart and the order until the page learns of it (`AskedIsAccountedFor`) -, and
  that nobody else can touch them: one page at work, one order of the customer that
  goes on, no clear on its way but that order's.  The gate's invariant is needed as
  well, for a clear to be sent by requests past the gate only.
- `DigestStreamingProofs` proves the three properties for any number of threads and any
  mix of styles: contexts have one owner, so that nobody else feeds, finishes or
  frees them, and hold exactly what was meant for them (`Holding`, `Filled`, `Unfinished`).
- `CipherFilesProofs`: a tag, wherever it is found, belongs to an encryption that has
  read the text the tag is of, and to which it sticks (`TagFileIsOfText`,
  `ReadTagIsOfText`); a decryption goes on only with a valid one (`GoesOnWithValidTag`).
  `OneTextOrNothing` follows with `OnlyEmptyCcmIsUnchecked`: by the order of their calls,
  `decrypt_gcm_ocb` always compares the tag and `decrypt_ccm` does if there is a ciphertext.
- `CipherFilesProofs!OutputStaysAuthentic`, for any number of decryptions into the same
  file: a decryption that returns something has a genuine pair (`GenuineIsOfText`), the
  file changes only by one that opens it or has it open (`OutputChanges`), and what such a
  one has read stays as it is (`OpenedStaysAsItIs`).  It does not say that a run ending
  with success has left its whole text: an unnoticed short write and another decryption's
  write may leave pieces.
- `CipherFilesProofs!LegalCallsAreAccepted`: the four functions' sequences of calls are
  followed call by call, with what has been called so far (`Legal`), in each mode.
- `CipherFilesProofs!RoundTripHolds`: while an encryption has the files for itself they
  hold what it has written (`OwnerIsAlone`, `FilesAreOwners`); a decryption that finds
  them so reads both parts of one pair (`QuietReadsPair`), which is not refused.

Only model-checked: `HangsHoldUpNobodyElse`, which is liveness and out of this prover's reach.
Every invariant and action property of a passing run, and both refinements, are
theorems.  The four counterexamples are instances, found by TLC.

## 5. What is left

Possible next steps, by what they would add: `getOrCreateCart` against the unique user
id with a larger pool, shown to implement the atomic cart operations of
`OrderPlacement`; who holds which connection while waiting for whom, should the
services' pools ever grow and call each other in a circle; the composition of
`Settlement` with `OrderPlacement` (an order that is charged was placed).

### Not modelled

- *Support chat*: pages write one `localStorage` entry from their own copies.  There is
  no promise to hold them to beyond the last writer winning; the same pattern is
  modelled where it costs something, in `EditCart`.
- *Accounts*: registration checks a name and saves later, behind a unique constraint;
  the rest are single statements.
- *Product administration*: only the price change acts on anything modelled
  (`SetPrice`); the page otherwise edits a copy that no service reads.
- *Tokens, PII encryption*: stateless cryptography.
- *Security events and metrics*: no service calls them.
- *API gateway*: routing without state.
- *The HMAC time window*: the only client that signs has no caller.
- *The cart's row creation, the shipping row, read-only queries* of the services.
- *The one-call functions of the C APIs, the classical cipher modes, digests of whole
  files, option parsing, known-answer tests*: functions of their arguments, or plain I/O.
- *Deployment, monitoring, experiments, vendored files.*  Of the repository's C and
  C++ lines about 131,000 are headers of a vendored Apache (`src/web/Apache24`);
  the tools' own C++ is some 3,300 lines.  The services are Java and the pages
  TypeScript, where most of this model's definitions point.
