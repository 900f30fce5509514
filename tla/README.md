# TLA+ models of Remail

Remail sells access to mailboxes. A buyer places an order for a *code* (one
verification mail) or for a *purchase* (a mailbox with a warranty), pays from a
wallet, gets a mailbox and a token to read its mail with, and is refunded when
the service fails. The supplier of the mailbox earns a share, which is frozen
until the order is beyond dispute. All of this runs in Go handlers over MySQL,
Redis and task queues; most of what can go wrong happens between two database
transactions.

This directory holds TLA+ modules that model that behaviour, TLC configurations
that check it, and TLAPS proofs of what matters most. Paths below are relative to
`src/`, and below `src/internal/` where they name a component.

## 1. The system

| component | state | operations | interacts with | modelled |
|---|---|---|---|---|
| trade | orders, order events | checkout, resume, match, expire, refund, complete, settle, clean up, recover, archive | every component below | yes, `TradeOrder` |
| billing: order money | wallets, ledger, supplier_settlements, idempotency rows | debit, refund, freeze, reschedule, credit, cancel, withdraw | trade, inside its transactions | yes, `Billing` |
| billing: recharge | recharges with query generation and lease; card keys, referral rewards | create, callback, dispatch, claim a query, credit, fail, expire | payment gateways, queue | yes, `Recharge`; cards and rewards no |
| alloc | allocations, order guards, daily usage, inventory cache | allocate, release, readiness | trade, core | `OrderService` as one order sees it; `Allocation` for orders that compete for the mailboxes of domains |
| openapi: tokens | order_tokens | issue, extend, disable | trade | yes, `OrderService` |
| openapi: API keys | api_keys, cached copies, Redis leases | quota, concurrency gate, change, delete | billing, middleware | yes, `ApiKeys` |
| mailmatch: matching | messages, deliveries | scope lookup, ingest, notify | trade, alloc | yes, `OrderService`, `TradeOrder` |
| mailmatch: fetching | fetch tasks with generations | schedule, claim, complete | mail transports, core | planned |
| aftersale | tickets, messages | open, close, withdraw for a supplier | trade, billing | the open ticket, the withdrawal |
| core | projects, products, mailbox resources | import, validate, publish, transfer, delete, restore | alloc, trade | the commands on a domain, in `Allocation`; in trade a mailbox is usable or not |
| lottery | lotteries, entries, payouts | create, enter, claim a draw, rank, split, pay, reconcile | billing | yes, `Lottery` |
| gmail, icloud, daum, proto | resources of one kind | import, validate, maintain | core, outside services | no |
| kitesim | phone numbers, bindings | buy, bind, reconcile | icloud | no |
| proxy | proxies, bindings | bind, reserve | fetchers | planned last |
| iam, governance, dashboard, systemsettings, botdisplay | users, logs, settings | single-row updates and reads | all | no |
| platform, money, businessday, mailbox, mailtransport, appleweb | none | plumbing, pure functions, protocol clients | all | no |
| api, cmd, web, integrations, migrations, deploy | none | interface, tools, clients, schemas | all | no |

### How an order moves

    absent -> pending_payment -> paid -> active -> completed
                    |             |        |  \        |  ^ late mail (purchase): back to active
                    v             v        |   \       |
                 failed     failed + refund|    closed v
                                           +-------> refunded

1. *Checkout* (`trade/app/ports.go`, `checkoutPrepared`, `resumeCheckout`) is a
   loop over the stored status: store the order; allocate a mailbox (own
   transaction in alloc); debit the wallet and mark the order paid (one
   transaction over trade and billing); issue the token (own transaction in
   openapi); activate the order and freeze the supplier's share (one
   transaction). Anything that fails before the payment fails the order, anything
   after it is compensated. A repeated request with the same idempotency key
   enters the loop at the stored status, and so does the recovery scan: several
   handlers may be in the loop for one order.
2. *Delivery*: mailmatch stores the mail and the delivery in one transaction,
   then calls `NotifyMatchedCode`, which completes a code or activates a purchase,
   moves the settlement's deadline and extends the token, all in one transaction.
3. *The lifecycle scan* (`ExpireDueOrders`, every minute) visits one list after the
   other: stale checkouts, undelivered notifications, expired codes, ended
   purchases, due settlements, clean-ups, codes read out.
4. *Refunds* cancel the settlement and credit the wallet in the transaction that
   moves the order. *Clean-up* follows in up to three more transactions: release
   the mailbox, disable the token, record whether both succeeded.

### How the parts beside the order move

- *A recharge* waits for a payment at an outside gateway. The gateway's callback is
  only a hint that makes the row due at once. A dispatcher runs every second: it
  expires what is over and enqueues what is due; a worker claims the query
  (`query_generation + 1`, a lease), asks the gateway, and credits, fails or only
  records, depending on the answer and on what the row has become. The queue may
  deliver a task twice, and the lease may end before the answer comes.
- *A mailbox of a domain* is allocated in one transaction that lists candidates
  without locks, locks the root row of one after the other, looks at each again,
  and writes mailbox, allocation, guard and daily usage. Commands on domains lock
  the same root row, and most of them ask whether the domain serves an order.
- *An API key* is checked against a copy that each server caches for thirty seconds,
  then against a sorted set in Redis that holds one slot per running request. The
  points its orders spend are charged to the key's row with the wallet.
- *A lottery* is claimed in one transaction and drawn in another, which locks the
  lottery and its users, ranks them by what they won and paid, splits the pool and
  credits the wallets in one commit.

### What is hard

`PROJECT.json` lists the hazards at their lines. In short: two handlers in the
checkout loop (a late compensation meets an order in service, a late token an
order that failed); crashes between payment, service and clean-up; notifications
lost after the mail was stored; late mail against completion and settlement;
tickets against settlement; refunds under different keys; wallets that several
orders compete for; deadlines compared strictly in one place and weakly in
another; snapshots read before the lock. Beside the order: answers of queries
whose lease has ended; a dispatcher that expires what a worker is about to credit;
clocks read before a lock is granted; draws that share users, and a credit that
takes their locks in the opposite order; cached keys that are closed elsewhere;
slots that end before their request; candidates read before they are locked;
limits counted before they are charged; a domain deleted or given away while it
serves an order.

### What makes each component correct

- billing: a wallet never pays what it does not hold; each order is charged at most
  once and paid back at most once; each share is in exactly one bucket.
- trade: the order row tells the truth about the ledger; the price has one
  recipient; every order that reaches a deadline moves on; nothing delivered is
  refunded by the system.
- alloc, openapi: an order in service has its mailbox and an enabled token, one
  that is over has neither.
- mailmatch: a stored delivery reaches the order.
- aftersale: an open ticket keeps the money where a refund can take it.
- recharge: one credit per recharge and per payment, an answer that was read in time
  counts, nothing but the gateway's word or the deadline ends a recharge.
- alloc (domains): no address twice within a project, the daily usage is the number
  of allocations, an order's address stays what it is while the order is served.
- API keys: never more requests than slots, no points spent beyond the quota or with
  a closed key, a closed key is out after one life of a copy.
- lottery: each pool is paid once and to the last point, within the bounds of its
  rules, by scores that are true when the draw commits.

## 2. Modules

| module | what it is |
|---|---|
| `TradeConstants` | the orders and the refund keys, shared by all |
| `Billing` | wallet, ledger and settlement; one operator per call |
| `OrderService` | allocation, mailbox state, token, delivery, ticket; one operator per call |
| `TradeOrder` | the order life cycle over both; the actions, `Next`, `Spec` |
| `OrderMoney` | abstract specification: what trade promises about money |
| `TradeProperties` | every property, the refinement mapping, the fairness |
| `MCTradeOrder` | instances for TLC |
| `RechargeContract` | abstract specification: what billing promises about recharges |
| `Recharge` | recharges, dispatcher, query workers, gateway; its properties |
| `LotteryAllocation` | the split of a pool among the ranked entries, no state |
| `Lottery` | lotteries, draws, and the credits of paid points they meet; its properties |
| `ApiKeys` | one key, its copies, slots and quota; its properties |
| `AllocationContract` | abstract specification: what trade relies on when it asks for a mailbox |
| `Allocation` | orders that compete for domain mailboxes, and the commands on domains; its properties |
| `MCRecharge`, `MCLottery`, `MCApiKeys`, `MCAllocation` | instances for TLC |
| `TradeOrderProofs` | type correctness of `TradeOrder`, the theorems about money and delivery, the refinement of `OrderMoney` |
| `TradeDeadlineProofs` | the theorems about windows, settlements' deadlines and tickets |
| `TradeServiceProofs` | the theorems about mailbox, token and clean-up |
| `RechargeProofs` | the theorems about recharges, the refinement of `RechargeContract` |
| `AllocationProofs` | the theorems about domains, the refinement of `AllocationContract` |
| `ApiKeysProofs` | the theorems about keys |
| `LotteryAllocationProofs` | sums over finite sets, and what every split of a pool adds up to |
| `LotteryProofs` | the theorems about draws, on top of it |

The five families stand beside each other: orders, recharges, lotteries, keys and
domains meet in a wallet or in an allocation, and each model carries what it needs
of the other side (`Billing` the wallet under orders, `Lottery` the credits of paid
points, `ApiKeys` the charge and refund of orders, `Allocation` three orders).

**State of `TradeOrder`.** A variable is a column: `status`, `pay`, `startedAt`, `receiveUntil`,
`activatedAt`, `afterSale`, `cleanup`, `refundTx`, `updatedAt` of the orders table;
`settle`, `availableAt` of supplier_settlements; `balance`, `frozen`, `available` of
the two wallets; `debited` and `refunds` for the idempotency keys in the ledger;
`alloc`, `token`, `tokenUntil`, `delivery`, `ticket` of the other components' rows.
`proc` holds the handlers in flight, `now` is the clock.

**Atomicity of `TradeOrder`.** Trade's transactions are opened at READ COMMITTED with
`SELECT ... FOR UPDATE` on the order, the wallet and the settlement, and its updates
repeat the expected status in the WHERE clause. One transaction is therefore one
action. A handler with several transactions is a process: `proc[p].pc` is the label
of its next transaction (`allocate`, `pay`, `issue`, `activate`, `compensate`,
`release`, ...), `NextLabel` is the switch of `resumeCheckout`, `held` its local
`currentAllocation`, `at` a clock value it read earlier, `bad` a clean-up step that
failed. `Crash` may end any handler between two transactions, or stand for an error
returned there. A scan worker that reads a list and then locks the order is one
action where the transaction repeats the list's condition.

**Recharge.** The row's columns are variables (`generation` is query_generation,
`leaseUntil` query_lease_until), `ledger` holds the idempotency keys `recharge:<no>`,
`tasks` the payment queue, `gateway` what the gateway knows. Each statement or
transaction of `billing/infra/repo.go` is an action: `CreateRecharge`,
`NotifyCallback`, `ExpirePendingRecharges`, `ClaimRechargeQuery`; `Ask` is the call to
the gateway and `Reconcile` what `billing/app/recharge.go` does with the answer:
`CreditRecharge`, `FailRecharge` or `RecordRechargeQuery`. A worker is idle, asking or
answered, and `Crash` may take it from either. A clock reading handed to a
transaction may be `ClockLag` old when the lock is granted.

**Lottery.** `ClaimSettlement` is a transaction of its own. The draw is one
transaction at READ COMMITTED whose locks can make it wait, so it is `Rank` (the
lottery's row, then its users in the order of ids, and the scores) and `Settle`
(payouts, wallets, commit). `BeginCredit` and `FinishCredit` are a recharge or a card,
which locks the wallet first and the user afterwards; `BreakDeadlock` is the
database's choice of the draw. `AllocationsOf` is the set of all results the random
weights of `lottery/app/service.go` can lead to, as far as the ledger accepts them
(no amount is negative); `LotteryAllocation` computes the amounts as the code does,
remainders and rounding included. One round of `distributeBonus` is `NextRound`, and
`DistributeBonus` takes as many rounds as there are points to give, each of which
gives one away at least. A ranking is sorted by score, and entries of
equal score stand in any order (`Rankings`), because the code shuffles them first.

**ApiKeys.** `copies` are the `apiKeyState` objects, which requests may still point
at after they left the cache; a copy is named by the request that loaded it. `Begin`,
`Fill`, `Check`, `Reload`, `Admit`, `Finish` are the steps of one request between its
database and Redis calls; `Update`, `UpdateCopy`, `Delete`, `Invalidate` those of a
change, first the row and then the cache of the server it arrived at. What a change
may write (`Changes`) is what `CreateAPIKey` and `UpdateAPIKey` accept
(`KeyAssumption`). Two variables are history: `offSince` says since when the key is
disabled or deleted, `expirySet` when its expiry was last changed. `Admit` and
`Finish` are the scripts of `concurrency_gate.go`, which Redis runs as a whole.
`Charge` and `Refund` are the part of `applyWalletTransaction` that concerns the key.

**Allocation.** A task is one transaction of `Allocate`: `Begin` lists candidates from
what is committed, `Write` stands for lock, second look and writes of one candidate,
`Skip` and `Unavailable` for a lock not granted and a second look that fails, `NextList`
for the next phase or scope, `Conflict` for the guard of an order that another task
serves. Locked roots stay with the task until `Commit` or `RollBack`; what it wrote
is seen by others only then. Commands are transactions under the root's lock. One
is in two actions: `createDomainTx` runs at the default REPEATABLE READ, so its count
of active allocations belongs to the snapshot of its first plain read (`BeginRestore`)
and its writes to the present (`Restore`). Elsewhere the default isolation makes no
difference to what is modelled, because the first read that counts is a locking one:
`CreateRecharge` begins with the wallet's lock and `AssertNoActiveAllocations` reads
FOR UPDATE.

**Faulty forms.** A definition whose comment calls it a faulty form is used by no
action. It is a plausible mistake in the definition after it, and replacing the
latter by it breaks the property that is meant to notice.

**Abstractions of the order models.**
- One buyer and one supplier own every order, so that all compete for the same
  wallets. Amounts are small integers; the price of a mailbox of the buyer's own
  is 0 and a platform mailbox has no supplier (`checkoutAmounts`).
- Time is an integer. Windows are 0 to 3 units. A `now` read before a lock is
  modelled where it matters (`NotifyMatchedCode`, `IssueToken`); in settlement,
  completion and expiry an older `now` only makes the guards stricter, which is
  one of the interleavings already there.
- The mailbox is "healthy" or not. This stands for the status, credential revision
  and validation generation compared by `trade/infra/resource_refund.go`. Kinds of
  mailbox that never break (domain, iCloud) are behaviours in which it does not.
  `RefundUnavailable` is the refund for Microsoft and Daum mailboxes, which compares
  the state of the mailbox again under its lock; those of Gmail and Proto trust their
  list, which may refund an order whose mailbox has just become usable again.
- `AllocateFails` covers exhausted inventory and a mailbox that is not ready. Other
  allocation errors are returned to the caller, which is `Crash`. The readiness of
  Proto and an invalid allocated price take the same path and are not separate.
- `updatedAt` is followed only while an order is paid, where the stale list reads it.
- The batch limit of the lists (200) is beyond the instances.
- The content of mail is left out: a mail is the time it was received.

**Abstractions of the others.**
- Recharge: rows without a snapshot of their gateway's configuration (set aside by
  hand), the replay of a creation by its key, and the referral reward paid with a
  credit are left out. A pause of 0 for EPUSDT covers the delay of EPay.
- Lottery: the waiting time before a claimed draw is taken up again (fifteen minutes)
  is 0, which only adds interleavings; the penalty for tickets, the algorithms of
  lotteries created long ago, the checks of who may enter are left out.
- ApiKeys: one key. `Lag` is an assumption about the surroundings: no database or
  Redis call takes longer. Request counting, the window of requests per minute and
  the counter used without Redis are left out; the clocks of the servers agree.
- Allocation: `off` stands for pending, abnormal and disabled. Choosing among
  candidates (buckets, windows, suffixes) is nondeterministic. The state of the mail
  server and the configuration of products are left out, batch deletion is the single
  one repeated, and the guard of another task is waited for.

## 3. Runs

`CHECK_DEADLOCK FALSE` in each, because at the end of the clock and of the bounded
events nothing may be left to do. Symmetry is used only where no liveness is checked.

| run | module and instance | properties |
|---|---|---|
| `trade_code` | `MCTradeOrder`: 1 code order, 2 symmetric request handlers, 1 worker, clock to 3, 1 fault | `OneRecipient`, `ServedHasMailbox`, `TokenOpenInService`, `ReadHourKept`, `ServiceEnded`, `DeliveredNotRefunded` |
| `trade_purchase` | `MCTradeOrder`: 1 purchase, 1 + 1 handlers, clock to 5, tickets, failing mailbox, fair | `ServedHasMailbox`, `DisputeHoldsMoney`, `ServedToTheEnd`, `MatchNeverRefused`, `PurchaseEnds`, `SupplierSettled` |
| `trade_money` | `MCTradeOrder`: a code and a purchase, balance 3, price 2, withdrawals, clock to 2 | `TypeOK`, `BuyerBalanced`, `SupplierBalanced`, `LedgerMatchesOrder`, `SettlementInStep`, `ImplementsOrderMoney` |
| `trade_progress` | `MCTradeOrder`: 1 code order, clock to 4, 1 fault, fair | `PaidMovesOn`, `PendingMovesOn`, `CodeEnds`, `ServiceComesToEnd` |
| `recharge` | `MCRecharge`: 2 recharges of one method, 2 workers, 1 trade number, 1 pending allowed, clock to 3, 1 lost worker, fair | `LeaseKept`, `EndedForCause`, `PendingBounded`, `AnswerCounts`, `ImplementsContract`, `RechargeEnds` |
| `lottery` | `MCLottery`: 2 lotteries over the same 2 users, 2 workers, 1 credit, 1 lost worker, fair | `PoolPaid`, `WithinBounds`, `TriggerTrue`, `FairDraw`, `DrawEnds` |
| `api_keys` | `MCApiKeys`: 1 key of 1 slot and 1 point, 2 servers, 2 requests, 2 changes, 1 crash | `SlotsKept`, `QuotaTrue`, `ClosedWithinTTL`, `SpendsWhileOpen` |
| `allocation` | `MCAllocation`: 3 orders of 2 projects, 2 workers, 2 domains, 3 commands or midnights | `UsageCounts`, `ServedAddressKept`, `ImplementsContract` |
| `find_*` | `MCTradeOrder`: four small instances | one property each, violated, see Findings |

**Why the bounds suffice.**
- *Orders* meet only in the two wallets, so two orders show their competition and one
  order shows everything else. The races inside checkout need two handlers in the
  loop and a third that has moved the order (the worker). Balance 3 with price 2 pays
  for one order and not for both. A clock of 3 passes the window, the reading hour
  and one instant beyond; a purchase needs 5 for its window, a late mail, the warranty
  and the settlement. One fault is enough to lose one step; a second fault in the
  clean-up only repeats the first. `Ops` selects optional operations (tickets,
  termination, repeated clean-up, withdrawal, failing mailboxes, archiving), each
  present in the run whose properties it threatens. The theorems of section 4 remove
  the bounds altogether from every safety property; liveness rests on the runs.
- *Recharges*: a late answer needs one worker whose lease ended and one that claimed
  after it. A trade number that two recharges claim needs two of one method. The
  window is 2 and the lease 1, so that a lease ends inside the window, an answer comes
  after it, and the clock passes the window with a lag of 1. One pending recharge
  allowed and two created make the limit bite.
- *Lotteries*: two draws overlap when they share users; one of them has three rule
  sets, with a growing pool, a target, and both. Weights 3 and 8 leave remainders and
  make the cap of an entry bite; 20000 paid points are enough to change a ranking. Two
  entries exercise every tier, full and not full, and the deadlock needs one credit.
  The arithmetic of larger lotteries, with many rounds and remainders, is what the
  theorems `AllocationRight` and `BonusDistributed` are for.
- *Keys*: two servers make a copy stale, two requests compete for the slot and the
  point, two changes make the end of one overtake the other. Copies and slots live
  for one unit, a call may take one, and the clock goes to 2: a request can outlive
  its slot, and a copy its key.
- *Domains*: two orders of one project want one address, the third is of another
  project and may share it. `d1` has room for two and belongs to a buyer, `d2` is on
  sale with room for one, so the limit, the scopes and the fallback are all reached.
  One local part per domain makes every choice a conflict. Three commands delete,
  restore and change again.

**Fairness** (`TradeProperties!Fairness`). Time passes. A handler that was not killed
makes its next transaction (weak fairness of `Continue`; it waits for locks but no
handler holds one for ever). The scan runs every minute and visits every list, so
an order that stays on a list, or is on it again and again, is taken up: weak
fairness of the steps that commit once, strong fairness of those that need a
worker, because one worker serves every list and may be busy at any instant.
Nothing is assumed of requests, mail, tickets, administrators, crashes, failing
calls, validation, or of the refund of broken mailboxes: the liveness properties
therefore except an order that waits for such a refund (`RefundPending`). They also
except deadlines at the end of the bounded clock. With unlimited faults nothing
could be promised; `MaxFaults` bounds them.

In `Recharge` the clock goes on and the dispatcher, a goroutine of the server that
runs every second, expires what is over (`ExpirePendingRecharges` with the present
clock). Nothing is assumed of users, workers, queue or gateway: they may stop, and
every recharge still ends. In `Lottery` the clock goes on, the dispatcher runs every
half minute, the queue gives every task to a worker, an idle worker works, the
database ends a deadlock, and a draw that holds all its locks commits. The credit
that waits for a lock gets strong fairness: the database grants locks in the order
they are asked for, while draws that are rolled back ask again. `ApiKeys` and
`Allocation` check safety alone; their requests end or fail within their own calls.

## 4. Proofs

The runs show each property on a small instance, the theorems for every value of
the constants: any sets of orders, handlers, recharges, requests, lotteries and
domains, any prices, windows, limits and bounds. The hypotheses are the named
assumptions beside the constants (`OrdersAssumption`, `MoneyAssumption`,
`ScopesAssumption`, `TradeAssumption`; `RechargeAssumption`; `ConstantsAssumption`;
`BoundsAssumption`, `KeyAssumption`; `LotteryAssumption`, `WeightsAssumption`), which
the runs evaluate, and those the table names.

| theorem | statement | hypothesis |
|---|---|---|
| `TypeCorrect` | `Spec => []TypeOK` | |
| `LedgerCorrect` | `Spec => []LedgerMatchesOrder` | |
| `OneRecipientCorrect` | `Spec => []OneRecipient` | |
| `TradeImplementsOrderMoney` | `Spec => ImplementsOrderMoney` | |
| `BuyerBalanceCorrect`, `SupplierBalanceCorrect` | `Spec => []BuyerBalanced`, `[]SupplierBalanced` | finitely many orders |
| `DeliveredStays` | `Spec => DeliveredNotRefunded` | |
| `SettlementInStepCorrect` | `Spec => []SettlementInStep` | |
| `DisputeHoldsMoneyCorrect` | `Spec => []DisputeHoldsMoney` | |
| `ServedToTheEndCorrect` | `Spec => []ServedToTheEnd` | |
| `ServedHasMailboxCorrect` | `Spec => []ServedHasMailbox` | `ManualOnPurchases` |
| `MatchNeverRefusedCorrect` | `Spec => []MatchNeverRefused` | `ManualOnPurchases` |
| `TokenOpenInServiceCorrect` | `Spec => []TokenOpenInService` | `NoManualCleanup` |
| `ReadHourKeptCorrect` | `Spec => []ReadHourKept` | `NoManualCleanup` |
| `ServiceEndedCorrect` | `Spec => []ServiceEnded` | `NoManualCleanup` |
| `LeaseKeptCorrect` | `Recharge`: `Spec => []LeaseKept` | |
| `EndedForCauseCorrect` | `Spec => []EndedForCause` | |
| `PendingBoundedCorrect` | `Spec => []PendingBounded` | |
| `AnswerCountsCorrect` | `Spec => AnswerCounts` | |
| `RechargeImplementsContract` | `Spec => ImplementsContract` | |
| `UsageCountsCorrect` | `Allocation`: `Spec => []UsageCounts` | |
| `ServedAddressKeptCorrect` | `Spec => []ServedAddressKept` | |
| `AllocationImplementsContract` | `Spec => ImplementsContract` | |
| `SlotsKeptCorrect` | `ApiKeys`: `Spec => []SlotsKept` | |
| `QuotaTrueCorrect` | `Spec => []QuotaTrue` | |
| `ClosedWithinTTLCorrect` | `Spec => ClosedWithinTTL` | |
| `SpendsWhileOpenCorrect` | `Spec => SpendsWhileOpen` | |
| `TriggerTrueCorrect` | `Lottery`: `Spec => []TriggerTrue` | |
| `FairDrawCorrect` | `Spec => FairDraw` | |
| `WithinBoundsCorrect` | `Spec => []WithinBounds` | |
| `PoolPaidCorrect` | `Spec => []PoolPaid` | finitely many users |
| `AllocationRight` | `LotteryAllocation`: there is an allocation, and each one pays out the pool, within the bounds when the pool allows it | an entry; `RuleSet(r)`: numbers, `min <= max` |
| `BonusDistributed` | `DistributeBonus` gives the whole bonus, and nobody more than there is room for | the bonus fits |

Each family also has its type invariant as a theorem. `NoManualCleanup` excludes the
operation by which an administrator repeats a clean-up (`AdminRetryOrderCleanup`);
with it the three properties about tokens do not hold (finding 2).
`ManualOnPurchases` allows it where every order is a purchase: it would release the
mailbox of a completed code whose reading hour still runs. All other operations of
`Ops`, crashes and failing calls are unrestricted.

Every inductive invariant below was first checked by TLC on the instances of the
runs, and each proof has the same shape: the steps are classified, then the
invariant is kept by every class.

*Type correctness* is inductive by itself. The one place where it says more than
types is `balance \in Nat`: the debit is guarded by the balance read under the
wallet's lock. Every call of another component gets a lemma, then every action.

*The money of orders.* Some forty actions move money in four ways only.
`TradeOrderProofs` first classifies every step (`MoneySteps`): for each order it
leaves the money alone, or charges the buyer, or holds the share (activation), or
pays the supplier, or returns the price; and moves no other order's money. All later
proofs split on these five cases. `LedgerMatchesOrder` and `OneRecipient` are not
inductive: that an order in service has a settlement needs that a paid one has none
yet, and that a failed order without a debit has none either. `MoneyInv` relates
status, ledger, refund and settlement of each order and is inductive; both
properties and the refinement follow from it. `AdminKeys` must not contain the
system's own key: the code prefixes it with the order number.

*The sums.* `BuyerBalanced` and `SupplierBalanced` count orders with `Cardinality`. A
step adds one order to the set that is counted or removes one (`Counting`, from the
library's theorems on finite sets), and the wallet moves by one price or share.

*The deadlines of orders.* As far as windows, settlement and tickets are concerned an
order rests, advances through checkout, starts, is delivered, refunded, ended or
disputed: `Moves` names the seven ways and `NextMoves` shows that every step moves
every order in one of them. `DeadlineInv` is the strengthening. A frozen share falls
due with the order while it is served and not before it afterwards; a credited one
was due; a ticket is about an order that was served, and excludes a credited
share. The last clause is inductive only together with the deadlines: a ticket is
accepted up to the end of the window, the settlement needs the end of the window, and
a purchase that is completed has reached it.

*The service of orders.* What breaks these properties in code is a handler that acts
on what it read before another one moved the order. `HandlerInv` says for every label
what its handler still knows of its order, and that it can only have become more true
since: a mailbox or a token is taken only by a handler whose order is `Over`, and an
order that is over stays over (`OverStays`), also in the eyes of a clock read earlier.
A code is over when its reading hour has passed, not when it is completed, which is
why the proof needs `TradeDeadlineProofs`, and why a purchase that a late mail takes
back into service is never over. `ServiceInv` adds for each order that mailbox and
token are missing only when it is over.

*Recharges.* `RechargeInv` says of each worker that its claim is not newer than the row
and that an answer is what the gateway still says (it is final), of two workers that
their claims differ, and of a row that status, ledger and trade number agree. The user's
open recharges are counted although the set of recharges may be infinite: those that
were created are finitely many. `AnswerCounts` follows because a failed recharge whose
payment was read in time can be credited still. The refinement maps every answer that
is written to `Credit`, to `Fail` or to a stutter, and the dispatcher's update to one
`Fail` of a set of recharges.

*Allocations.* `RootsApart` (two transactions never hold one root) and `GuardsApart` (nor
one order) carry the rest: what a transaction found under the root's lock
(`WrittenSound`: the domain is as it was, the address was never given to the project,
the day's usage is below the limit) is still so when it commits, because only a
holder of the root changes it. An allocation of a deleted and recreated domain is
recognised by its address and not by its row, which is what `Fresh` of the contract
needs.

*Keys.* `ApiKeysInv` has three parts. `Timely` follows a value of the row on its way
into a request: every copy, loaded value and change under way was true of the row
at some time not longer ago than its time stamp admits (`TrueAt`), across reloads and
the late ends of changes. `SlotInv` says of every set of holders, and not of all of them
only, that it is within the limit of a member: the last one let in, which
counted the others. So stated it survives the end of any holder. `PointInv` counts the orders charged.

*Lotteries.* `RowsApart` says that two draws under way hold different lotteries and no
common user, and `RankingTrue` that the scores a draw ranked by are those at its
commit, since the rows of its users are locked. `FilledInTime` relates the number of
entries to the time the last one came. That tiers fall with the rank is a fact
about `Tiers`; for a draw that comes early it also needs that `FitEarlyDraw` finds
its rules (`EarlyRules`). `PoolPaid` alone is not inductive: a draw pays
`total_amount`, so `Funded` says that this column is worth what the entries made it
from the creation on, whichever entry wrote it last. Each payout is then added to a
wallet exactly once, because a ranking is a bijection between places and users.

*The arithmetic of a split.* Sums over finite sets are a recursion over data, for which
the library's induction theorems cannot be used: they take an operator as a parameter.
`LotteryAllocationProofs` states induction for sets instead. `LeastOf` comes from the
library's theorems on well-founded relations, which need no such parameter;
`NumberInduction` and `SetInduction` say that a *set* of numbers, or of finite sets, that
is closed under one step more contains them all, and each use defines that set. From
there: the sum of a set is that of any element and the rest (`SumRemove`), whatever
element `CHOOSE` takes first; sums of unions, of renamed elements, and of sums.
`DistributeBonus` is correct because a round takes no more than the rest, puts nobody
above the cap (`RoundOf`), and gives away a point at least while anything is left:
when the shares, rounded down, leave a rest, some payout is open still, and the
remainders order the open ones without a tie, so that one of them gets a point at
least and no more of them than there are points (`ToppedUp`). The even split gives its
remainder to as many payouts as it is points, wherever it begins (`TurnedCount`).
`EnsureVariation` moves points between two payouts and never past a bound
(`VariationKept`). `FixedAllocationExact` puts lucky, normal and consoled payouts in a
row; `FallbackRight` is the even split. It follows that the ledger's check, a part
of `AllocationsOf`, never refuses a draw (`PoolSplits`), and that `distributeBonus` never
returns its error for want of an open payout.

*What the proofs changed in the models.* `ClosedWithinTTL` once counted from one time
since which the key was closed. Its proof did not go through, and TLC on a larger
instance showed why: a key is disabled, gets an expiry, and is enabled again when that
has just passed. It was closed all along, yet a request that read its clock a moment
before the expiry meets the new copy and is let in, as it should be. A key that is
off and a key whose expiry has passed are therefore counted apart. `Rankings`,
`AllocationsOf` and `DistributeBonus` of the lottery were restated so that they can be
reasoned about (the last by rounds, and sums by the community module's operators
in place of a recursion of their own), with the same results.

*Only model-checked* is liveness: `PurchaseEnds`, `SupplierSettled`, `PaidMovesOn`,
`PendingMovesOn`, `CodeEnds`, `ServiceComesToEnd`, `RechargeEnds` and `DrawEnds`. Fairness
and ENABLED are beyond the prover. Every other property of the passing runs is a
theorem.

## 5. Findings

Four statements of the documents that the code does not keep, each with a run that
finds the behaviour:

1. `find_partial_cleanup`. docs/13-quality-matrices.md:371: the scan recovers every
   partial clean-up. A *completed code* whose clean-up failed in part is on neither
   list (`trade/infra/repo.go:1093`, `:1102`).
2. `find_token_disabled`. docs/3-trade-fulfillment.md:197: the token is disabled only
   at the end of the service. `AdminRetryOrderCleanup` (`trade/app/ports.go:2145`)
   disables the token of an order in service; its mail can then no longer complete
   it, since `ExtendOrderToken` fails in the same transaction.
3. `find_late_token`. docs/9-openapi-credentials.md:92: the token is disabled when the
   service ends. A handler may issue it after another one failed and cleaned up the
   order (`trade/app/ports.go:2783`).
4. `find_dirty_pending`. docs/13-quality-matrices.md:370: no dirty pending order is left.
   The order is committed before the checkout goes on, and the recovery list joins the
   allocation guard (`trade/infra/repo.go:1028`), which such an order lacks.

Observed and not made into runs:

- docs/1-core-mailbox-project.md:517 and docs/2-allocation-routing.md:276: deletion must
  prove that no allocation is active. The owner's deletion of a private domain
  (`core/infra/resource_repo.go:2319`, `:2618`) does not ask. `ServedAddressKept` excepts
  the orders it meets (`dropped`); without the exception `Allocation` shows it.
- `createDomainTx` (`core/infra/resource_repo.go:495`) counts active allocations in
  its REPEATABLE READ snapshot. An order allocated after the snapshot, whose domain its
  owner deletes, sees the domain restored for another owner: again only through the
  exception above, so that closing the first gap closes this one.
- docs/9-openapi-credentials.md:120: a deleted key can no longer authenticate. Other
  servers let it in until their copy ends; `ClosedWithinTTL` bounds that, and
  `SpendsWhileOpen` shows that it buys nothing.
- docs/4-mailmatch-real-service.md:84, :162 and docs/13-quality-matrices.md:445: at most one
  active fetch per resource, which is reused. `CreateOrReuseResourceFetch`
  (`mailmatch/infra/resource_fetch_repo.go`) reuses it for the same idempotency key only;
  another key raises the generation while the earlier worker still fetches.
- docs/4-mailmatch-real-service.md:84: the dispatcher recovers stale fetches. It
  enqueues a fetch and marks it `processing` afterwards; a worker that fails in between
  returns the row to `pending` with the same generation, the mark follows, and no
  list contains `processing` rows.
- docs/1-core-mailbox-project.md:196: `validating` resources become `pending` at the
  service's start, and overdue ones are recovered. The dispatcher
  (`core/api/tasks.go`, `core/infra/resource_validation_redis_repo.go`) lists `pending`
  rows only.
- Archiving sets `archived_at` and keeps the status, while
  docs/3-trade-fulfillment.md:88-92 draws it as a transition to closed. A delivery
  may be stored for a code refunded a moment before. `AdminRetryOrderRefund` serves
  failed orders that were charged and not refunded, of which `LedgerMatchesOrder`
  shows there are none. A handler with an old clock may take a completed and credited
  purchase back into service.

## 6. Plan

The modules above were written in this order: the order life cycle with its money
and service, then recharges, lotteries, keys, and the competition for mailboxes.

| next | what | properties or theorems |
|---|---|---|
| 1 | `MicrosoftResource`: one resource's credential shared by validation, token refresh and mail fetching, each with its generation | only a token rotated from the stored one is stored; the revision tells the token; every task ends |
| 2 | the other families of mailboxes in `Allocation`, first Microsoft with its aliases | the same contract |
| later | one list of the scan with its limit; the binding of proxies; the pool of phone numbers | |

## 7. Not modelled

- *Withdrawals for suppliers* (aftersale): the ticket is closed and the supplier debited
  in one transaction under the ticket's lock and with an idempotency key. The
  debit is in `Billing`; the ticket adds no step another actor could come between.
- *Cards, referral rewards, transfers between balances*: one transaction each under the
  lock of the row it consumes; a lottery's draw meets them as `BeginCredit`.
- *Mail fetching and validation* keep generations and are planned (1). The other
  families of mailboxes, their import and maintenance, are conversations with outside
  services whose outcome the models take as "usable or not".
- *Proxies, phone numbers*: independent of orders and money; later.
- *iam, governance, dashboard, systemsettings, botdisplay*: updates of single rows,
  append-only logs and reads, with nothing beyond the row to state.
- *platform, mailtransport, mailbox, appleweb, money, businessday, api, cmd, web,
  integrations, migrations, deploy*: plumbing, protocol clients, conversions,
  interfaces, tools and schemas. What the models take from them is that a transaction
  commits as a whole and that the queue may deliver a task again.
- *In the modelled parts*: quotes and price lists, order events, the outbox that calls
  buyers back, statistics, wording of messages. None of them decides a transition.
