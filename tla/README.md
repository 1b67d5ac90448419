# A verification project for the SPEEDEX exchange engine

SPEEDEX (namespace `edce` in `src/implementation/src`) is a replicated exchange.
Users submit transactions: payments, account creations, limit orders ("sell
offers"), cancellations.  A *producer* collects them in a mempool and turns
them into blocks; all transactions of a block are executed in parallel, on one
shared in-memory database, and then all offers are cleared in one batch at one
vector of prices.  *Validators* receive the block and must arrive at the same
state, or reject the block and stay where they were.  State is persisted to
several LMDB databases in the background.

This directory holds TLA+ models of the parts in which the order of steps
matters, the TLC runs that check them on small instances, and TLAPS proofs of
the most important safety properties for all instances.  Definitions carry the
names of the C++ functions and variables they model; `PROJECT.json` maps each to
its source lines.  All paths below are relative to `src/implementation/src`.

## 1. Inventory

### Components, their state and their operations

| Component | State | Operations |
|---|---|---|
| **User account** (`user_account.*`, `revertable_asset.h`) | per asset an atomic `available` balance and a `committed_available` one; `sequence_number_vec`, a 64-bit atomic vector; `last_committed_id` | conditional and unconditional transfer; reserve / release / commit a sequence number; commit and rollback of a block |
| **Account database** (`memory_database.*`) | the vector of accounts, the map from ids to indices, accounts created in this block, reserved ids, the commitment trie, persistence and account-creation thunks, an LMDB environment | reserve / release / commit the creation of an account; commit or roll back values and new accounts; produce a state commitment; add, commit, clear persistence thunks; load |
| **Database views** (`memory_database_view.*`) | per transaction: buffered credits, side effects to undo, accounts created so far | escrow and transfer with buffering; commit; unwind |
| **Transaction processor** (`serial_transaction_processor.*`) | the view, the thread's new offers, its part of the modification log | `process_transaction`, `validate_transaction`, one `process_operation` per type of operation, unwind |
| **Block producer** (`block_producer.*`, `log_merge_worker.*`) | remaining block space and block size (atomics), per-chunk bitmaps | a `tbb::parallel_reduce` over the chunks of the mempool; merging of logs and offers |
| **Orderbooks** (`merkle_work_unit*.{h,cc}`) | per ordered pair of assets a trie of committed offers, a trie of new ones, deletion marks, thunks that describe recent blocks | add, mark, unmark offers; clear at given prices; tentative clear, finalize, roll back; persist; load |
| **Modification log** (`account_modification_log.*`) | a trie from accounts to the transactions that touched them; the block file | log, merge, hash, persist, clear |
| **Header map** (`block_header_hash_map.*`) | a trie from block numbers to hashes, the last committed number, an LMDB environment | insert for production, tentative insert / finalize / roll back for validation, persist, load |
| **Mempool** (`mempool.*`) | chunks of transactions, a buffer of new chunks, an atomic size, a cleaning thread | add, push, remove confirmed, join small chunks |
| **Tatonnement** (`tatonnement_oracle.*`) | worker threads that search for prices concurrently, an atomic `done` flag, the shared price vector, a timeout thread | start / finish a query, signal a timeout |
| **Linear program** (`lp_solver.*`) | none between calls | solve, check feasibility |
| **Block logic** (`edce.*`) | none of its own: it orders the operations of all the others | create, validate (with automatic rollback), persist, load and replay |
| **Asynchronous persister** (`edce.h`, `async_worker.h`) | three threads with one slot each | start a persist, wait for it |
| **Node** (`edce_node.*`, `consensus_*`, `rpc/consensus_api.*`) | the previous block, the highest confirmed block, measurements, three mutexes, forwarding threads | produce, validate, forward, acknowledge |

### How they interact

`EdceNode::produce_block` holds the node's locks and calls
`BlockProducer::build_block` (parallel, on database, orderbooks and logs), hands
the mempool to its cleaning thread, then `edce_block_creation_logic`: commit the
new accounts, commit the new offers, compute prices, clear offers, commit the
accounts of the modification log, insert the previous block into the header map.
It then writes header and transactions to disk, queues a persistence thunk and,
every `PERSIST_BATCH` blocks, starts the asynchronous persister.
`EdceNode::validate_block` calls `edce_block_validation_logic`, which does the same
steps tentatively, compares hashes, and finalizes or rolls back.  On a restart
`edce_load_persisted_data` loads every store and replays the blocks that some of
them lack.

### What is hard

* **Interleavings**: any number of threads of the reduction work on one database
  with atomics only; balances, sequence numbers, reserved ids, deletion marks and
  the block space are contended.
* **Partial failure**: a transaction fails in the middle; a block fails validation
  in the middle; both promise to leave no trace.
* **Background threads**: persister, mempool cleaning, log merging, file
  preallocation, forwarding and tatonnement threads communicate by condition
  variables.
* **Crashes**: the stores are persisted one after the other, so a crash leaves them
  at different rounds.
* **Numeric edges**: an 8-bit offset, a 64-bit window, unsigned block counters.

The full list, each with its line and the properties aimed at it, is in
`PROJECT.json` under `hazards`.

### What makes each component correct

* accounts: no overdraft; a sequence number executes at most once, ever;
* transaction processing: atomicity, i.e. when the threads have returned, balances
  and orderbooks are the committed ones plus the effects of exactly the
  transactions of the block; the log covers all changes;
* block producer: the size limit, termination, no transaction ignored without need;
* validation: accepts exactly one successor state, or changes nothing;
* persistence: what is loaded after a crash is the state of some block, each
  effect once; the offers never run ahead of the accounts;
* tatonnement: one winner per query, every query ends;
* persister and node: every batch is eventually persisted, no deadlock.

## 2. Plan

The order follows what a wrong step would cost: money first, then agreement and
durability, then progress.

| Stage | Module | What it models | Status |
|---|---|---|---|
| 1 | `SequenceNumberRules`, `SequenceNumbers` | sequence numbers of one account | done, proved |
| 1 | `TxProcessor` (uses `SequenceNumberRules`) | parallel execution of a block's transactions | done, proved |
| 1 | `BlockSpace` | sharing of the block limit | done, proved |
| 1 | `GridSearch` | workers, timer and driver of the price computation | done, safety proved |
| 1 | `DemandOracle` | helper threads of one worker of the grid search | done, safety proved |
| 2 | `MerkleTrie` | the radix trie of the orderbooks, with metadata and hashes | done |
| 2 | `OrderBook` | what an orderbook promises: the abstract specification | done, proved |
| 2 | `WorkUnit` (over `MerkleTrie`, implements `OrderBook`) | one orderbook through blocks, rollbacks, batches on disk and restarts | done |
| 2 | `Replica` | block validation and its rollback, production, accounts, header map, the three persisters, crashes and recovery | done, safety proved |
| 3 | `TxProcessorProofs` (second part), `BlockSpaceProofs`, `GridSearchProofs`, `DemandOracleProofs` (over `Counting`) | the safety properties of the block, of the shared block limit, of the grid search and of the demand oracle, for all constants | done |
| 4 | `TxProcessorProofs` (`ConfirmedEffectsOnly`), `ReplicaProofs` (`MemoryIsRight`, `DiskIsRight`, `FailuresExplained`) | conservation of money through a block; the memory, the tables and the failures of a node, for every chain | done |

`Replica` stands above `WorkUnit`: it composes accounts, orderbooks, header map and
persisters, and takes over from `WorkUnit` what a single orderbook may do when it is
rolled back (keep a stray offer, or throw).  Two further abstractions are stated as
properties of `Replica` instead of modules of their own: that a block is accepted as
one atomic step or leaves the committed state alone (`MemoryIsRight`), and that every
table holds the state of some prefix of the chain (`DiskIsRight`).

## 3. The modules and the code

A definition whose name is a C++ name models that function; the others are named
for the part of a function they model.  Definitions with a comment that begins
"Mutant:" are not part of any specification: each is a plausible bug in the
definition that follows it, and substituting it makes TLC find a violation of the
property that guards against that bug (`PROJECT.json`, `mutants`).

### SequenceNumberRules, SequenceNumbers

One account and any number of threads.  `sequence_number_vec` is the set of bits
that are set, `last_committed_id` the number the account has committed up to.
`VectorBits` is the width of the vector (64 in the code), `OffsetModulus` that of
the `uint8_t` in which `get_seq_num_offset` returns a distance (256).  Sequence
numbers are counted in units of `MAX_OPS_PER_TX`, as the code does after its shift.
`SequenceNumberRules` holds the pure functions, which `TxProcessor` uses too.
`SequenceNumbers` has one action per atomic operation: `reserve_sequence_number`
(`fetch_or`), `release_sequence_number` (`fetch_and`), `commit_sequence_number`,
and `commit` or `rollback` of the block once no thread is processing.

### TxProcessor

Threads run `process_transaction` on transactions of the mempool against one
database.  Every access to shared state is one step: the reservation of the
sequence number, a load and a compare-and-swap of a balance (`LoadBalance`,
`CompareExchange`), the marking of an offer, the reservation of an account id,
each credit of the commit, each refund of the unwinding.  What a thread keeps in
its `BufferedMemoryDatabaseView` is `available_buffer` and
`available_side_effects`.  An operation that fails leads to the unwinding of those
before it, in the order of the code; an operation type without a case there
(`MONEY_PRINTER`) ends the process with an exception (`pc = "threw"`).
`CommitBlock` is what `edce_block_creation_logic` does with database, orderbooks,
log and mempool when all threads have returned, for prices at which no offer
executes.  `release_account_creation` gets the database indices of the failed
transaction's accounts, as in the code (`memory_database_view.cc:170`), although it
takes ids.  `misreleased` is a history variable: the ids of the block that lost their
reservation in this way although another transaction relies on it.  The views are
keyed by account id where the code has an index for each creation, which is the same
as long as no transaction names one new account twice (`CreationsAssumption`).

### BlockSpace

The bodies of one `tbb::parallel_reduce` reserve and give back slots of the block.
`remaining_block_space` and `total_block_size` are the atomics; every `fetch_sub`
and `fetch_add` is a step.  Which transactions succeed is left open.  `ignored` is a
history variable: transactions that no body looked at.

### GridSearch

`worker[t]` is where a thread of `run_tatonnement_thread` is and the prices it holds,
`timer` the thread of `launch_timeout_thread`, `main` the driver
`edce_block_creation_logic`, from the launch of the timer to its join, the repeated
query after a timeout included.  Prices are reduced to the query they belong to and
the thread that computed them.  One step is one critical section of `mtx` or one
access to an atomic.  `ended_by` is a history variable: who raised
`done_tatonnement_flag` first.

### DemandOracle

The caller and the helpers of one `ParallelDemandOracle`.  The four flags of a
helper and the `done_flag` of `AsyncWorker` are variables; a load that sees a flag
and the store that resets it are separate steps.  Demand is a bag of pairs
`<<work unit, round>>`, so that a unit that is missing, counted twice, or computed at
the prices of another round is visible in the total.

### MerkleTrie

The path-compressed radix trie as `WorkUnit_MerkleTrieT` instantiates it: no locks on
nodes, and the metadata `size`, `num_deleted_subnodes`, `num_rollback_subnodes` and
`endow`.  A node is a record, a trie its root and the cached root hash.  The operators
keep the recursion of the methods and their arithmetic: `InsertNode` and `MergeNode`
return the node and the *delta* of its metadata, as `_insert` and `_merge_in` do, and
add deltas to the cached values instead of summing again.  `RemoveCounted` is the
walk that `perform_marked_deletions` and `do_rollback` share.  `hash_valid` is "the
hash is not `NoHash`", and a hash is the term that is hashed: equal hashes mean equal
contents.  `ReferenceHash`, `WellShaped` and `MetadataExact` are references, not code.
The module has `RECURSIVE` operators and is therefore used with TLC only.

### OrderBook

The abstract specification: a function from keys to amounts.  A block cancels and
adds offers (`Commit`), executes everything below some key, part of the offer at it
and nothing above (`Clear`), and is then kept or undone; kept books are saved (`Save`)
and a restart begins with the saved book.  An undone block returns every older offer;
it may leave new ones behind (`strays`), because the code does.

### WorkUnit

One `MerkleWorkUnit`.  `committed` and `uncommitted` are its tries, `thunks` the records
that `tentative_commit` opens, clearing completes and the persister or a rollback
consumes, `disk` and `persisted` the LMDB table and its round.  `phase` follows one
block: `processing` (`add_offers`, `delete_offer`, `undelete_offer`), `committed`,
`cleared` or `failed`, `hashed`, and back to `idle` by `finalize`, `rollback_validation`
or, when the transactions of the block were invalid, `AbandonBlock`, which leaves
marks and new offers where they are.  A producer clears a supply of its own choice,
any number of half units (`FractionalAsset`); a validator clears what the header says.
`Headers` is a constant, any set of combinations of the three fields: a header may be
wrong in the key or the amount or contradict itself, and is then refused by the
clearing or by `check_sanity` after it.  A finished block uses the keys of its offers
up (`used`); those of a block that failed, or that was not on disk when the process
died, may come again.  `attempts` only bounds the exploration.  `persist_begin` takes the
thunks under the lock and `persist_commit` commits the table, so that blocks, rollbacks
and crashes fall in between.  `exists_partial_exec` has no initial value in the code;
an undo that reads it before it was set may see either value.  The exceptions of an
insertion into a root that lost its children (`UndoThrows`) and of `write_thunks` on an
offer that holds less than was executed of it end the behaviour but for a restart.

The refinement mapping is `AsBook(Contents(committed))` for the abstract book, the
phases for the abstract stages, and the table and the books of finished blocks for
what is saved.  Hashing, marks and the two halves of a save are stuttering steps.

### Replica

A node above its data structures.  What an account or a book holds is the set of the
*effects* applied to it (`<<block, "tx">>`, `<<block, "fill">>`): a lost, repeated or
foreign effect is visible, and a hash is the set itself.

| Variable | Code |
|---|---|
| `db`, `fresh`, `trie`, `creation`, `thunks` | `database` with available and committed values, `uncommitted_db`, `commitment_trie`, `account_creation_thunks`, `persistence_thunks` |
| `books`, `pending`, `undo`, `left` | orderbooks, their uncommitted part, and the thunks of work units (to undo a block, to save finished ones) |
| `hmap` | `block_map` and `last_committed_block_number` |
| `stale` | what the cache of `account_modification_log` holds between a recovery and the first block after it |
| `stage` | the block that each of the three persister threads has in its slot |
| `table` | the table of accounts, as committed and as synced (phase 1 does not sync, phase 2 does) |
| `disk` | tables of the orderbooks and of the header map, each with its round |

`Receive` to `CheckHash` are the steps of `edce_block_validation_logic`, with a failure
at each of its returns; `RollBack` is what the destructors of the four rollback objects
do, in their order.  `ProduceBlock` is the producer's path, `PersistCritical` and
`HandOver` follow in both.  `WriteAccounts`, `ForgetCreation`, `ToSync`, `Sync`,
`SaveUnit` and `SaveMap` are the persisters' steps, one per transaction or critical
section.  `Crash` may fall anywhere; it keeps the synced or the written accounts (the
machine or only the process failed), reloads the tables, and `ReplayRound` to
`FinishLoad` are `edce_load_persisted_data`, itself subject to crashes.  A validator
that restarts goes on after the last loaded round, as `singlenode_validator.cc` does;
a producer's `prev_block` starts empty, as in `EdceNode`.  `shared` says whether
recovery finds transaction files under their numbers: a validator writes them under
the number plus 1000000 (`edce.cc:311`), so that it does only where a producer's files
are at hand.

`instant` are the accounts of a block whose new offers are cleared as they are added.
`ReplayRound` logs them, since `ValidatingSerialManager::add_offer` logs to whatever log
it is given and `ParallelTrustedReplay` gives it the real one; it does so whether or not
a table is behind, and nothing clears the log before the next block.  `Log` is the log
of a block with these entries merged in, `CheckHash` compares it with the right one, and
`LogDiffers` says when `diff_with_prev_log` runs, which throws when it does not find the
file of the block.  A block that fails before its transactions but after the rollback
object of the log is there clears the entries, one that fails earlier does not: hence
the choice in `RejectHeader`.

The chain is a constant.  `ChainAssumption` says of it what an honest producer ensures: a
block touches accounts that exist, creates accounts that do not, pays accounts that exist
after it, and a faulty block fails one of the checks.  The loops over vectors of thunks
are written once, as the recursive function `Loop`, and `Upto`, `Beyond` and `WriteThunks`
are its uses.

## 4. The runs

Bounds are the smallest at which the cases named here happen.

| Run | Instance | Shows |
|---|---|---|
| `sequence_numbers` | two threads, the widths of the code (64 and 256), numbers at both ends of the window, several blocks committed or rolled back | `NoDoubleUse`, `NoReplay`, `ReleaseNeverThrows` and the inductive invariant `SlotsOwned` |
| `block_space` | chunks of 1, 2, 3, 0 and 2 transactions; one body and a limit of 4, or two bodies and a limit of 8 | `WithinBlockLimit`, `SpaceAccountedFor`, `NothingIgnoredIfItFits`, `ReductionEnds` |
| `tx_processor` | two threads, two blocks, accounts 0, 1 and (not yet created) 2 and 3, so that ids and database indices meet, four mempools; a vector of 4 bits and a modulus of 8 | atomicity of transactions on balances (`ConfirmedEffectsOnly`) and orderbooks (`OffersMatchConfirmed`), `NoOverdraft`, `ExecutedOnce`, `CreatedOnce`, `LogCoversChanges`, and the inductive invariant's `ViewsConsistent` |
| `grid_search` | three workers, two blocks with up to two queries each | `PricesAnswerQuery`, `PublishedOnce`, `NoSearchDuringSetup`, `TimeoutBelievedIsReal`, `QueriesAnswered`, `BlocksFinish` |
| `demand_oracle` | two helpers, two queries of one or two rounds, zero to four work units | `RoundComplete`, `PricesStable`, `CleanStart`, `EverythingEnds` |
| `work_unit` | three keys of three digits, one of them on disk at the start, amounts 1 and 2, up to three blocks begun, of which two are kept at most and the others fail or are lost, eight headers (empty book; nothing, a part, all of an offer or more than it holds; three that contradict themselves), up to two offers in a thread's trie; producer or validator | `TriesConsistent`, `HashOfBook`, `DiskIsBook`, `RollbackRestores`, and the refinement `ImplementsOrderBook` |
| `replica` | two orderbooks, five blocks, four of them in two batches, the third creates an account, the fourth clears a new offer at once; eight kinds of faulty block, one received; up to two crashes | `MemoryIsRight`, `DiskIsRight`, `FailuresExplained`, `BatchesPersisted` |

Why these bounds are enough to meet the interesting cases: two threads suffice for
every race on one atomic, and the four mempools of `tx_processor` contain a payment
that only succeeds if another arrives first, a transaction that fails after spending,
a number used twice and one outside the window, a cancelled offer that is restored,
an account that is created twice and used in the next block, and a failed creation
whose index is the id that another transaction has reserved.  Two blocks show
what one block leaves behind for the next.  In `block_space` an empty chunk and a
chunk larger than what is left occur.  In `demand_oracle` four units over three
shares leave a remainder, and fewer units than shares leave empty ones; two queries
show flags left over from the first.  The keys of `work_unit` form a trie of two levels,
so that merging meets all of its cases (two leaves with one key when the offers of a
failed block come again), splits go through a subtree and deletions
contract nodes; two blocks fit into one batch or into two, and up to two failed blocks
precede one that is kept, with other offers or with the same.  In `replica` the first batch is on disk, or on its way
through the persisters, while the second is validated, the second crash may
fall into the recovery from the first, and a recovery at the fourth block, which
leaves its instant offer in the log, is followed by the fifth; `CHECK_DEADLOCK` is off because the chain ends
and a process that threw stays dead.

### Disagreements with the code's own statements

Five runs check a statement that the repository makes and that its code does not
keep.  TLC's counterexample is the explanation.

* `sequence_numbers_far`: `NoReplay` fails for a number a full turn of the `uint8_t`
  (256 units) beyond the next one: its offset is 0, it is accepted, the commit advances
  `last_committed_id` by one, and the number is accepted again.
  `merkle_work_unit_manager.h:400` relies on "uniqueness of sequence numbers".
* `block_space_race`: "We'll guarantee that we don't exceed a block limit"
  (`block_producer.cc:80`) fails with two bodies.  While the counter is negative
  because one body has subtracted and not yet compensated, another returns more
  than it took.
* `tx_processor_reservation`: "process_operation is a no-op if it returns false"
  (`serial_transaction_processor.cc:369`).  A failed `CREATE_ACCOUNT` leaves its id
  reserved, since the unwinding releases the database index of the account instead.
* `grid_search_timeout`: "return true iff timeout causes tatonnement end"
  (`tatonnement_oracle.h:178`).  The timer stores that value after the critical
  section in which it woke the workers; the driver can read it before and treat
  prices that timed out as prices that clear the market.
* `replica_noop`: "If fails, no-op." (`edce.cc:254`).  A block with an invalid
  transaction returns before the rollback objects are armed (`edce.cc:380`): what its
  other transactions did stays in memory.

Other departures from what one would expect are not contradicted by a statement of the
repository; the properties of `WorkUnit` and `Replica` name them as exceptions, and hold
everywhere else:

* a block that fails after `commit_new_accounts` keeps its new accounts and its creation
  thunk (`memory_database.cc:204` compares with `>`), so that the right block of that
  number is refused or throws;
* `check_valid_state` reads an index that was never set for a new account;
* replay credits sellers again when orderbooks are behind the accounts, and leaves
  orderbooks uncleared because a test is inverted (`merkle_work_unit_manager.cc:509`);
* replay over a header map that is not empty cannot save it (`block_header_hash_map.cc:57`);
* a restarted producer begins at block 1 again and throws;
* replay of the last persisted round, which always takes place, logs offers that were
  cleared at once into the real modification log (`merkle_work_unit_manager.h:470` and
  `:502` lack the guard that `log_modified_accounts` has), so that the next right block is
  refused for its hash or the comparison of the logs throws;
* a failed creation releases the database index of its account as if it were an id
  (`memory_database_view.cc:170`): where ids are small numbers it can release what another
  transaction has reserved, and the account is created twice (`misreleased`);
* `write_thunks` brings back an offer that was created and cancelled in one batch, and
  keeps offers of a batch in which one block cleared the book and another did not;
* `rollback_validation` can leave a new offer at the threshold key, the only offer of a
  book, or an offer at key zero.

### Fairness

* `BlockSpace`: weak fairness of every body.  `parallel_reduce` runs all its tasks,
  and no step of a body waits.
* `GridSearch`: weak fairness of the driver, the timer and what a worker does apart
  from finding an equilibrium, since runnable threads are scheduled and condition
  variables are notified.  Finding an equilibrium is not fair (a market need not
  have one within the tolerance), nor is waking up, except for the worker with
  `use_in_case_of_timeout`.  `QueriesAnswered` excepts the case in which the timer
  expires before the query begins or before that worker wakes up: the code has no
  protection against it other than the length of the timer, and then does wait
  forever.  For the same reason the run does not check for deadlock.
* `DemandOracle`: weak fairness of the caller and every helper; they spin, so that a
  flag that stays up is seen.
* `Replica`: weak fairness of the persisters as a whole (`Persist`).  They are threads
  that wait only for the slot of the thread after them, and the last waits for nobody;
  while a batch is on its way one of them can step.  Blocks, crashes and recovery are
  not fair.

## 5. What is proved

All proofs are checked by TLAPS to the last leaf, with no bound on the number of
threads, accounts, assets, transactions or blocks.

**Counting** holds lemmas about sums, written as the cardinality of a set of cells so that
no recursion is needed (how the sum changes when one summand does, and that a function
that changes by one summand with every element taken out of a set is such a sum), and
about the highest element of a bounded set.

**SequenceNumbersProofs.**  `NoDoubleUse` is not inductive: it says nothing about which
bits belong to whom.  `SlotsOwned` does.  Every transaction that holds a reservation or
is confirmed in this block lies above `last_committed_id`, the bit at its offset from
there is set, and a transaction that may still release its bit shares it with no
other.  It is preserved because a reservation sets a bit that was clear,
a release clears the bit of its owner only, and the block is committed or rolled
back when nobody holds a bit that is not confirmed.  From it follow `NoDoubleUse` and
`ReleaseNeverThrows`, for all submitted numbers.  `NoReplay` is proved under the
hypothesis `[]NumbersInReach`: no number that the open block confirms is more than
`OffsetModulus` ahead of `last_committed_id` as it is then.  It says nothing of how far an
account gets over its lifetime, nor of numbers that are submitted and refused; run
`sequence_numbers_far` shows that it is needed.

**TxProcessorProofs.**  The inductive invariant is
`TypeOK /\ NoOverdraft /\ ViewsConsistent`.  No overdraft needs what a thread knows
between its steps: a buffer is never negative, so that a commit never takes money; a
side effect is never positive, so that an unwinding never takes money; and what the
compare-and-swap is about to write was tested against the value it compares with.
There is one lemma per action, one step per conjunct the action can disturb.

The second part of the module builds on that invariant, with one further inductive
invariant for each property of the block:

* `SlotsInv`: a transaction that runs or is confirmed lies above `last_committed_id` and
  has its bit set, no two share a bit, and every bit that is set has such an owner.
  `OnceInBlock` follows for all submitted numbers.  `ExecutedOnceHolds` adds
  `SpentBelowLast` (a commit moves `last_committed_id` past all it has executed), which
  is inductive under the hypothesis `[]NumbersInReach`: no transaction runs whose number
  is more than `OffsetModulus` ahead.  Run `sequence_numbers_far` shows what happens
  without it.
* `Views` and `Untouched`, for `LogCoversChanges`: the balance of an account that the
  block has neither logged nor is about to log is its committed balance minus the sum of
  what the running transactions have taken from it.  The sum is over all threads; an
  unwinding reduces it by what it returns, and a transaction that commits has its
  source and its receivers logged, the only accounts its view holds anything of.  With
  `SlotsInv` for the sequence numbers the theorem needs no hypothesis.
* `CreationInv`, for `CreatedOnce`: the accounts of a view are reserved, the views'
  accounts and the owners in `uncommitted_db` are disjoint, and what is reserved does
  not exist, all of it for ids that are not in `misreleased`.  The theorem needs no
  hypothesis: the unwinding hands database indices to `release_account_creation`, an
  index may be the id that another transaction has reserved, and such ids, recorded in
  `misreleased` until the block ends, are the exception that the property names.
* `BooksInv`, for `OffersMatchConfirmed`: a thread's `new_offers` are those of the
  operations its transaction has done plus offers of the block, every done cancellation
  has marked an offer of its own, and owner and offer id name one open offer.  The last
  part is where `[]NumbersInReach` is needed: a number executed twice would make two
  offers with one id.  `SlotsInv` is what keeps an unwinding from removing an
  offer that a confirmed transaction has made in the same thread.

* `EffectsInv`, for `ConfirmedEffectsOnly`: money is conserved at every step, not only at
  the end of the block.  A balance plus what all threads hold of it (side effects until a
  transaction is undone or commits, buffers while it commits) is its committed value plus
  the net effect of the transactions of the block and of those that can fail no more
  (`BalancesInv`).  `ViewInv` says that buffer and side effects of a thread are the net
  effect of the operations it has done, `NewBalance` follows an account that does not
  exist yet from the buffer of its creator to its entry in `uncommitted_db`.  The net
  effect is a sum over a set of operations; `SumOfDifferences` of `Counting` turns it
  into cells.  The hypothesis `[]NumbersInReach` is needed, because a number executed twice
  would count once in a set of transactions.  New accounts in `misreleased` are excepted
  by the property: they may be created twice, and then one of the two entries is lost.

On the instance of run `tx_processor` `NumbersInReach` holds in every reachable state.

**BlockSpaceProofs.**  In the inductive invariant every slot of the block is free, held by
a body or taken by a transaction (`Balanced`, again a sum over the bodies).  While the
mempool fits (`Fits`) there is room for everything that nobody has visited (`RoomInv`);
while one body runs alone (`OneBody`) it overdraws the counter only until it has shrunk
its reservation (`AloneInv`).  `NothingIgnored` is unconditional; `LimitKept` and
`SpaceReturned` are stated for `Fits \/ OneBody`, since run `block_space_race` shows that they
fail with two bodies and a mempool that does not fit.

**GridSearchProofs.**  The invariant says where each thread may be relative to the main
thread: `num_active_threads` counts the workers in a search (`ActiveCounted`); the flag
is down only while results are awaited, and records who raised it (`FlagInv`); a worker
in a search works for the current query (`WorkerInv`); the shared prices are the start
prices until results are ready and the publisher's afterwards (`WorkspaceInv`); a timeout
that the main thread is told of is one of this query (`TimerInv`).  `PublishedOnce` is an
action property, proved from the same invariant.

**DemandOracleProofs.**  The four flags of a helper leave 16 combinations, of which the
invariant allows a few for each place of the caller (`HelperModes`: off, leaving, ready,
given a round, at work, finished).  `TotalInv` says that what the caller has collected is
the demand of the work units before the share it is at; shares are intervals whose ends
are quotients, and the lemmas about them show that they meet without gap or overlap
for every number of helpers and units.

**OrderBookProofs.**  `TypeCorrect` is inductive because `kept` always covers the blocks
from the saved to the last one, which `Save` and `Restart` rely on.  What the abstract
actions promise (price priority, no offer lost by a save or a rollback) is their
definition; that the code keeps it is what run `work_unit` checks as a refinement.

**ReplicaProofs.**  Neither `MemoryIsRight` nor `DiskIsRight` is inductive: the next table
is written from thunks, the thunks were made from memory, and after a crash memory is
made from the tables.  `IInv` closes the circle by saying what each of them *is*, as a function
of the chain and of a few numbers:

* `TablesInv`, `DiskInv`: each table is the chain's at its round, and headers are never
  ahead of orderbooks, nor these of the synced accounts;
* `StagesInv`: `thunks` are exactly those of the blocks after the written round, with the
  values of their own block, `left` the books of the blocks after the saved round, and
  the three persisters work on older and older batches, the second on a written, the
  third on a synced one.  That is why no persister throws;
* `MapInv`: which headers the map has and how far it counts, for either role;
* `AccountsInv`, `BlockInv`: what is committed for an account is the chain's although
  failed blocks leave anything in the available values.  A faulty block cannot be
  committed, because it would need the chain's hash;
* `ExactInv`: while nothing has failed, all of memory in every phase of a block, and the
  creation thunks (consecutive up to the block at work, and empty only if everything
  is written, so that `commit_new_accounts` does not throw);
* `LogInv`: entries are left in the log only by a recovery that replayed a round, never
  in a block that is accepted, and never for a producer that has not lost its blocks;
* `ReplayInv`: recovery, in which each table is at the round before the replayed one or
  beyond it.  When it ends all of them are at the round of the accounts
  (`AllAtOneRound`).

The loops over thunks are evaluated by `SameLoop`, an induction by least counterexample.
`MemoryIsRightHolds` and `DiskIsRightHolds` follow from `IInv`.
`FailuresExplainedHolds` proves the action property from it: a right block applies to
the chain's state (`RightBlockApplies`) and has its hash (`RightBlockMatches`), and each
throw is impossible outside the named cases, of which the stale log of a recovery is one, a crash with tables that recovery
refuses (`CrashSurvived`) included.  The theorems hold for any number of crashes and
faulty blocks, and need `ChainAssumption` only.

The assumptions are those on the constants: `WidthAssumption` (the vector is no wider
than the modulus), `ConstantsAssumption` of each module (transactions and offers are
well-typed, initial balances are natural numbers, there are finitely many threads),
`InitialOffersAssumption` (owner and id name one offer, and the offers of the start are
older than every number still to be used), `CreationsAssumption` (no transaction names one new account twice), `WorkersAssumption` (the main thread and the timer are
no workers of the pool), `ChainAssumption` (section 3); `AmountsPositive` and `HeadersAssumption` are used by TLC only.
TLC evaluates them in every run.

## 6. What is only model-checked

* Liveness (`ReductionEnds`, `QueriesAnswered`, `BlocksFinish`, `EverythingEnds`,
  `BatchesPersisted`): the
  prover does not handle fairness and `ENABLED`.
* `MerkleTrie` and `WorkUnit`, the refinement included: tries are recursive, and what a
  recursive definition computes is beyond the prover.

## 7. What is not modelled, and why

The definitions in `PROJECT.json`'s `map` stand for about 5,400 source lines, 10% of
the implementation directory.  The rest is mostly the second and third variant of each
trie operation, the vendored `xdrpp`, data generators, experiments and numeric code.

* Amounts are natural numbers: overflow of the 64-bit balances is not considered, nor are
  negative amounts, which the code refuses for `MONEY_PRINTER`
  (`serial_transaction_processor.cc:563`) and does not check for payments.
* Offers do not execute in `TxProcessor`'s `CommitBlock` (`WorkUnit` clears them, by
  amounts chosen freely): the prices and amounts
  are 64- and 128-bit arithmetic; the linear program is solved by an external library.
* Relaxed atomics are treated as sequentially consistent.  In `DemandOracle` the code
  pairs each flag with the fences that order the data; elsewhere each property
  concerns one atomic at a time or state guarded by a mutex.
* The memory of a `DemandOracleWorker` after its destructor (its thread is detached)
  and allocation failures.
* Hashing is the identity on what is hashed; serialization and signatures are left out:
  what they compute is immaterial to the order of steps.
* Of the tries, the variants with a lock per node and the parallel traversals: the
  orderbooks' trie has `USE_LOCKS` false and is worked on by one thread at a time.  The
  trie of the account log (`account_merkle_trie.h`) is the set of its accounts, in
  `TxProcessor` and `Replica`: that an account is in it, and what a recovery leaves in it,
  is modelled, which transactions are listed under an account is not.
* `rollback_validation` creates its `lock_guard` as a temporary, so it holds no lock.  The
  resulting race is on the storage of a vector; the model makes the rollback one step.
* Replication: a node's forwarding, confirmations and measurements, with the order in
  which `confirmation_mtx` and `measurement_mtx` are taken.  They carry results of
  measurements and block numbers, no state of the exchange.  A block that arrives out of
  order is one of those that the header check of `Replica` refuses.
* The mempool's buffer, chunk joining and cleaning thread, the preallocation of files
  and the worker that merges logs.
* Fixed-point arithmetic, demand queries and the linear program: numeric code over 64-
  and 128-bit products, without state of its own, and an external solver.
* The legacy block builder, the signature service, experiments, generators and
  utilities (`PROJECT.json`, `not_modelled`): superseded, stateless, or drivers.
* Vendored code (`xdrpp` and others) and generated code.
