----------------------------- MODULE TxProcessor -----------------------------
(***************************************************************************)
(* Block production: worker threads run process_transaction on the         *)
(* transactions of the mempool, all against one MemoryDatabase.            *)
(*                                                                         *)
(* A transaction works through a BufferedMemoryDatabaseView: money it      *)
(* receives stays in the view's buffer until the transaction commits,      *)
(* money it spends beyond the buffer is taken from the shared account at   *)
(* once, by a compare-and-swap that refuses to go below zero, and is       *)
(* remembered as a side effect to give back if an operation fails.  Every  *)
(* access to shared state is a step of its own; what a step does besides   *)
(* that is local to its thread.  When all threads have returned, EndBlock  *)
(* commits the block (edce_block_creation_logic, without offer clearing).  *)
(***************************************************************************)
EXTENDS SequenceNumberRules, Sequences, FiniteSetsExt

CONSTANTS
  Workers,
  AccountIDs,          \* ids of accounts, existing or yet to be created
  InitialIDs,          \* accounts of the database at the start
  Assets, NATIVE_ASSET,
  InitialBalance,      \* InitialBalance[a][x]: balance of a in asset x
  InitialOffers,       \* open offers at the start
  Txs,                 \* transactions that are submitted
  Mempools,            \* contents of the mempool to start from
  MinStartingBalance,  \* CREATE_ACCOUNT_MIN_STARTING_BALANCE
  MaxBlocks,           \* bound: blocks produced
  NoTx

OpTypes == {"CREATE_ACCOUNT", "CREATE_SELL_OFFER", "CANCEL_SELL_OFFER",
            "PAYMENT", "MONEY_PRINTER"}

(* One record for all operations.  account: new account or receiver;       *)
(* asset: asset paid or sold; valid: category and price are acceptable;    *)
(* offer: the <<sequence number, operation index>> of an offer to cancel.  *)
Operation == [type : OpTypes, account : AccountIDs, asset : Assets,
              amount : Nat, valid : BOOLEAN, offer : Nat \X Nat]

Transaction == [id : Nat, source : AccountIDs, seq : Nat \ {0},
                wellformed : BOOLEAN, ops : Seq(Operation)]

(* offerId is the sequence number plus the index of the operation.         *)
Offer == [owner : AccountIDs, offerId : Nat \X Nat, asset : Assets, amount : Nat]

ASSUME ConstantsAssumption ==
  /\ AccountIDs \subseteq Nat /\ InitialIDs \subseteq AccountIDs
  /\ IsFiniteSet(Workers) /\ IsFiniteSet(InitialIDs)
  /\ NATIVE_ASSET \in Assets
  /\ InitialBalance \in [InitialIDs -> [Assets -> Nat]]
  /\ InitialOffers \subseteq Offer
  /\ Txs \subseteq Transaction /\ NoTx \notin Txs
  /\ Mempools \subseteq SUBSET Txs
  /\ MinStartingBalance \in Nat /\ MaxBlocks \in Nat

(* No transaction names the same new account twice.  The views below keep  *)
(* balances by account id, those of the code by index, and the two differ  *)
(* once a transaction holds an id twice (it can, if the reservation is     *)
(* lost between its two operations).                                       *)
ASSUME CreationsAssumption ==
  \A t \in Txs : \A i, j \in DOMAIN t.ops :
    /\ i # j
    /\ t.ops[i].type = "CREATE_ACCOUNT" /\ t.ops[j].type = "CREATE_ACCOUNT"
    => t.ops[i].account # t.ops[j].account

(* Owner and offerId name one offer, and the offers of the start are older *)
(* than every sequence number that is still to be used.                    *)
ASSUME InitialOffersAssumption ==
  /\ \A o, p \in InitialOffers : o.owner = p.owner /\ o.offerId = p.offerId => o = p
  /\ \A o \in InitialOffers : o.offerId[1] = 0

Keys == AccountIDs \X Assets
Zero == [k \in Keys |-> 0]

VARIABLES
  (* MemoryDatabase *)
  user_ids,             \* domain of user_id_to_idx_map
  db_size,              \* database.size()
  available,            \* RevertableAsset::available of every account and asset
  committed_available,
  sequence_number_vec, last_committed_id,
  reserved_account_ids,
  misreleased,          \* history: ids of this block whose reservation was
                        \* taken from the transaction that relies on it
  uncommitted_db,       \* accounts created in this block, in order
  (* orderbooks *)
  committed_offers, marked,
  new_offers,           \* of each thread's ProcessingSerialManager
  (* the block under construction *)
  account_log,          \* accounts in the modification log
  mempool, tried,       \* transactions, and those this block has looked at
  to_remove,            \* bitmap: transactions the mempool will drop
  confirmed,            \* transactions of this block
  block,
  spent,                \* history: <<source, seq>> of committed transactions
  (* per thread *)
  pc, tx, op_idx,
  available_buffer, available_side_effects,
  new_accounts,         \* accounts created in the view, in order
  current_available,    \* what the compare-and-swap loop has loaded
  todo,                 \* balances commit or unwind has still to write
  status

dbVars == <<user_ids, db_size, committed_available, last_committed_id, misreleased>>
bookVars == <<committed_offers, marked, new_offers>>
blockVars == <<account_log, mempool, tried, to_remove, confirmed, block, spent>>
viewVars == <<available_buffer, available_side_effects, new_accounts>>
vars == <<dbVars, available, sequence_number_vec, reserved_account_ids,
          uncommitted_db, bookVars, blockVars, pc, tx, op_idx, viewVars,
          current_available, todo, status>>

Op(w) == tx[w].ops[op_idx[w]]
SetPc(w, to) == pc' = [pc EXCEPT ![w] = to]

(* An exception has left process_transaction.                              *)
threw == \E w \in Workers : pc[w] = "threw"

(* process_transaction returns, and its view goes out of scope.            *)
Return(w) ==
  /\ SetPc(w, "idle")
  /\ tx' = [tx EXCEPT ![w] = NoTx]
  /\ op_idx' = [op_idx EXCEPT ![w] = 0]
  /\ available_buffer' = [available_buffer EXCEPT ![w] = Zero]
  /\ available_side_effects' = [available_side_effects EXCEPT ![w] = Zero]
  /\ new_accounts' = [new_accounts EXCEPT ![w] = << >>]
  /\ current_available' = [current_available EXCEPT ![w] = 0]
  /\ status' = [status EXCEPT ![w] = "SUCCESS"]
-----------------------------------------------------------------------------
Init ==
  /\ user_ids = InitialIDs
  /\ db_size = Cardinality(InitialIDs)
  /\ available = [k \in Keys |->
       IF k[1] \in InitialIDs THEN InitialBalance[k[1]][k[2]] ELSE 0]
  /\ committed_available = available
  /\ sequence_number_vec = [a \in AccountIDs |-> {}]
  /\ last_committed_id = [a \in AccountIDs |-> 0]
  /\ reserved_account_ids = {} /\ misreleased = {}
  /\ uncommitted_db = << >>
  /\ committed_offers = InitialOffers /\ marked = {}
  /\ new_offers = [w \in Workers |-> {}]
  /\ account_log = {}
  /\ mempool \in Mempools /\ tried = {} /\ to_remove = {} /\ confirmed = {}
  /\ block = 0 /\ spent = {}
  /\ pc = [w \in Workers |-> "idle"]
  /\ tx = [w \in Workers |-> NoTx]
  /\ op_idx = [w \in Workers |-> 0]
  /\ available_buffer = [w \in Workers |-> Zero]
  /\ available_side_effects = [w \in Workers |-> Zero]
  /\ new_accounts = [w \in Workers |-> << >>]
  /\ current_available = [w \in Workers |-> 0]
  /\ todo = [w \in Workers |-> {}]
  /\ status = [w \in Workers |-> "SUCCESS"]

(* The failures after which a transaction is dropped from the mempool;     *)
(* the others may succeed in a later block.                                *)
delete_tx_from_mempool(st) ==
  st \notin {"SUCCESS", "SEQ_NUM_TOO_HIGH", "SEQ_NUM_TEMP_IN_USE",
             "NEW_ACCOUNT_TEMP_RESERVED"}

(* process_transaction up to the reservation of the sequence number: the   *)
(* checks that refuse a transaction before it has touched anything.        *)
process_transaction_begin(w, t) ==
  LET st == CASE ~ t.wellformed           -> "INVALID_TX_FORMAT"
              [] t.wellformed /\ t.source \notin user_ids
                                          -> "SOURCE_ACCOUNT_NEXIST"
              [] OTHER -> reserve_status(t.seq, last_committed_id[t.source],
                                         sequence_number_vec[t.source])
  IN
  /\ pc[w] = "idle" /\ ~ threw /\ block < MaxBlocks
  /\ t \in mempool \ tried
  /\ tried' = tried \union {t}
  /\ IF st = "SUCCESS"
     THEN /\ sequence_number_vec' = [sequence_number_vec EXCEPT ![t.source] =
               @ \union {get_seq_num_offset(t.seq, last_committed_id[t.source])}]
          /\ tx' = [tx EXCEPT ![w] = t]
          /\ op_idx' = [op_idx EXCEPT ![w] = 1]
          /\ SetPc(w, "op")
          /\ UNCHANGED to_remove
     ELSE /\ to_remove' = IF delete_tx_from_mempool(st)
                          THEN to_remove \union {t} ELSE to_remove
          /\ UNCHANGED <<sequence_number_vec, tx, op_idx, pc>>
  /\ UNCHANGED <<dbVars, available, reserved_account_ids, uncommitted_db,
                 bookVars, account_log, mempool, confirmed, block, spent,
                 viewVars, current_available, todo, status>>
-----------------------------------------------------------------------------
(* Process one operation.  An operation that fails sends the thread to     *)
(* unwind; one that spends money goes on to the debit step.                *)

Fail(w, st) ==
  /\ SetPc(w, "unwind")
  /\ status' = [status EXCEPT ![w] = st]
  /\ UNCHANGED op_idx

NextOp(w) ==
  /\ SetPc(w, "op")
  /\ op_idx' = [op_idx EXCEPT ![w] = @ + 1]

Credit(w, k, amount) ==
  available_buffer' = [available_buffer EXCEPT ![w][k] = @ + amount]

OfferMade(t, i) == [owner |-> t.source, offerId |-> <<t.seq, i>>,
                    asset |-> t.ops[i].asset, amount |-> t.ops[i].amount]

OfferNamed(t, i) == {o \in committed_offers :
                       o.owner = t.source /\ o.offerId = t.ops[i].offer}

OpReady(w, type) == pc[w] = "op" /\ op_idx[w] =< Len(tx[w].ops) /\ Op(w).type = type

OutsideOp == <<dbVars, available, sequence_number_vec, uncommitted_db,
               committed_offers, blockVars, tx, available_side_effects,
               current_available, todo>>

(* Mutant: an id that another transaction has reserved is not refused.     *)
reserve_ignoring_others(id) ==
  IF id \in user_ids THEN "NEW_ACCOUNT_ALREADY_EXISTS" ELSE "SUCCESS"

(* Test and insertion are under one lock.                                  *)
reserve_account_creation(id) ==
  CASE id \in user_ids                          -> "NEW_ACCOUNT_ALREADY_EXISTS"
    [] id \in reserved_account_ids \ user_ids   -> "NEW_ACCOUNT_TEMP_RESERVED"
    [] OTHER                                    -> "SUCCESS"

process_create_account(w) ==
  LET id == Op(w).account
      st == IF Op(w).amount < MinStartingBalance THEN "STARTING_BALANCE_TOO_LOW"
            ELSE reserve_account_creation(id) IN
  /\ OpReady(w, "CREATE_ACCOUNT")
  /\ IF st # "SUCCESS"
     THEN /\ Fail(w, st)
          /\ UNCHANGED <<reserved_account_ids, new_accounts>>
     ELSE /\ reserved_account_ids' = reserved_account_ids \union {id}
          /\ new_accounts' = [new_accounts EXCEPT ![w] = Append(@, id)]
          /\ SetPc(w, "debit")
          /\ UNCHANGED <<op_idx, status>>
  /\ UNCHANGED <<OutsideOp, available_buffer, marked, new_offers>>

process_create_sell_offer(w) ==
  /\ OpReady(w, "CREATE_SELL_OFFER")
  /\ IF ~ Op(w).valid \/ Op(w).amount = 0
     THEN /\ Fail(w, "INVALID_OFFER")
          /\ UNCHANGED new_offers
     ELSE /\ new_offers' = [new_offers EXCEPT ![w] =
                              @ \union {OfferMade(tx[w], op_idx[w])}]
          /\ SetPc(w, "debit")
          /\ UNCHANGED <<op_idx, status>>
  /\ UNCHANGED <<OutsideOp, viewVars, reserved_account_ids, marked>>

(* delete_offer marks a committed offer, atomically and at most once.      *)
process_cancel_sell_offer(w) ==
  LET found == OfferNamed(tx[w], op_idx[w]) \ marked IN
  /\ OpReady(w, "CANCEL_SELL_OFFER")
  /\ IF found = {}
     THEN /\ Fail(w, "CANCEL_OFFER_TARGET_NEXIST")
          /\ UNCHANGED <<marked, available_buffer>>
     ELSE /\ \E o \in found :
               /\ marked' = marked \union {o}
               /\ Credit(w, <<tx[w].source, o.asset>>, o.amount)
          /\ NextOp(w)
          /\ UNCHANGED status
  /\ UNCHANGED <<OutsideOp, new_accounts, reserved_account_ids, new_offers>>

(* AccountCreationView::lookup_user_id also finds the view's new accounts. *)
NewAccountIDs(w) == {new_accounts[w][n] : n \in DOMAIN new_accounts[w]}

process_payment(w) ==
  /\ OpReady(w, "PAYMENT")
  /\ IF Op(w).account \notin user_ids \union NewAccountIDs(w)
     THEN Fail(w, "RECIPIENT_ACCOUNT_NEXIST")
     ELSE SetPc(w, "debit") /\ UNCHANGED <<op_idx, status>>
  /\ UNCHANGED <<OutsideOp, viewVars, reserved_account_ids, marked, new_offers>>

process_money_printer(w) ==
  /\ OpReady(w, "MONEY_PRINTER")
  /\ Credit(w, <<tx[w].source, Op(w).asset>>, Op(w).amount)
  /\ NextOp(w)
  /\ UNCHANGED <<OutsideOp, new_accounts, reserved_account_ids, marked,
                 new_offers, status>>
-----------------------------------------------------------------------------
(* The debit of an operation: UserAccountView::transfer_available with a   *)
(* negative amount, or conditional_escrow.                                 *)
DebitKey(w) == IF Op(w).type = "CREATE_ACCOUNT"
               THEN <<tx[w].source, NATIVE_ASSET>>
               ELSE <<tx[w].source, Op(w).asset>>

new_buffer(w) == available_buffer[w][DebitKey(w)] - Op(w).amount

(* Once the debit is done the operation credits its recipient, if it has   *)
(* one, in the view.                                                       *)
CreditAfterDebit(w, buf) ==
  CASE Op(w).type = "CREATE_ACCOUNT" ->
         [buf EXCEPT ![<<Op(w).account, NATIVE_ASSET>>] = @ + Op(w).amount]
    [] Op(w).type = "PAYMENT" ->
         [buf EXCEPT ![<<Op(w).account, Op(w).asset>>] = @ + Op(w).amount]
    [] OTHER -> buf

(* The view's buffer when the debit has left v in it.                      *)
DebitedBuffer(w, v) ==
  CreditAfterDebit(w, [available_buffer[w] EXCEPT ![DebitKey(w)] = v])

(* The buffer covers the amount: nothing shared is touched.                *)
DebitFromBuffer(w) ==
  /\ pc[w] = "debit"
  /\ new_buffer(w) >= 0
  /\ available_buffer' = [available_buffer EXCEPT ![w] =
                            DebitedBuffer(w, new_buffer(w))]
  /\ NextOp(w)
  /\ UNCHANGED <<OutsideOp, new_accounts, reserved_account_ids, marked,
                 new_offers, status>>

(* conditional_transfer_available, first half: load and test.  A sell      *)
(* offer whose escrow is refused is taken out of new_offers again.         *)
LoadBalance(w) ==
  /\ pc[w] = "debit"
  /\ new_buffer(w) < 0
  /\ current_available' = [current_available EXCEPT ![w] = available[DebitKey(w)]]
  /\ IF available[DebitKey(w)] + new_buffer(w) < 0
     THEN /\ Fail(w, "INSUFFICIENT_BALANCE")
          /\ new_offers' = [new_offers EXCEPT ![w] =
               IF Op(w).type = "CREATE_SELL_OFFER"
               THEN @ \ {OfferMade(tx[w], op_idx[w])} ELSE @]
     ELSE SetPc(w, "cas") /\ UNCHANGED <<op_idx, status, new_offers>>
  /\ UNCHANGED <<dbVars, available, sequence_number_vec, uncommitted_db,
                 committed_offers, blockVars, tx, viewVars, todo,
                 reserved_account_ids, marked>>

(* Mutant: subtract without looking whether the balance is still the one   *)
(* that was tested.                                                        *)
SubtractTested(w) ==
  /\ pc[w] = "cas"
  /\ available' = [available EXCEPT ![DebitKey(w)] = @ + new_buffer(w)]
  /\ available_side_effects' =
       [available_side_effects EXCEPT ![w][DebitKey(w)] = @ + new_buffer(w)]
  /\ available_buffer' = [available_buffer EXCEPT ![w] = DebitedBuffer(w, 0)]
  /\ NextOp(w)
  /\ UNCHANGED <<dbVars, sequence_number_vec, uncommitted_db, bookVars,
                 blockVars, tx, new_accounts, current_available, todo,
                 reserved_account_ids, status>>

(* Mutant: the buffer keeps the negative remainder.                        *)
KeepNegativeBuffer(w) ==
  /\ pc[w] = "cas"
  /\ available[DebitKey(w)] = current_available[w]
  /\ available' = [available EXCEPT ![DebitKey(w)] = @ + new_buffer(w)]
  /\ available_side_effects' =
       [available_side_effects EXCEPT ![w][DebitKey(w)] = @ + new_buffer(w)]
  /\ available_buffer' = [available_buffer EXCEPT ![w] =
                            DebitedBuffer(w, new_buffer(w))]
  /\ NextOp(w)
  /\ UNCHANGED <<dbVars, sequence_number_vec, uncommitted_db, bookVars,
                 blockVars, tx, new_accounts, current_available, todo,
                 reserved_account_ids, status>>

(* Second half: compare_exchange_weak, which may also fail for no reason.  *)
CompareExchange(w) ==
  /\ pc[w] = "cas"
  /\ \/ /\ available[DebitKey(w)] = current_available[w]
        /\ available' = [available EXCEPT ![DebitKey(w)] =
                           current_available[w] + new_buffer(w)]
        /\ available_side_effects' =
             [available_side_effects EXCEPT ![w][DebitKey(w)] = @ + new_buffer(w)]
        /\ available_buffer' = [available_buffer EXCEPT ![w] = DebitedBuffer(w, 0)]
        /\ NextOp(w)
     \/ /\ SetPc(w, "debit")
        /\ UNCHANGED <<available, available_side_effects, available_buffer, op_idx>>
  /\ UNCHANGED <<dbVars, sequence_number_vec, uncommitted_db, bookVars,
                 blockVars, tx, new_accounts, current_available, todo,
                 reserved_account_ids, status>>
-----------------------------------------------------------------------------
(* BufferedMemoryDatabaseView::commit.  Every operation succeeded: add the *)
(* buffers to the accounts (fetch_add, in any order), then hand the new    *)
(* accounts, with what was paid into them, to the database.                *)
OutsideCommit == <<dbVars, sequence_number_vec, reserved_account_ids, bookVars,
                   tx, op_idx, viewVars, current_available, status>>

BeginCommit(w) ==
  /\ pc[w] = "op" /\ op_idx[w] > Len(tx[w].ops)
  /\ todo' = [todo EXCEPT ![w] =
       {k \in Keys : k[1] \in user_ids /\ available_buffer[w][k] # 0}]
  /\ SetPc(w, "commit")
  /\ UNCHANGED <<OutsideCommit, available, uncommitted_db, blockVars>>

CommitCredit(w) ==
  /\ pc[w] = "commit"
  /\ \E k \in todo[w] :
       /\ available' = [available EXCEPT ![k] = @ + available_buffer[w][k]]
       /\ todo' = [todo EXCEPT ![w] = @ \ {k}]
  /\ UNCHANGED <<OutsideCommit, uncommitted_db, blockVars, pc>>

BeginCreation(w) ==
  /\ pc[w] = "commit" /\ todo[w] = {}
  /\ todo' = [todo EXCEPT ![w] = DOMAIN new_accounts[w]]
  /\ SetPc(w, "create")
  /\ UNCHANGED <<OutsideCommit, available, uncommitted_db, blockVars>>

commit_account_creation(w) ==
  /\ pc[w] = "create"
  /\ \E n \in todo[w] :
       /\ uncommitted_db' = Append(uncommitted_db,
            [owner   |-> new_accounts[w][n],
             balance |-> [x \in Assets |-> available_buffer[w][<<new_accounts[w][n], x>>]]])
       /\ todo' = [todo EXCEPT ![w] = @ \ {n}]
  /\ UNCHANGED <<OutsideCommit, available, blockVars, pc>>

(* Mutant: the receivers of payments are forgotten.                        *)
log_without_receivers(t) ==
  {t.source} \union {t.ops[i].account : i \in
     {j \in DOMAIN t.ops : t.ops[j].type = "CREATE_ACCOUNT"}}

(* The accounts a transaction modifies: its source, the accounts it        *)
(* creates and the receivers of its payments.                              *)
log_modified_accounts(t) ==
  {t.source} \union {t.ops[i].account : i \in
     {j \in DOMAIN t.ops : t.ops[j].type \in {"CREATE_ACCOUNT", "PAYMENT"}}}

(* process_transaction returns SUCCESS: the thread's log takes the         *)
(* transaction, and the mempool will drop it.  commit_sequence_number      *)
(* writes nothing.                                                         *)
FinishTransaction(w) ==
  /\ pc[w] = "create" /\ todo[w] = {}
  /\ account_log' = account_log \union log_modified_accounts(tx[w])
  /\ confirmed' = confirmed \union {tx[w]}
  /\ to_remove' = to_remove \union {tx[w]}
  /\ Return(w)
  /\ UNCHANGED <<dbVars, available, sequence_number_vec, reserved_account_ids,
                 uncommitted_db, bookVars, mempool, tried, block, spent,
                 todo>>
-----------------------------------------------------------------------------
(* An operation failed: unwind_transaction takes back the effects that the *)
(* operations before it had on the orderbooks, last first.                 *)
OutsideUnwind == <<user_ids, db_size, committed_available, last_committed_id,
                   uncommitted_db, account_log, mempool, tried, confirmed,
                   block, spent, viewVars, current_available, status>>

(* Mutant: a cancellation is not taken back.                               *)
keep_deleted(t, i) == marked

undelete_offer(t, i) == marked \ OfferNamed(t, i)

unwind_operation(w) ==
  LET i == op_idx[w] - 1
      op == tx[w].ops[i] IN
  /\ pc[w] = "unwind" /\ i >= 1
  /\ IF op.type = "MONEY_PRINTER"   \* cannot unwind unknown op type
     THEN /\ SetPc(w, "threw")
          /\ UNCHANGED <<op_idx, marked, new_offers>>
     ELSE /\ op_idx' = [op_idx EXCEPT ![w] = i]
          /\ new_offers' = [new_offers EXCEPT ![w] =
               IF op.type = "CREATE_SELL_OFFER" THEN @ \ {OfferMade(tx[w], i)} ELSE @]
          /\ marked' = IF op.type = "CANCEL_SELL_OFFER"
                       THEN undelete_offer(tx[w], i) ELSE marked
          /\ UNCHANGED pc
  /\ UNCHANGED <<OutsideUnwind, available, sequence_number_vec, to_remove,
                 reserved_account_ids, misreleased, committed_offers, tx, todo>>

(* Mutant: what was spent is forgotten.                                    *)
KeepSideEffects(w) ==
  /\ pc[w] = "unwind" /\ op_idx[w] = 1
  /\ todo' = [todo EXCEPT ![w] = {}]
  /\ SetPc(w, "return")
  /\ UNCHANGED <<OutsideUnwind, available, sequence_number_vec, to_remove,
                 reserved_account_ids, misreleased, bookVars, tx, op_idx>>

(* BufferedMemoryDatabaseView::unwind: return what was spent, ...          *)
BeginReturn(w) ==
  /\ pc[w] = "unwind" /\ op_idx[w] = 1
  /\ todo' = [todo EXCEPT ![w] = {k \in Keys : available_side_effects[w][k] # 0}]
  /\ SetPc(w, "return")
  /\ UNCHANGED <<OutsideUnwind, available, sequence_number_vec, to_remove,
                 reserved_account_ids, misreleased, bookVars, tx, op_idx>>

ReturnDebit(w) ==
  /\ pc[w] = "return"
  /\ \E k \in todo[w] :
       /\ available' = [available EXCEPT ![k] = @ - available_side_effects[w][k]]
       /\ todo' = [todo EXCEPT ![w] = @ \ {k}]
  /\ UNCHANGED <<OutsideUnwind, sequence_number_vec, to_remove,
                 reserved_account_ids, misreleased, bookVars, tx, op_idx, pc>>

(* ... and give up the accounts it has reserved.  The loop runs over       *)
(* new_accounts, whose keys are indices into the database, and hands each  *)
(* key to release_account_creation, which takes an account id.             *)
BeginRelease(w) ==
  /\ pc[w] = "return" /\ todo[w] = {}
  /\ todo' = [todo EXCEPT ![w] =
       {db_size + n - 1 : n \in DOMAIN new_accounts[w]}]
  /\ SetPc(w, "release")
  /\ UNCHANGED <<OutsideUnwind, available, sequence_number_vec, to_remove,
                 reserved_account_ids, misreleased, bookVars, tx, op_idx>>

(* The ids of this block's accounts: created, or reserved by a transaction *)
(* none of whose operations has failed.                                    *)
Creating(w) == pc[w] \in {"op", "debit", "cas", "commit", "create"}
HeldIDs == {uncommitted_db[n].owner : n \in DOMAIN uncommitted_db}
          \union UNION {NewAccountIDs(w) : w \in {v \in Workers : Creating(v)}}

release_account_creation(w) ==
  /\ pc[w] = "release"
  /\ \E id \in todo[w] :
       /\ reserved_account_ids' = reserved_account_ids \ {id}
       /\ misreleased' = misreleased \union ({id} \intersect HeldIDs)
       /\ todo' = [todo EXCEPT ![w] = @ \ {id}]
  /\ UNCHANGED <<OutsideUnwind, available, sequence_number_vec, to_remove,
                 bookVars, tx, op_idx, pc>>

(* release_sequence_number, and the transaction is dropped from the        *)
(* mempool unless its failure was a temporary one.                         *)
AbortTransaction(w) ==
  LET t == tx[w] IN
  /\ pc[w] = "release" /\ todo[w] = {}
  /\ IF release_throws(t.seq, last_committed_id[t.source])
     THEN /\ SetPc(w, "threw")
          /\ UNCHANGED <<sequence_number_vec, to_remove, tx, op_idx, viewVars,
                         current_available, status>>
     ELSE /\ sequence_number_vec' = [sequence_number_vec EXCEPT ![t.source] =
               @ \ {get_seq_num_offset(t.seq, last_committed_id[t.source])}]
          /\ to_remove' = IF delete_tx_from_mempool(status[w])
                          THEN to_remove \union {t} ELSE to_remove
          /\ Return(w)
  /\ UNCHANGED <<dbVars, available, uncommitted_db, reserved_account_ids,
                 bookVars, account_log, mempool, tried, confirmed, block,
                 spent, todo>>
-----------------------------------------------------------------------------
Quiescent == \A w \in Workers : pc[w] = "idle"

(* The entries of uncommitted_db whose owner has no earlier entry: those   *)
(* uncommitted_idx_map leads to (emplace keeps the first).                 *)
FirstEntries == {n \in DOMAIN uncommitted_db :
  \A j \in 1 .. n - 1 : uncommitted_db[j].owner # uncommitted_db[n].owner}

(* commit_new_accounts on the balances: a new account appears with what    *)
(* its creator paid into it.                                               *)
commit_new_accounts ==
  [k \in Keys |->
     IF \E n \in FirstEntries : uncommitted_db[n].owner = k[1]
     THEN LET n == CHOOSE m \in FirstEntries : uncommitted_db[m].owner = k[1]
          IN  uncommitted_db[n].balance[k[2]]
     ELSE available[k]]

(* Commit the block once every thread has returned, for prices at which no *)
(* offer executes: new accounts, new and cancelled offers, the values of   *)
(* the accounts in the log; then drop the transactions of the mempool      *)
(* whose bit is set.                                                       *)
CommitBlock ==
  LET created == {uncommitted_db[n].owner : n \in FirstEntries}
      dirty == account_log \intersect (user_ids \union created) IN
  /\ Quiescent /\ block < MaxBlocks
  /\ user_ids' = user_ids \union created
  /\ db_size' = db_size + Len(uncommitted_db)
  /\ available' = commit_new_accounts
  /\ committed_available' = [k \in Keys |->
       IF k[1] \in dirty \union created THEN commit_new_accounts[k]
       ELSE committed_available[k]]
  /\ last_committed_id' = [a \in AccountIDs |->
       IF a \in dirty
       THEN last_committed_id[a] + get_seq_num_increment(sequence_number_vec[a])
       ELSE last_committed_id[a]]
  /\ sequence_number_vec' = [a \in AccountIDs |->
       IF a \in dirty THEN {} ELSE sequence_number_vec[a]]
  /\ uncommitted_db' = << >>
  /\ reserved_account_ids' = {} /\ misreleased' = {}
  /\ committed_offers' = (committed_offers \ marked)
       \union UNION {new_offers[w] : w \in Workers}
  /\ marked' = {}
  /\ new_offers' = [w \in Workers |-> {}]
  /\ mempool' = mempool \ to_remove
  /\ to_remove' = {} /\ tried' = {} /\ account_log' = {} /\ confirmed' = {}
  /\ spent' = spent \union {<<t.source, t.seq>> : t \in confirmed}
  /\ block' = block + 1
  /\ UNCHANGED <<pc, tx, op_idx, viewVars, current_available, todo, status>>

(* The last block is done, or an exception has ended the process.          *)
Done == (threw \/ block = MaxBlocks) /\ UNCHANGED vars

Step(w) ==
  \/ \E t \in Txs : process_transaction_begin(w, t)
  \/ process_create_account(w) \/ process_create_sell_offer(w)
  \/ process_cancel_sell_offer(w) \/ process_payment(w) \/ process_money_printer(w)
  \/ DebitFromBuffer(w) \/ LoadBalance(w) \/ CompareExchange(w)
  \/ BeginCommit(w) \/ CommitCredit(w) \/ BeginCreation(w)
  \/ commit_account_creation(w) \/ FinishTransaction(w)
  \/ unwind_operation(w) \/ BeginReturn(w) \/ ReturnDebit(w)
  \/ BeginRelease(w) \/ release_account_creation(w) \/ AbortTransaction(w)

Next == (\E w \in Workers : Step(w)) \/ CommitBlock \/ Done

Spec == Init /\ [][Next]_vars
-----------------------------------------------------------------------------
PcValues == {"idle", "op", "debit", "cas", "commit", "create", "unwind",
             "return", "release", "threw"}

DbTypeOK ==
  /\ user_ids \subseteq AccountIDs
  /\ db_size \in Nat
  /\ available \in [Keys -> Int]
  /\ committed_available \in [Keys -> Int]
  /\ sequence_number_vec \in [AccountIDs -> SUBSET Bits]
  /\ last_committed_id \in [AccountIDs -> Nat]
  /\ reserved_account_ids \subseteq AccountIDs /\ misreleased \subseteq AccountIDs
  /\ uncommitted_db \in Seq([owner : AccountIDs, balance : [Assets -> Int]])

BookTypeOK ==
  /\ committed_offers \subseteq Offer /\ marked \subseteq committed_offers
  /\ new_offers \in [Workers -> SUBSET Offer]

BlockTypeOK ==
  /\ account_log \subseteq AccountIDs
  /\ mempool \subseteq Txs /\ tried \subseteq mempool
  /\ to_remove \subseteq tried /\ confirmed \subseteq tried
  /\ block \in 0 .. MaxBlocks

ThreadTypeOK ==
  /\ pc \in [Workers -> PcValues]
  /\ tx \in [Workers -> Txs \union {NoTx}]
  /\ op_idx \in [Workers -> Nat]
  /\ available_buffer \in [Workers -> [Keys -> Int]]
  /\ available_side_effects \in [Workers -> [Keys -> Int]]
  /\ new_accounts \in [Workers -> Seq(AccountIDs)]
  /\ current_available \in [Workers -> Int]
  /\ todo = [w \in Workers |-> todo[w]]

(* Type correctness of database, orderbooks, block and threads, the        *)
(* relations between block and mempool included (nothing is removed from   *)
(* the mempool that this block has not tried).                             *)
TypeOK == DbTypeOK /\ BookTypeOK /\ BlockTypeOK /\ ThreadTypeOK

(* No account is ever overdrawn, at any moment of the block, whatever the  *)
(* threads spend from it concurrently.  The database relies on it:         *)
(* in_valid_state is false for a negative balance.                         *)
NoOverdraft ==
  /\ \A k \in Keys : available[k] >= 0 /\ committed_available[k] >= 0
  /\ \A n \in DOMAIN uncommitted_db :
       \A x \in Assets : uncommitted_db[n].balance[x] >= 0

(* What a thread relies on between its steps: its transaction is one the   *)
(* block has looked at; what it has still to write are balances, or new    *)
(* accounts of its own; its view's buffers are never negative and its side *)
(* effects never positive (the comments of UserAccountView); a tentative   *)
(* balance, once tested, is not negative.                                  *)
ThreadConsistent(w) ==
  /\ pc[w] # "idle" => tx[w] \in tried /\ op_idx[w] >= 1
  /\ pc[w] \in {"debit", "cas"} => op_idx[w] \in DOMAIN tx[w].ops
  /\ pc[w] \in {"commit", "return"} => todo[w] \subseteq Keys
  /\ pc[w] = "create" => todo[w] \subseteq DOMAIN new_accounts[w]
  /\ \A k \in Keys : available_buffer[w][k] >= 0 /\ available_side_effects[w][k] =< 0
  /\ pc[w] = "cas" =>
       /\ new_buffer(w) < 0
       /\ current_available[w] + new_buffer(w) >= 0

ViewsConsistent == \A w \in Workers : ThreadConsistent(w)

(* What operation i of t does to the balance k, as a function of the       *)
(* transaction alone.                                                      *)
Effect(t, i, k) ==
  LET op == t.ops[i]
      paid(a, x, amount) == IF k = <<a, x>> THEN amount ELSE 0 IN
  CASE op.type = "CREATE_ACCOUNT" ->
         paid(op.account, NATIVE_ASSET, op.amount) - paid(t.source, NATIVE_ASSET, op.amount)
    [] op.type = "PAYMENT" ->
         paid(op.account, op.asset, op.amount) - paid(t.source, op.asset, op.amount)
    [] op.type = "CREATE_SELL_OFFER" -> - paid(t.source, op.asset, op.amount)
    [] op.type = "CANCEL_SELL_OFFER" ->
         MapThenSumSet(LAMBDA o : paid(t.source, o.asset, o.amount), OfferNamed(t, i))
    [] op.type = "MONEY_PRINTER" -> paid(t.source, op.asset, op.amount)

OpsOf(ts) == UNION {{<<t, i>> : i \in DOMAIN t.ops} : t \in ts}

(* Transactions are atomic: when the threads have returned, every balance  *)
(* is its committed value plus the effects of exactly the transactions of  *)
(* the block; a transaction that failed half way has left no trace, and    *)
(* none of the money it moved meanwhile is lost or doubled.  The exception *)
(* are new accounts in misreleased: a second transaction may have created  *)
(* and paid them too, and what it paid is lost.                            *)
ConfirmedEffectsOnly ==
  Quiescent => \A k \in {l \in Keys : l[1] \notin misreleased} :
    commit_new_accounts[k] = committed_available[k]
      + MapThenSumSet(LAMBDA p : Effect(p[1], p[2], k), OpsOf(confirmed))

(* The orderbooks likewise: the new offers are those of the block's        *)
(* transactions, the marked ones those that its transactions cancel.       *)
OffersMatchConfirmed ==
  Quiescent =>
    /\ UNION {new_offers[w] : w \in Workers} =
         {OfferMade(p[1], p[2]) : p \in {q \in OpsOf(confirmed) :
            q[1].ops[q[2]].type = "CREATE_SELL_OFFER"}}
    /\ marked = UNION {OfferNamed(p[1], p[2]) : p \in {q \in OpsOf(confirmed) :
            q[1].ops[q[2]].type = "CANCEL_SELL_OFFER"}}

(* Only the accounts in the modification log are committed, so it has to   *)
(* contain every account that the block has changed.                       *)
LogCoversChanges ==
  Quiescent => \A a \in user_ids \ account_log :
    /\ sequence_number_vec[a] = {}
    /\ \A x \in Assets : available[<<a, x>>] = committed_available[<<a, x>>]

(* A <<source, sequence number>> pair executes at most once: not twice in  *)
(* a block, and not again after the block that used it.                    *)
ExecutedOnce ==
  /\ \A t, u \in confirmed : t # u => <<t.source, t.seq>> # <<u.source, u.seq>>
  /\ \A t \in confirmed : <<t.source, t.seq>> \notin spent

(* An account is created once: no owner in uncommitted_db already exists,  *)
(* and none has two entries, unless a failing transaction has meanwhile    *)
(* released the id although it was another's: unwind releases indices,     *)
(* which may be ids.                                                       *)
CreatedOnce ==
  /\ \A n \in DOMAIN uncommitted_db : uncommitted_db[n].owner \notin user_ids
  /\ \A n \in DOMAIN uncommitted_db \ FirstEntries :
       uncommitted_db[n].owner \in misreleased

(* A transaction that fails leaves no reservation behind ("process_        *)
(* operation is a no-op if it returns false"): when the threads have       *)
(* returned, the reserved ids are those of the accounts to be created.     *)
ReservationsReleased ==
  Quiescent => reserved_account_ids =
                 {uncommitted_db[n].owner : n \in DOMAIN uncommitted_db}
=============================================================================
