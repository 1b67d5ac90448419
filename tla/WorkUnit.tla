------------------------------ MODULE WorkUnit -------------------------------
(***************************************************************************)
(* One orderbook (MerkleWorkUnit, merkle_work_unit.cc): the tries of          *)
(* committed and of uncommitted offers, the thunks that remember what each    *)
(* block did until it is on disk, and the LMDB table.  A block is produced    *)
(* (process_clear_offers) or validated against a header                       *)
(* (tentative_clear_offers_for_validation) and then finalized or rolled back; *)
(* the persister writes the thunks of finished blocks in batches, at any      *)
(* moment, and the process may die and restart from the table at any moment.  *)
(*                                                                            *)
(* An offer is its key (price, owner, id: a sequence of digits) and its       *)
(* amount.  A finished block uses its keys up, as it does the sequence        *)
(* numbers the offer ids come from; a block that failed, or was not on disk   *)
(* when the process died, may be tried again with the same offers.  Supplies  *)
(* and the amount to execute partially are FractionalAssets: they count half  *)
(* units here.                                                                *)
(***************************************************************************)
EXTENDS MerkleTrie

CONSTANTS Amount,               \* the amount that the offer with each key sells
          MaxBlocks,            \* bound: the block numbers explored
          MaxAttempts,          \* bound: the blocks begun, failed and forgotten ones included
          OnDisk,               \* keys of the offers in the table when the node starts
          Headers,              \* what headers may say of this book
          MaxTrie               \* bound: offers in one thread's trie of new offers

Keys == DOMAIN Amount
ZeroKey == [i \in 1..KeyLen |-> 0]

ASSUME AmountsPositive == \A k \in Keys : Amount[k] \in Nat \ {0}
\* SingleWorkUnitStateCommitment, with any combination of its fields
ASSUME HeadersAssumption ==
    Headers \subseteq [null : BOOLEAN, key : Keys \union {ZeroKey}, amount : Nat]

MaxKey == [i \in 1..KeyLen |-> 15]          \* prefix_t::set_max
Leq(a, b) == a = b \/ KeyLess(a, b)
Only(f, S) == [x \in DOMAIN f \cap S |-> f[x]]

\* A book as a function on all keys, for the ghosts
NoBook == [k \in Keys |-> 0]
AsBook(leaves) == Only(leaves @@ NoBook, Keys)

VARIABLES
    committed,      \* committed_offers
    uncommitted,    \* uncommitted_offers
    thunks,         \* WorkUnitLMDB::thunks
    disk,           \* the table of offers
    persisted,      \* get_persisted_round_number()
    wtx,            \* the thunks that write_thunks took and has not committed, or none
    role,           \* "producer" or "validator": what kind of node this is
    phase,          \* how far the current block is
    header,         \* what the validated header says of this book, NoHeader in production
    block,          \* the last finished block
    attempts,       \* how many blocks were begun
    used,           \* the block that created the offer with each key that is used up
    before,         \* ghost: the book when the current block was committed
    history,        \* ghost: the books of the finished blocks from persisted on
    strays,         \* ghost: keys of offers that a rolled back block left behind
    doubtful        \* ghost: keys on which a batch may differ from the book

mem == <<committed, uncommitted, thunks>>
db == <<disk, persisted, wtx>>
ghosts == <<before, history, strays, doubtful>>
vars == <<role, mem, db, phase, header, block, attempts, used, ghosts>>

NoHeader == [null |-> TRUE, key |-> ZeroKey, amount |-> -1]
\* The threshold key is zero exactly when the header says there is none
check_sanity(h) == h.null <=> h.key = ZeroKey

\* WorkUnitLMDBCommitmentThunk: exists_partial_exec has no initial value
Thunk(n, vec, deleted) ==
    [number |-> n, vec |-> vec, deleted |-> deleted, cleared |-> EmptyTrie,
     exists_partial_exec |-> "uninitialized", key |-> ZeroKey, amount |-> -1, offer |-> 0]

Top == thunks[Len(thunks)]
SetTop(t) == thunks' = [thunks EXCEPT ![Len(thunks)] = t]
SetPartialExec(t, key, amount, offer) ==
    [t EXCEPT !.exists_partial_exec = "yes", !.key = key, !.amount = amount, !.offer = offer]
SetNoPartialExec(t) == [t EXCEPT !.exists_partial_exec = "no", !.key = MaxKey]

InsertAll(t, leaves) ==
    FoldLeft(LAMBDA u, k : insert(u, Leaf(k, leaves[k], 0)), t,
             SetToSortSeq(DOMAIN leaves, KeyLess))

Init ==
    /\ disk = [k \in OnDisk |-> Amount[k]] /\ persisted = 0 /\ wtx = <<>>
    /\ committed = InsertAll(EmptyTrie, disk) /\ uncommitted = EmptyTrie /\ thunks = <<>>
    /\ role \in {"producer", "validator"}
    /\ phase = "idle" /\ header = NoHeader /\ block = 0 /\ attempts = 0 /\ used = [k \in OnDisk |-> 0]
    /\ before = NoBook /\ history = 0 :> AsBook(disk)
    /\ strays = {} /\ doubtful = {}

-----------------------------------------------------------------------------
(* The transactions of a block *)

BeginBlock ==
    /\ phase = "idle" /\ block < MaxBlocks
    /\ attempts < MaxAttempts /\ attempts' = attempts + 1
    /\ phase' = "processing"
    /\ header' \in IF role = "producer" THEN {NoHeader} ELSE Headers
    /\ UNCHANGED <<role, mem, db, block, used, ghosts>>

\* One thread's trie of new offers, merged in by finish_merge and add_offers.
\* A validator adds the offers from the threshold key on, marked for rollback,
\* and executes the others at once.
NewOffers(S) ==
    FoldLeft(LAMBDA t, k : insert(t, Leaf(k, Amount[k], IF role = "producer" THEN 0 ELSE 1)),
             EmptyTrie, SetToSortSeq(S, KeyLess))

Accepted(S) ==
    IF role = "producer" THEN S
    ELSE {k \in S : ~header.null /\ Leq(header.key, k)}

add_offers(S) ==
    /\ phase = "processing"
    /\ S \cap DOMAIN used = {} /\ used' = [k \in S |-> block + 1] @@ used
    /\ uncommitted' = merge_in(uncommitted, NewOffers(Accepted(S)))
    /\ UNCHANGED <<role, attempts, committed, thunks, db, phase, header, block, ghosts>>

delete_offer(k) ==
    /\ phase = "processing"
    /\ MarkNode(committed.root, k, 1).found
    /\ committed' = mark_for_deletion(committed, k)
    /\ UNCHANGED <<role, attempts, uncommitted, thunks, db, phase, header, block, used, ghosts>>

\* Only a producer undoes the deletion when the transaction fails
undelete_offer(k) ==
    /\ phase = "processing" /\ role = "producer"
    /\ MarkNode(committed.root, k, 0).found
    /\ committed' = unmark_for_deletion(committed, k)
    /\ UNCHANGED <<role, attempts, uncommitted, thunks, db, phase, header, block, used, ghosts>>

\* The keys that blocks up to n used up
UsedUpTo(n) == Only(used, {k \in Keys : k \in DOMAIN used /\ used[k] <= n})

\* validate_transaction_block failed: the block is given up, and what its
\* transactions did to the book stays
AbandonBlock ==
    /\ phase = "processing" /\ role = "validator"
    /\ phase' = "idle" /\ header' = NoHeader /\ used' = UsedUpTo(block)
    /\ UNCHANGED <<role, attempts, mem, db, block, ghosts>>

-----------------------------------------------------------------------------
(* Commitment and clearing *)

\* tentative_commit_for_validation; commit_for_production adds the index
tentative_commit ==
    /\ phase = "processing"
    /\ thunks' = Append(thunks, Thunk(block + 1, Contents(uncommitted),
                                      MarkedLeaves(committed.root)))
    /\ committed' = merge_in(perform_marked_deletions(committed), uncommitted)
    /\ uncommitted' = EmptyTrie
    /\ phase' = "committed"
    /\ before' = AsBook(Contents(committed))
    /\ UNCHANGED <<role, attempts, db, header, block, used, history, strays, doubtful>>

\* The producer clears supply / 2, in whole units first
process_clear_offers(supply) ==
    /\ phase = "committed" /\ role = "producer"
    /\ supply <= 2 * Endow(committed)
    /\ LET split == endow_split(committed, supply \div 2)
           remaining == supply - 2 * Endow(split.taken)
           t == [Top EXCEPT !.cleared = split.taken]
           key == LowestKeyNode(split.rest.root)
           del == perform_deletion(split.rest, key)
           sold == (remaining + 1) \div 2
       IN  IF Size(split.rest) = 0
           THEN SetTop(SetNoPartialExec(t)) /\ committed' = split.rest
           ELSE /\ SetTop(SetPartialExec(t, key, sold, del.value))
                /\ committed' = IF del.value > sold
                                THEN insert(del.trie, Leaf(key, del.value - sold, 0))
                                ELSE del.trie
    /\ phase' = "cleared"
    /\ UNCHANGED <<role, attempts, uncommitted, db, header, block, used, ghosts>>

\* The validator clears what the header says.  A header that names an offer
\* that is not there, or more than it holds, fails the block; so does one that
\* meets the offer at key zero, of an owner who need not exist, that an
\* earlier rollback may have left behind.
tentative_clear_offers ==
    /\ phase = "committed" /\ role = "validator"
    /\ LET below == endow_lt_key(committed, header.key)
           del == perform_deletion(committed, header.key)
           sold == (header.amount + 1) \div 2
           split == endow_split(del.trie, below)
           t == [Top EXCEPT !.cleared = split.taken]
       IN  \/ /\ ~del.found /\ header.key = ZeroKey /\ header.amount = 0
              /\ SetTop([SetNoPartialExec(Top) EXCEPT !.cleared = TrieOf(committed.root)])
              /\ committed' = EmptyTrie
              /\ phase' = "cleared"
           \/ /\ ~del.found /\ (header.key # ZeroKey \/ header.amount # 0)
              /\ committed' = del.trie
              /\ phase' = "failed"
              /\ UNCHANGED thunks
           \/ /\ del.found /\ (sold > del.value \/ header.key = ZeroKey)
              /\ committed' = insert(del.trie, Leaf(header.key, del.value, 0))
              /\ phase' = "failed"
              /\ UNCHANGED thunks
           \/ /\ del.found /\ sold <= del.value
              /\ SetTop(SetPartialExec(t, header.key, sold, del.value))
              /\ committed' = IF del.value # sold
                              THEN insert(split.rest, Leaf(header.key, del.value - sold, 0))
                              ELSE split.rest
              /\ phase' = "cleared"
    /\ UNCHANGED <<role, attempts, uncommitted, db, header, block, used, ghosts>>

\* The hash goes into the header, or is compared with the header's, if the
\* validator has not refused the header before
HashBook ==
    /\ phase = "cleared" /\ (role = "validator" => check_sanity(header))
    /\ committed' = freeze_and_hash(committed)
    /\ phase' = "hashed"
    /\ UNCHANGED <<role, attempts, uncommitted, thunks, db, header, block, used, ghosts>>

-----------------------------------------------------------------------------
(* The end of a block *)

\* A producer is done; a validator that found nothing wrong clears the marks.
\* The hashes agree, so the offers it added are those that the block creates.
finalize ==
    /\ phase = "hashed"
    /\ committed' = IF role = "producer" THEN committed ELSE clear_rollback(committed)
    /\ phase' = "idle" /\ header' = NoHeader /\ block' = block + 1
    /\ history' = (block + 1 :> AsBook(Contents(committed))) @@ history
    /\ before' = NoBook
    /\ used' = used @@ [k \in DOMAIN Top.vec |-> block + 1]
    /\ UNCHANGED <<role, attempts, uncommitted, thunks, db, strays, doubtful>>

\* Mutant: the offer that was executed in part keeps what is left of it.
UndoneButPartial(c, t, exists) ==
    merge_in(InsertAll(c, t.deleted), clean_singlechild_nodes(t.cleared, t.key))

\* undo_thunk, with the new offers already gone from the thunk; exists is what
\* it reads in exists_partial_exec, which may be uninitialized
Undone(c, t, exists) ==
    LET back == merge_in(InsertAll(c, t.deleted), clean_singlechild_nodes(t.cleared, t.key))
    IN  IF exists = "yes" THEN insert(back, Leaf(t.key, t.offer, 0)) ELSE back

\* rollback_validation, when the clearing, the hashes or anything else that is
\* checked after tentative_commit was wrong.  Inserting into a book whose root
\* lost all its children throws: the process dies.
UndoThrows == Top.deleted # <<>> /\ InsertThrows(do_rollback(committed).root)

rollback_validation ==
    /\ phase \in {"failed", "cleared", "hashed"} /\ role = "validator"
    /\ phase' = "idle" /\ header' = NoHeader /\ before' = NoBook
    /\ ~UndoThrows
    /\ uncommitted' = EmptyTrie
    /\ \E exists \in {"yes", "no"} :
         /\ Top.exists_partial_exec \in {exists, "uninitialized"}
         /\ committed' = Undone(do_rollback(committed), Top, exists)
    /\ thunks' = Front(thunks) /\ used' = UsedUpTo(block)
    /\ strays' = strays \union {k \in DOMAIN Contents(committed') : k = ZeroKey \/ before[k] = 0}
    /\ UNCHANGED <<role, attempts, db, block, history, doubtful>>

-----------------------------------------------------------------------------
(* Persistence and recovery *)

MaxOf(keys) == CHOOSE k \in keys : \A j \in keys : Leq(j, k)

\* Mutant: only later blocks clear the offers of a block.
ClearedLater(batch, i) == MaxOf({batch[j].key : j \in (i + 1)..Len(batch)} \union {ZeroKey})

\* Phase 3 puts the new offers of block i that neither it nor a later block of
\* the batch cleared
ClearedUpTo(batch, i) == MaxOf({batch[j].key : j \in i..Len(batch)} \union {ZeroKey})

\* write_thunks on a batch of thunks, oldest first: the table it writes, and
\* whether it throws on an offer that holds less than was executed of it
WriteThunks(table, batch) ==
    LET Idx == DOMAIN batch
        partial == {i \in Idx : batch[i].exists_partial_exec = "yes"}
        gone == UNION {DOMAIN batch[i].deleted : i \in Idx}
        phase1 == Only(table, Keys \ gone)
        top == MaxOf({batch[i].key : i \in partial} \union {ZeroKey})
        phase2 == IF partial = {} THEN <<>>
                  ELSE Only(phase1, {k \in Keys : Leq(top, k)})
        Put(i) == Only(batch[i].vec, {k \in Keys : Leq(ClearedUpTo(batch, i), k)})
        phase3 == FoldLeft(LAMBDA tab, i : Put(i) @@ tab, phase2, SetToSortSeq(Idx, >))
        Execute(r, i) ==
            LET k == batch[i].key
                left == r.table[k] - batch[i].amount
            IN  IF i \notin partial \/ k \notin DOMAIN r.table THEN r
                ELSE [table  |-> IF left = 0 THEN Only(r.table, Keys \ {k})
                                 ELSE [r.table EXCEPT ![k] = left],
                      throws |-> r.throws \/ left < 0]
        phase4 == FoldLeft(Execute, [table |-> phase3, throws |-> FALSE], SetToSortSeq(Idx, <))
        passed == {batch[i].key : i \in {i \in partial : \E j \in Idx :
                                            j > i /\ KeyLess(batch[i].key, batch[j].key)}}
    IN  [phase4 EXCEPT !.table = Only(@, Keys \ passed)]

\* write_thunks takes the thunks under the lock
persist_begin(n) ==
    /\ wtx = <<>> /\ n \in (persisted + 1)..block
    /\ wtx' = SelectSeq(thunks, LAMBDA t : t.number <= n)
    /\ thunks' = SelectSeq(thunks, LAMBDA t : t.number > n)
    /\ UNCHANGED <<role, attempts, committed, uncommitted, disk, persisted, phase, header, block, used, ghosts>>

\* Keys on which the table may differ from the book after this batch: offers
\* cancelled after they were created in the same batch, and offers cleared by
\* a block that left nothing behind while another of the batch did.
Doubtful(batch) ==
    LET Idx == DOMAIN batch
        full == {i \in Idx : batch[i].exists_partial_exec = "no"}
    IN  UNION {DOMAIN batch[i].vec \cap DOMAIN batch[j].deleted : i \in Idx, j \in Idx}
        \union (IF full = Idx THEN {} ELSE UNION {DOMAIN Contents(batch[i].cleared) : i \in full})

\* ... and commits the transaction after the table is written; if that throws,
\* the process dies
persist_commit ==
    /\ wtx # <<>>
    /\ LET written == WriteThunks(disk, wtx)
       IN  ~written.throws /\ disk' = written.table
    /\ persisted' = wtx[Len(wtx)].number
    /\ wtx' = <<>>
    /\ history' = Only(history, persisted'..block)
    /\ doubtful' = doubtful \union Doubtful(wtx)
    /\ UNCHANGED <<role, attempts, mem, phase, header, block, used, before, strays>>

\* Mutant: the number of the block on disk is not read back.
LoadAsGenesis ==
    /\ committed' = InsertAll(EmptyTrie, disk)
    /\ uncommitted' = EmptyTrie /\ thunks' = <<>> /\ wtx' = <<>>
    /\ phase' = "idle" /\ header' = NoHeader /\ block' = 0
    /\ before' = NoBook /\ history' = persisted :> AsBook(disk)
    /\ strays' = {} /\ doubtful' = {} /\ used' = UsedUpTo(persisted)
    /\ UNCHANGED <<role, attempts, disk, persisted>>

\* The process dies and load_lmdb_contents_to_memory reads the table
CrashAndLoad ==
    /\ committed' = InsertAll(EmptyTrie, disk)
    /\ uncommitted' = EmptyTrie /\ thunks' = <<>> /\ wtx' = <<>>
    /\ phase' = "idle" /\ header' = NoHeader /\ block' = persisted
    /\ before' = NoBook /\ history' = persisted :> AsBook(disk)
    /\ strays' = {} /\ doubtful' = {} /\ used' = UsedUpTo(persisted)
    /\ UNCHANGED <<role, attempts, disk, persisted>>

Next ==
    \/ BeginBlock
    \/ \E S \in SUBSET Keys : S # {} /\ Cardinality(S) <= MaxTrie /\ add_offers(S)
    \/ \E k \in Keys : delete_offer(k) \/ undelete_offer(k)
    \/ AbandonBlock
    \/ tentative_commit
    \/ \E supply \in 0..(2 * Endow(committed)) : process_clear_offers(supply)
    \/ tentative_clear_offers
    \/ HashBook
    \/ finalize
    \/ rollback_validation
    \/ \E n \in 1..MaxBlocks : persist_begin(n)
    \/ persist_commit
    \/ CrashAndLoad

Spec == Init /\ [][Next]_vars

-----------------------------------------------------------------------------
(* Properties *)

\* The books hold offers that were created, and the block on disk, the last block
\* and the remembered books follow each other, across restarts too.
TypeOK ==
    /\ DOMAIN Contents(committed) \subseteq Keys \union {ZeroKey}
    /\ DOMAIN Contents(uncommitted) \subseteq Keys
    /\ DOMAIN disk \subseteq Keys
    /\ persisted \in 0..block /\ block \in 0..MaxBlocks
    /\ DOMAIN used \subseteq Keys /\ \A k \in DOMAIN used : used[k] \in 0..(block + 1)
    /\ DOMAIN history = persisted..block

\* The metadata that insertion, merging, marking, deletion, rollback and
\* splitting update by deltas is the sum over the leaves at every node (what
\* metadata_integrity_check counts), and path compression is kept: no inner
\* node is left with one child.  endow and size decide what is cleared.
TriesConsistent ==
    \A t \in {committed, uncommitted} : WellShaped(t) /\ MetadataExact(t)

\* The root hash, when it is cached, is the hash of a trie built from nothing
\* that holds the offers of the book that are not marked for deletion: no
\* invalidate_hash is missing on any path, through rollbacks too, and two
\* nodes that reach the same book by different histories agree on its hash.
LiveContents ==
    Only(Contents(committed), {k \in Keys \union {ZeroKey} : MarkNode(committed.root, k, 1).found})
HashOfBook == committed.root_hash # NoHash => committed.root_hash = ReferenceHash(LiveContents)

\* After a batch of thunks is written the table is the book of the last block
\* of the batch, whatever the blocks of the batch did and wherever a later
\* block, a rollback or a crash fell between taking and writing the thunks;
\* the keys it says nothing of are those where write_thunks goes wrong.
DiskIsBook ==
    \A k \in Keys \ (doubtful \union strays) : AsBook(disk)[k] = history[persisted][k]

\* rollback_validation puts every offer of the book before the block back with
\* the amount it had, strays of an earlier rollback aside.  Of the new offers it leaves at most the one at the
\* threshold (whose rollback mark is lost when it is inserted again), offers of
\* an earlier, abandoned block below the threshold, the only offer of a book of
\* one, and an offer of nothing at key zero when the partial execution was
\* never set; each new offer above the threshold is gone.
RollbackRestores ==
    [][rollback_validation =>
         LET after == Contents(committed')
             Threshold == IF header.null \/ header.key = ZeroKey THEN MaxKey ELSE header.key
         IN  /\ \A k \in Keys \ strays : before[k] > 0 => AsBook(after)[k] = before[k]
             /\ \A k \in DOMAIN after :
                  \/ k \in Keys /\ before[k] > 0
                  \/ k \in Keys /\ after[k] = Amount[k] /\ Leq(k, Threshold)
                  \/ DOMAIN Contents(committed) = {k}
                  \/ k = ZeroKey /\ (Top.exists_partial_exec = "uninitialized" \/ ZeroKey \in strays)]_vars

-----------------------------------------------------------------------------
(* The work unit implements the orderbook *)

Book == INSTANCE OrderBook WITH
    Below <- KeyLess,
    book <- AsBook(Contents(committed)),
    stage <- CASE phase \in {"idle", "processing"} -> "idle"
               [] phase \in {"committed", "failed"} -> "committed"
               [] phase \in {"cleared", "hashed"} -> "cleared",
    last <- block,
    saved_block <- persisted,
    kept <- history,
    saved <- AsBook(disk),
    strays <- strays \cap Keys

\* Tries, thunks, marks and batches implement the plain orderbook: price
\* priority of what is cleared, nothing but cancellation and creation before
\* it, rollbacks that return every older offer, saves that lose none, and
\* restarts from the saved book.
ImplementsOrderBook == Book!Spec
==============================================================================
