------------------------------ MODULE Replica --------------------------------
(***************************************************************************)
(* A node above its data structures: the validation of blocks and its        *)
(* rollback objects (edce.cc), the account database with its thunks          *)
(* (memory_database.cc), the header hash map, the three persisters (edce.h)  *)
(* and the recovery after a crash.  Orderbooks do here what WorkUnit shows    *)
(* of each of them.                                                          *)
(*                                                                           *)
(* What an account, a book or a table holds is the set of the effects that   *)
(* were applied to it: <<b, "tx">> is what the transactions of block b do to  *)
(* it, <<b, "fill">> what clearing does.  A hash is what is hashed.  Block n  *)
(* of the chain has id n; a faulty block for the same height may carry the    *)
(* same transactions or others.                                              *)
(***************************************************************************)
EXTENDS Integers, Sequences, FiniteSets, SequencesExt

CONSTANTS Units,                \* number of orderbooks
          Genesis,              \* the accounts of the genesis state
          Chain,                \* the right blocks, see Block
          Faulty(_),            \* faulty blocks that may be proposed as block n
          PERSIST_BATCH,
          MaxFaults,            \* bound: faulty blocks received
          MaxRestarts           \* bound: restarts

\* A block: the id of its transactions, the accounts they touch and create, those
\* among them whose new offers a validator clears as it adds them, for each orderbook
\* the accounts that its clearing pays, and the check that it fails ("none" for a
\* right block)
Block(id, touched, new, instant, filled, fails) ==
    [id |-> id, touched |-> touched, new |-> new, instant |-> instant, filled |-> filled,
     fails |-> fails]
NoBlock == Block(0, {}, {}, {}, [u \in 1..Units |-> {}], "none")

Tx(b) == <<b.id, "tx">>
Fill(b) == <<b.id, "fill">>
FilledBy(b, units) == UNION {b.filled[u] : u \in units}
Filled(b) == FilledBy(b, 1..Units)
\* The accounts that a block puts into the account modification log
Dirty(b) == b.touched \union b.new \union Filled(b)

VARIABLES
    role,           \* "producer" or "validator"
    shared,         \* the tx files of the blocks are found under their numbers
    phase,          \* how far the current block, or the recovery, is
    cur,            \* the block that is validated or produced
    last,           \* prev_block.block.blockNumber
    db,             \* database: account -> [avail, committed]
    fresh,          \* uncommitted_db: account -> effects
    trie,           \* commitment_trie: account -> effects
    creation,       \* account_creation_thunks: [n], n the number of their block
    thunks,         \* persistence_thunks: [n, kvs]
    books, pending, \* each orderbook, and what was done to it and not committed
    undo,           \* the books before the current block (the thunks of the work units)
    left,           \* the books as the finished blocks left them (the same thunks)
    hmap,           \* block_map and last_committed_block_number
    stale,          \* accounts that recovery left in the cache of account_modification_log
    stage,          \* the block number each of the three persisters works on, 0 for none
    disk,           \* the tables of the orderbooks and headers with their rounds, and
    table,          \*   of the accounts, as written and as synced
    next,           \* the round that recovery replays
    faults, restarts, \* counters for the bounds
    tainted, doubled, skipped  \* ghosts: see the properties

values == <<db, fresh, trie, creation>>
offers == <<books, pending, undo>>
memory == <<values, thunks, offers, left, hmap, stale>>
storage == <<disk, table>>
node == <<role, shared>>
ghosts == <<tainted, doubled, skipped>>
bounds == <<faults, restarts>>
vars == <<node, phase, cur, last, memory, stage, storage, next, bounds, ghosts>>

-----------------------------------------------------------------------------
(* What the chain says the state is after block n *)

Account(avail, committed) == [avail |-> avail, committed |-> committed]
BlocksUpto(n) == {Chain[i] : i \in 1..n}
ChainAccounts(n) == Genesis \union UNION {b.new : b \in BlocksUpto(n)}
ChainValue(n, a) ==
    {Tx(b) : b \in {b \in BlocksUpto(n) : a \in b.touched \union b.new}} \union
    {Fill(b) : b \in {b \in BlocksUpto(n) : a \in Filled(b)}}
ChainValues(n) == [a \in ChainAccounts(n) |-> ChainValue(n, a)]
ChainDatabase(n) == [a \in ChainAccounts(n) |-> Account(ChainValue(n, a), ChainValue(n, a))]
ChainBook(n) == UNION {{Tx(b), Fill(b)} : b \in BlocksUpto(n)}
AllBooks(S) == [u \in 1..Units |-> S]

\* The chain is one that an honest producer makes: it touches accounts that exist,
\* and creates and pays accounts that do not exist and that do
ASSUME ChainAssumption ==
    /\ Units \in Nat \ {0} /\ PERSIST_BATCH \in Nat \ {0}
    /\ Chain \in Seq({Chain[n] : n \in DOMAIN Chain})
    /\ \A n \in DOMAIN Chain :
         /\ Chain[n].id = n /\ Chain[n].fails = "none"
         /\ Chain[n].touched \subseteq ChainAccounts(n - 1)
         /\ Chain[n].new \intersect ChainAccounts(n - 1) = {}
         /\ Chain[n].instant \subseteq Chain[n].touched
         /\ Filled(Chain[n]) \subseteq ChainAccounts(n)
         /\ \A b \in Faulty(n) : b.fails # "none"

\* The union of two functions, the first before the second; the empty function
Over(f, g) == [x \in DOMAIN f \union DOMAIN g |-> IF x \in DOMAIN f THEN f[x] ELSE g[x]]
Empty == [x \in {} |-> {}]

Init ==
    /\ role \in {"producer", "validator"} /\ shared \in {role = "producer", TRUE}
    /\ phase = "idle" /\ cur = NoBlock /\ last = 0
    /\ db = [a \in Genesis |-> Account({}, {})]
    /\ fresh = Empty /\ trie = ChainValues(0) /\ creation = <<>> /\ thunks = <<>>
    /\ books = AllBooks({}) /\ pending = AllBooks({}) /\ undo = AllBooks({}) /\ left = Empty
    /\ hmap = [keys |-> {}, last |-> 0] /\ stale = {}
    /\ stage = <<0, 0, 0>>
    /\ disk = [books |-> AllBooks({}), rounds |-> AllBooks(0), keys |-> {}, hround |-> 0]
    /\ table = [written |-> [values |-> ChainValues(0), round |-> 0],
                synced |-> [values |-> ChainValues(0), round |-> 0]]
    /\ next = 0 /\ faults = 0 /\ restarts = 0
    /\ tainted = FALSE /\ doubled = {} /\ skipped = {}

-----------------------------------------------------------------------------
(* The account database *)

Give(d, accounts, effect) ==
    [a \in DOMAIN d |->
        IF a \in accounts THEN Account(d[a].avail \union {effect}, d[a].committed) ELSE d[a]]
\* Mutant of CommitValues: commits what a failed block left in other accounts
CommitEveryValue(d, accounts) == [a \in DOMAIN d |-> Account(d[a].avail, d[a].avail)]
\* commit_values over a log or over everything, rollback_values
CommitValues(d, accounts) ==
    [a \in DOMAIN d |-> IF a \in accounts THEN Account(d[a].avail, d[a].avail) ELSE d[a]]
RollbackValues(d) == [a \in DOMAIN d |-> Account(d[a].committed, d[a].committed)]
\* The entries of the log's accounts in the commitment trie
TentativeCommitment(t, d, accounts) ==
    [a \in DOMAIN t |-> IF a \in accounts THEN d[a].avail ELSE t[a]]
Commitment(t, d, accounts) ==
    [a \in DOMAIN t |-> IF a \in accounts THEN d[a].committed ELSE t[a]]

\* commit_new_accounts throws "account creation thunks block number error"
CreationMismatch(n) ==
    IF creation = <<>> THEN table.written.round + 1 # n ELSE Last(creation).n + 1 # n
WithNewAccounts(d, new) == Over([a \in DOMAIN new |-> Account(new[a], new[a])], d)

\* A loop over a vector of thunks, and the two loops that take thunks out of one.
\* (FoldLeft and SelectSeq, as a recursive function that can be reasoned about.)
Loop(Step(_, _), start, ts) ==
    LET f[i \in 0..Len(ts)] == IF i = 0 THEN start ELSE Step(f[i - 1], ts[i]) IN f[Len(ts)]
Upto(ts, n) == Loop(LAMBDA r, t : IF t.n <= n THEN Append(r, t) ELSE r, <<>>, ts)
Beyond(ts, n) == Loop(LAMBDA r, t : IF t.n > n THEN Append(r, t) ELSE r, <<>>, ts)
\* rollback_new_accounts_: the thunks of blocks strictly after the given one go
RollbackNewAccounts(ts, n) == Upto(ts, n)

\* The account modification log once merge_in_log_batch has merged the cache
Log(b) == Dirty(b) \union stale

AddAll(fs, S) == [u \in 1..Units |-> fs[u] \union S]
Die == phase' = "dead" /\ UNCHANGED <<node, cur, last, memory, stage, storage, next, bounds, ghosts>>

-----------------------------------------------------------------------------
(* edce_block_validation_logic: validate_block holds operation_mtx, so blocks *)
(* are validated one at a time; the persisters run beside it.                *)

Number == last + 1
\* A validator gets the right next block or, while the bound lasts, a faulty one
Receive ==
    /\ role = "validator" /\ phase = "idle" /\ Number <= Len(Chain)
    /\ \/ cur' = Chain[Number] /\ faults' = faults
       \/ faults < MaxFaults /\ faults' = faults + 1 /\ cur' \in Faulty(Number)
    /\ phase' = "received"
    /\ UNCHANGED <<node, last, memory, stage, storage, next, restarts, ghosts>>

\* Wrong number, sizes, fee or previous hash; or clearing parameters, when the rollback
\* object of the log is there already and clears it
RejectHeader ==
    /\ phase = "received" /\ cur.fails = "early"
    /\ phase' = "idle" /\ cur' = NoBlock
    /\ stale' \in {stale, {}}
    /\ UNCHANGED <<node, last, values, thunks, offers, left, hmap, stage, storage, next, bounds, ghosts>>

\* A sequence number that is taken, a missing account, an account that exists
TxFails(b) ==
    \/ b.fails = "tx"
    \/ \E a \in b.touched : a \notin DOMAIN db \/ Tx(b) \in db[a].avail
    \/ b.new \intersect (DOMAIN db \union DOMAIN fresh) # {}
\* What an earlier block left behind can spoil balances
Leftover(b) == \E a \in b.touched \intersect DOMAIN db : db[a].avail # db[a].committed

\* One transaction is invalid: the ones before it, in the order the threads took
\* them, were applied, and nothing is taken back but the log; cancelled offers stay
\* marked
FailTransactions ==
    /\ phase = "received" /\ cur.fails # "early" /\ (TxFails(cur) \/ Leftover(cur))
    /\ \E applied \in SUBSET (cur.touched \intersect DOMAIN db),
          created \in SUBSET (cur.new \ (DOMAIN db \union DOMAIN fresh)),
          marked \in SUBSET (1..Units) :
         /\ db' = Give(db, applied, Tx(cur))
         /\ fresh' = Over([a \in created |-> {Tx(cur)}], fresh)
         /\ pending' = [u \in 1..Units |->
                           pending[u] \union (IF u \in marked THEN {<<cur.id, "marks">>} ELSE {})]
    /\ phase' = "idle" /\ cur' = NoBlock /\ stale' = {} /\ tainted' = TRUE
    /\ UNCHANGED <<node, last, trie, creation, thunks, books, undo, left, hmap, stage, storage, next,
                   bounds, doubled, skipped>>

\* check_valid_state looks the new accounts up where they are not yet and goes on
\* with an index that was never set
CheckValidState(b) ==
    IF b.fails = "state" THEN {"fails"}
    ELSE IF b.new # {} THEN {"holds", "fails", "throws"}
    ELSE IF Leftover(b) THEN {"holds", "fails"} ELSE {"holds"}

ValidateTransactions ==
    /\ phase = "received" /\ cur.fails # "early" /\ ~TxFails(cur)
    /\ \E check \in CheckValidState(cur) :
         IF check = "throws" THEN Die
         ELSE /\ db' = Give(db, cur.touched, Tx(cur))
              /\ fresh' = Over([a \in cur.new |-> {Tx(cur)}], fresh)
              /\ pending' = AddAll(pending, {Tx(cur)})
              /\ phase' = (IF check = "holds" THEN "checked" ELSE "idle")
              /\ cur' = (IF check = "holds" THEN cur ELSE NoBlock)
              /\ stale' = (IF check = "holds" THEN stale ELSE {})
              /\ tainted' = (tainted \/ check = "fails")
              /\ UNCHANGED <<node, last, trie, creation, thunks, books, undo, left, hmap, stage,
                             storage, next, bounds, doubled, skipped>>

\* commit_new_accounts and tentative_commit_for_validation of the work units
CommitNewAccounts ==
    /\ creation' = Append(creation, [n |-> Number])
    /\ fresh' = Empty
TentativeCommit ==
    /\ phase = "checked"
    /\ IF CreationMismatch(Number) THEN Die
       ELSE /\ CommitNewAccounts
            /\ db' = WithNewAccounts(db, fresh) /\ trie' = Over(fresh, trie)
            /\ undo' = books /\ books' = [u \in 1..Units |-> books[u] \union pending[u]]
            /\ pending' = AllBooks({})
            /\ phase' = "committed"
            /\ UNCHANGED <<node, cur, last, thunks, left, hmap, stale, stage, storage, next, bounds,
                           ghosts>>

\* The rollback objects, after a failure at or beyond clearing.  What a work unit
\* may keep of the block, or of one abandoned before it, and that it may throw, is
\* what WorkUnit shows of rollback_validation.
RollBack(d, t, h) ==
    \E stray \in SUBSET (1..Units) :
        /\ hmap' = [keys |-> h.keys \ {h.last + 1}, last |-> h.last]
        /\ books' = [u \in 1..Units |->
                        undo[u] \union (IF u \in stray THEN {<<cur.id, "stray">>} ELSE {})]
        /\ pending' = AllBooks({})
        /\ creation' = RollbackNewAccounts(creation, Number) /\ fresh' = Empty
        /\ db' = RollbackValues(d)
        /\ trie' = t /\ stale' = {}
        /\ phase' = "idle" /\ cur' = NoBlock /\ tainted' = TRUE
        /\ UNCHANGED <<node, last, thunks, undo, left, stage, storage, next, bounds, doubled, skipped>>

Paid == Give(db, Filled(cur), Fill(cur))
ClearedBooks == AddAll(books, {Fill(cur)})

\* tentative_clear_offers_for_validation or the totals of the checker fail
FailClearing ==
    /\ phase = "committed" /\ cur.fails = "clearing"
    /\ RollBack(Paid, trie, hmap)

\* tentative_insert_for_validation of the previous block
MapThrows == Number = 1 /\ (hmap.last # 0 \/ hmap.keys # {})
MapRefuses == Number > 1 /\ last # hmap.last
MapWithPrevious == [keys |-> hmap.keys \union ({last} \ {0}), last |-> hmap.last]

\* The modification logs of the header and of this node can differ: then
\* diff_with_prev_log throws unless it finds the tx file of the block
LogDiffers ==
    stale # {} \/ cur.fails = "hash" \/ ClearedBooks # AllBooks(ChainBook(Number))

CheckHash ==
    /\ phase = "committed" /\ cur.fails # "clearing"
    /\ LET log == Log(cur)
           tentative == TentativeCommitment(trie, Paid, log)
           hash_matches == /\ cur.fails = "none"
                           /\ tentative = ChainValues(Number)
                           /\ ClearedBooks = AllBooks(ChainBook(Number))
                           /\ MapWithPrevious.keys = 1..last
                           /\ stale = {}
       IN IF MapThrows THEN Die
          ELSE IF MapRefuses THEN RollBack(Paid, trie, hmap)
          ELSE IF ~hash_matches
               THEN \/ RollBack(Paid, Commitment(tentative, RollbackValues(Paid), log), MapWithPrevious)
                    \/ LogDiffers /\ Die
          ELSE /\ db' = CommitValues(Paid, log) /\ trie' = tentative
               /\ books' = ClearedBooks
               /\ hmap' = [keys |-> MapWithPrevious.keys, last |-> Number]
               /\ phase' = "finishing"
               /\ UNCHANGED <<node, cur, last, fresh, creation, thunks, pending, undo, left, stale,
                              stage, storage, next, bounds, ghosts>>

\* A work unit throws while it rolls back
RollbackThrows ==
    /\ phase = "committed" /\ cur.fails \in {"clearing", "hash"}
    /\ Die

-----------------------------------------------------------------------------
(* produce_block from edce_block_creation_logic on; the transactions are those of   *)
(* the next block of the chain.                                              *)

\* insert_for_production of block n throws
InsertThrows(n) == IF n = 0 THEN hmap.last # 0 \/ hmap.keys # {} ELSE n # hmap.last + 1

ProduceBlock ==
    /\ role = "producer" /\ phase = "idle" /\ Number <= Len(Chain)
    /\ IF CreationMismatch(Number) \/ InsertThrows(last) THEN Die
       ELSE LET b == Chain[Number]
                new == [a \in b.new |-> {Tx(b)}]
                paid == Give(WithNewAccounts(Give(db, b.touched, Tx(b)), new), Filled(b), Fill(b))
            IN /\ cur' = b
               /\ CommitNewAccounts
               /\ undo' = books /\ books' = AddAll(books, {Tx(b), Fill(b)})
               /\ db' = CommitValues(paid, Log(b))
               /\ trie' = Commitment(Over(new, trie), CommitValues(paid, Log(b)), Log(b))
               /\ hmap' = [keys |-> hmap.keys \union ({last} \ {0}), last |-> last]
               /\ phase' = "finishing"
               /\ UNCHANGED <<node, last, thunks, pending, left, stale, stage, storage, next, bounds,
                              ghosts>>

\* edce_persist_critical_round_data; prev_block = header
PersistCritical ==
    /\ phase = "finishing"
    /\ thunks' = Append(thunks, [n |-> Number, kvs |-> [a \in Log(cur) |-> db[a].committed]])
    /\ stale' = {}
    /\ left' = Over([n \in {Number} |-> books], left)
    /\ last' = Number /\ cur' = NoBlock
    /\ phase' = (IF Number % PERSIST_BATCH = 0 THEN "handover" ELSE "idle")
    /\ UNCHANGED <<node, values, offers, hmap, stage, storage, next, bounds, ghosts>>

\* do_async_persist waits for the batch before
HandOver ==
    /\ phase = "handover" /\ stage[1] = 0
    /\ stage' = [stage EXCEPT ![1] = last]
    /\ phase' = "idle"
    /\ UNCHANGED <<node, cur, last, memory, storage, next, bounds, ghosts>>

-----------------------------------------------------------------------------
(* The persisters: three threads, each of which keeps its block until the next one *)
(* has taken it.                                                             *)

Running == phase \notin {"dead", "replay", "resaving"}

\* commit_persistence_thunks: the thunks up to the block, in one transaction of LMDB
\* that is not synced
InOrder(ts, n) ==
    /\ \A i \in DOMAIN ts : ts[i].n = table.written.round + i
    /\ Last(ts).n = n
\* Mutant of WriteThunk: the values are read when they are written
WriteThunkNow(t, values_) == Over([a \in DOMAIN t.kvs |-> db[a].committed], values_)
WriteThunk(t, values_) == Over(t.kvs, values_)
WriteThunks(values_, ts) == Loop(LAMBDA v, t : WriteThunk(t, v), values_, ts)
WriteAccounts ==
    /\ Running /\ stage[1] > table.written.round
    /\ LET ts == Upto(thunks, stage[1])
       IN IF ~InOrder(ts, stage[1]) THEN Die
          ELSE /\ table' = [written |-> [values |-> WriteThunks(table.written.values, ts), round |-> stage[1]],
                            synced |-> table.synced]
               /\ thunks' = Beyond(thunks, stage[1])
               /\ UNCHANGED <<node, phase, cur, last, values, offers, left, hmap, stale, stage, disk,
                              next, bounds, ghosts>>

\* Mutant of ForgetCreation: they go before the table is committed
ForgetCreationEarly ==
    /\ Running /\ stage[1] # 0
    /\ \E i \in DOMAIN creation : creation[i].n <= stage[1]
    /\ creation' = Beyond(creation, stage[1])
    /\ UNCHANGED <<node, phase, cur, last, db, fresh, trie, thunks, offers, left, hmap, stale, stage,
                   storage, next, bounds, ghosts>>

\* The creation thunks go in a critical section of their own
ForgetCreation ==
    /\ Running /\ stage[1] # 0 /\ stage[1] <= table.written.round
    /\ \E i \in DOMAIN creation : creation[i].n <= stage[1]
    /\ creation' = Beyond(creation, stage[1])
    /\ UNCHANGED <<node, phase, cur, last, db, fresh, trie, thunks, offers, left, hmap, stale, stage,
                   storage, next, bounds, ghosts>>

ToSync ==
    /\ Running /\ stage[1] # 0 /\ stage[1] <= table.written.round
    /\ \A i \in DOMAIN creation : creation[i].n > stage[1]
    /\ stage[2] = 0
    /\ stage' = [stage EXCEPT ![2] = stage[1], ![1] = 0]
    /\ UNCHANGED <<node, phase, cur, last, memory, storage, next, bounds, ghosts>>

\* Mutant of Sync: does not wait for phase 3, which loses the batch
SyncWithoutWaiting ==
    /\ Running /\ stage[2] # 0
    /\ table' = [written |-> table.written, synced |-> table.written]
    /\ stage' = [stage EXCEPT ![3] = IF @ = 0 THEN stage[2] ELSE @, ![2] = 0]
    /\ UNCHANGED <<node, phase, cur, last, memory, disk, next, bounds, ghosts>>

\* force_sync; then on to phase 3
Sync ==
    /\ Running /\ stage[2] # 0 /\ stage[3] = 0
    /\ table' = [written |-> table.written, synced |-> table.written]
    /\ stage' = [stage EXCEPT ![3] = stage[2], ![2] = 0]
    /\ UNCHANGED <<node, phase, cur, last, memory, disk, next, bounds, ghosts>>

\* Orderbooks one after another, each in a transaction that is synced
Behind(n) == {u \in 1..Units : disk.rounds[u] < n}
First(S) == CHOOSE u \in S : \A v \in S : u <= v
Save(u, book, n) ==
    [books |-> [disk.books EXCEPT ![u] = book], rounds |-> [disk.rounds EXCEPT ![u] = n],
     keys |-> disk.keys, hround |-> disk.hround]
SaveUnit ==
    /\ Running /\ Behind(stage[3]) # {}
    /\ LET u == First(Behind(stage[3])) IN disk' = Save(u, left[stage[3]][u], stage[3])
    /\ UNCHANGED <<node, phase, cur, last, memory, stage, table, next, bounds, ghosts>>

\* BlockHeaderHashMap::persist_lmdb throws when a header is missing
HeadersFrom(n) == (disk.hround..(n - 1)) \ {0}
SaveHeaders(n) ==
    [books |-> disk.books, rounds |-> disk.rounds,
     keys |-> disk.keys \union HeadersFrom(n), hround |-> n]
SaveMap ==
    /\ Running /\ stage[3] # 0 /\ Behind(stage[3]) = {}
    /\ IF ~(HeadersFrom(stage[3]) \subseteq hmap.keys) THEN Die
       ELSE /\ disk' = SaveHeaders(stage[3])
            /\ left' = [n \in {n \in DOMAIN left : n > stage[3]} |-> left[n]]
            /\ stage' = [stage EXCEPT ![3] = 0]
            /\ UNCHANGED <<node, phase, cur, last, values, thunks, offers, hmap, stale, table, next,
                           bounds, ghosts>>

-----------------------------------------------------------------------------
(* A crash at any point and edce_load_persisted_data.                        *)

\* The machine may lose what was not synced; the process alone loses nothing
Crash ==
    /\ restarts < MaxRestarts /\ restarts' = restarts + 1
    /\ \E kept \in {table.written, table.synced} :
         /\ table' = [written |-> kept, synced |-> kept]
         /\ db' = [a \in DOMAIN kept.values |-> Account(kept.values[a], kept.values[a])]
         /\ trie' = kept.values
         /\ phase' = (IF \E u \in 1..Units : disk.rounds[u] > kept.round THEN "dead" ELSE "replay")
    /\ fresh' = Empty /\ creation' = <<>> /\ thunks' = <<>> /\ left' = Empty
    /\ books' = disk.books /\ pending' = AllBooks({}) /\ undo' = AllBooks({})
    /\ hmap' = [keys |-> disk.keys, last |-> disk.hround] /\ stale' = {}
    /\ stage' = <<0, 0, 0>> /\ cur' = NoBlock /\ last' = 0
    /\ next' = Min({disk.hround} \union {disk.rounds[u] : u \in 1..Units})
    /\ tainted' = FALSE /\ doubled' = {}
    /\ UNCHANGED <<node, disk, faults, skipped>>

\* edce_replay_trusted_round up to the saves.  Accounts have the round already; an
\* orderbook that does not gets its transactions, and clearing pays its sellers
\* once more.  A thread that cleared an orderbook leaves the rest of its range.  New
\* offers that the block cleared at once are logged again, whatever is behind.
ReplayRound ==
    /\ phase = "replay" /\ next \in 1..table.written.round
    /\ IF ~shared \/ (disk.hround < next /\ InsertThrows(next)) THEN Die
       ELSE \E cleared \in {S \in SUBSET Behind(next) : Behind(next) # {} => First(Behind(next)) \in S} :
              LET b == Chain[next]
              IN /\ books' = [u \in 1..Units |->
                                books[u] \union (IF u \in Behind(next) THEN {Tx(b)} ELSE {})
                                         \union (IF u \in cleared THEN {Fill(b)} ELSE {})]
                 /\ db' = Give(db, FilledBy(b, cleared), <<b.id, "again">>)
                 /\ stale' = stale \union b.instant
                 /\ doubled' = doubled \union FilledBy(b, cleared)
                 /\ skipped' = skipped \union (Behind(next) \ cleared)
                 /\ hmap' = (IF disk.hround < next
                             THEN [keys |-> hmap.keys \union {next}, last |-> next] ELSE hmap)
                 /\ phase' = "resaving"
                 /\ UNCHANGED <<node, cur, last, fresh, trie, creation, thunks, pending, undo, left,
                                stage, storage, next, bounds, tainted>>

ResaveUnit ==
    /\ phase = "resaving" /\ Behind(next) # {}
    /\ LET u == First(Behind(next)) IN disk' = Save(u, books[u], next)
    /\ UNCHANGED <<node, phase, cur, last, memory, stage, table, next, bounds, ghosts>>

ResaveMap ==
    /\ phase = "resaving" /\ Behind(next) = {}
    /\ IF disk.hround < next /\ ~(HeadersFrom(next) \subseteq hmap.keys) THEN Die
       ELSE /\ disk' = (IF disk.hround < next THEN SaveHeaders(next) ELSE disk)
            /\ next' = next + 1 /\ phase' = "replay"
            /\ UNCHANGED <<node, cur, last, memory, stage, table, bounds, ghosts>>

SkipRoundZero ==
    /\ phase = "replay" /\ next = 0
    /\ next' = 1
    /\ UNCHANGED <<node, phase, cur, last, memory, stage, storage, bounds, ghosts>>

\* commit_values over everything.  A validator goes on after the round it is given; a
\* producer's node starts with the empty prev_block.
FinishLoad ==
    /\ phase = "replay" /\ next > table.written.round
    /\ db' = CommitValues(db, DOMAIN db)
    /\ last' = (IF role = "producer" THEN 0 ELSE table.written.round)
    /\ next' = 0 /\ phase' = "idle"
    /\ tainted' = (doubled # {} \/ skipped # {})
    /\ UNCHANGED <<node, cur, fresh, trie, creation, thunks, offers, left, hmap, stale, stage, storage,
                   bounds, doubled, skipped>>

-----------------------------------------------------------------------------
Validate == \/ Receive \/ RejectHeader \/ FailTransactions \/ ValidateTransactions
            \/ TentativeCommit \/ FailClearing \/ CheckHash \/ RollbackThrows
Persist == WriteAccounts \/ ForgetCreation \/ ToSync \/ Sync \/ SaveUnit \/ SaveMap
Recover == ReplayRound \/ ResaveUnit \/ ResaveMap \/ SkipRoundZero \/ FinishLoad
Next == Validate \/ ProduceBlock \/ PersistCritical \/ HandOver \/ Persist \/ Crash \/ Recover

\* The threads of the persisters wait for nobody but the thread after them
Spec == Init /\ [][Next]_vars /\ WF_vars(Persist)

-----------------------------------------------------------------------------
(* Properties *)

\* A restarted producer that has forgotten its blocks
Forgetful == role = "producer" /\ last < table.written.round

\* Whatever a failed block leaves in memory, what is committed for an account of the
\* chain, and hashed in the commitment trie, is what the accepted blocks made of it.
\* Only an account that recovery paid twice differs.
CommittedIsRight ==
    LET height == IF phase = "finishing" THEN Number ELSE last
    IN \A a \in ChainAccounts(height) \ doubled :
           a \in DOMAIN db /\ db[a].committed = ChainValue(height, a) /\ trie[a] = ChainValue(height, a)

\* As long as no block failed beyond its header since the start, memory between two
\* blocks is exactly the chain's state, and the header map has the hashes of the
\* blocks before the last (block_header_hash_map.cc:72).
MemoryIsChain ==
    /\ db = ChainDatabase(last) /\ trie = ChainValues(last) /\ fresh = Empty
    /\ books = AllBooks(ChainBook(last)) /\ pending = AllBooks({})
    /\ creation = <<>> \/ Last(creation).n = last
    /\ 1..(last - 1) \subseteq hmap.keys /\ hmap.keys \subseteq 1..last

\* The state in memory is right, however blocks failed, crashes and the persisters'
\* steps fell.
MemoryIsRight ==
    Running /\ ~Forgetful =>
        CommittedIsRight /\ (phase \in {"idle", "handover"} /\ ~tainted => MemoryIsChain)

\* Every table holds the state of its round although blocks are validated, and
\* fail, while it is written; and no crash finds the orderbooks ahead of the
\* accounts, or the headers ahead of the orderbooks, which recovery cannot repair
\* (edce.cc:901).  An orderbook that recovery saved uncleared is the exception.
DiskIsRight ==
    /\ \A t \in {table.written, table.synced} : t.values = ChainValues(t.round)
    /\ \A u \in 1..Units : /\ u \notin skipped => disk.books[u] = ChainBook(disk.rounds[u])
                           /\ disk.hround <= disk.rounds[u] /\ disk.rounds[u] <= table.synced.round
    /\ disk.keys = 1..(disk.hround - 1)

\* A right block is refused only after a block failed beyond its header, after a
\* recovery that cleared orderbooks, or when it creates accounts, whose check reads
\* an index that is not set; or as the first block after a recovery that logged the
\* offers of a replayed round, and then for its hash alone.
Defective == tainted \/ cur.new # {} \/ (phase = "committed" /\ stale # {})
RefusalExplained ==
    (phase \in {"received", "checked", "committed"} /\ phase' = "idle" /\ cur.fails = "none") =>
        Defective
\* The process throws only then or while it rolls back; when a producer is restarted
\* after its first batch; when recovery does not find the tx file of a validator, or
\* has to repair a header map that is not empty.  No persister ever throws.
DeathExplained ==
    (phase # "dead" /\ phase' = "dead") =>
        \/ phase \in {"received", "checked", "committed"} /\ (Defective \/ cur.fails # "none")
        \/ phase = "idle" /\ Forgetful
        \/ phase = "replay" /\ ~shared
        \/ phase = "resaving" /\ 1 <= disk.hround /\ disk.hround < next

\* Right blocks are accepted and the process lives unless one of the named defects
\* was met.
FailuresExplained == [][RefusalExplained /\ DeathExplained]_vars

\* Every batch that is handed to the persisters reaches the last table, unless the
\* process ends before.
BatchesPersisted ==
    \A n \in 1..Len(Chain), r \in 0..MaxRestarts :
        (stage[1] = n /\ restarts = r) ~> (disk.hround >= n \/ restarts > r \/ phase = "dead")

\* "If successful, returns true and all state is committed to next block. If
\* fails, no-op." (edce.cc:252): between two blocks, whatever failed, memory is
\* what the accepted blocks made.
FailedBlockIsNoOp == phase = "idle" => MemoryIsChain

=============================================================================
