---------------------------- MODULE ReplicaProofs ----------------------------
(***************************************************************************)
(* Proofs about the node of Replica, for every chain, every set of faulty  *)
(* blocks, any number of orderbooks and any batch: memory and the tables   *)
(* are right, and a right block is refused, or the process throws, only    *)
(* for one of the named defects.                                           *)
(*                                                                         *)
(* The inductive invariant IInv says of the tables which round they hold,  *)
(* of recovery how far every table is, and of a running node what every    *)
(* piece of its memory is as a function of the chain and of a few numbers. *)
(***************************************************************************)
EXTENDS Replica, WellFoundedInduction, TLAPS
-----------------------------------------------------------------------------
(* The inductive invariant.                                                *)

\* The persistence thunk of block n, and those of the blocks after w up to l
ThunkOf(n) == [n |-> n, kvs |-> [a \in Dirty(Chain[n]) |-> ChainValue(n, a)]]
ThunksOf(w, l) == [i \in 1 .. l - w |-> ThunkOf(w + i)]
\* The creation thunks of the blocks after c up to h
NumbersOf(c, h) == [i \in 1 .. h - c |-> [n |-> c + i]]
\* The books as the blocks after h up to l left them
BooksOf(h, l) == [n \in h + 1 .. l |-> AllBooks(ChainBook(n))]

Phases == {"idle", "received", "checked", "committed", "finishing", "handover",
           "dead", "replay", "resaving"}

Types ==
  /\ role \in {"producer", "validator"} /\ phase \in Phases
  /\ shared \in BOOLEAN /\ tainted \in BOOLEAN
  /\ last \in 0 .. Len(Chain) /\ next \in Nat
  /\ stage \in [1 .. 3 -> 0 .. Len(Chain)]

\* The account table holds the chain's values of its round, written and synced
TablesInv ==
  /\ table.written.round \in 0 .. Len(Chain)
  /\ table.synced.round \in 0 .. table.written.round
  /\ table.written.values = ChainValues(table.written.round)
  /\ table.synced.values = ChainValues(table.synced.round)

\* So do the orderbooks that recovery did not skip; headers are never ahead of
\* orderbooks, nor orderbooks ahead of the synced accounts
DiskInv ==
  /\ disk.rounds \in [1 .. Units -> Nat] /\ disk.hround \in Nat
  /\ disk.books = [u \in 1 .. Units |-> disk.books[u]]
  /\ \A u \in 1 .. Units : /\ u \notin skipped => disk.books[u] = ChainBook(disk.rounds[u])
                           /\ disk.hround =< disk.rounds[u] /\ disk.rounds[u] =< table.synced.round
  /\ disk.keys = 1 .. disk.hround - 1
  /\ skipped # {} \/ doubled # {} => table.synced.round >= 1

\* The persisters have nothing to do
Quiet ==
  /\ stage = <<0, 0, 0>> /\ thunks = <<>> /\ creation = <<>> /\ left = Empty

\* Recovery: the tables are at the round before next or beyond; memory has the
\* accounts of the table, and the books of the tables and of the replayed round
ReplayInv ==
  /\ Quiet /\ table.synced = table.written
  /\ fresh = Empty /\ pending = AllBooks({}) /\ ~ tainted
  /\ disk.hround \in {next - 1, next}
  /\ phase = "resaving" => next \in 1 .. table.written.round
  /\ \A u \in 1 .. Units : disk.rounds[u] >= next - 1
  /\ hmap.last = IF phase = "replay" THEN disk.hround ELSE next
  /\ 1 .. disk.hround - 1 \subseteq hmap.keys
  /\ phase = "replay" => hmap.keys \subseteq 1 .. disk.hround
  /\ phase = "resaving" => hmap.keys \subseteq 1 .. next /\ (disk.hround < next => next \in hmap.keys)
  /\ phase = "replay" => books = disk.books
  /\ books = [u \in 1 .. Units |-> books[u]]
  /\ \A u \in 1 .. Units : /\ disk.rounds[u] >= next => books[u] = disk.books[u]
                           /\ phase = "resaving" /\ disk.rounds[u] < next /\ u \notin skipped =>
                                 books[u] = ChainBook(next)
  /\ db = [a \in ChainAccounts(table.written.round) |-> db[a]]
  /\ \A a \in ChainAccounts(table.written.round) \ doubled :
       db[a] = Account(ChainValue(table.written.round, a), ChainValue(table.written.round, a))
  /\ trie = ChainValues(table.written.round)

\* The persisters: each thunk that is not written is there, in order and with the
\* values of its own block, and the three of them work on older and older batches
StagesInv ==
  /\ table.written.round =< last /\ disk.hround =< last
  /\ thunks = ThunksOf(table.written.round, last)
  /\ left = BooksOf(disk.hround, last)
  /\ \A i \in 1 .. 3 : stage[i] # 0 =>
       /\ disk.hround < stage[i] /\ stage[i] =< last
       /\ phase = "handover" => stage[i] < last
  /\ phase = "handover" => disk.hround < last
  /\ stage[1] # 0 => stage[2] < stage[1] /\ stage[3] < stage[1]
  /\ stage[2] # 0 => stage[3] < stage[2] /\ stage[2] =< table.written.round
  /\ stage[3] =< table.synced.round

\* The header map: a producer's is a block behind a validator's
MapInv ==
  /\ hmap.last = IF role = "validator" THEN IF phase = "finishing" THEN Number ELSE last
                 ELSE IF phase = "finishing" \/ last = 0 THEN last ELSE last - 1
  /\ 1 .. last - 1 \subseteq hmap.keys /\ hmap.keys \subseteq 1 .. last
  /\ phase = "finishing" => hmap.keys = 1 .. last
  /\ role = "producer" /\ phase # "finishing" => hmap.keys = 1 .. last - 1

Validating == phase \in {"received", "checked", "committed"}

\* What is committed for an account is the chain's, whatever failed
Reached == IF phase = "finishing" THEN Number ELSE last
AccountsInv ==
  /\ DOMAIN trie = DOMAIN db /\ ChainAccounts(Reached) \subseteq DOMAIN db
  /\ DOMAIN fresh \cap DOMAIN db = {}
  /\ \A a \in ChainAccounts(Reached) \ doubled :
       db[a].committed = ChainValue(Reached, a) /\ trie[a] = ChainValue(Reached, a)

\* The block at work; one that was accepted is the chain's, and left the chain's
\* books and, even of the accounts that recovery paid twice, the chain's values
BlockInv ==
  /\ phase \in {"received", "checked", "committed", "finishing"} => last < Len(Chain)
  /\ Validating => cur = Chain[Number] \/ cur.fails # "none"
  /\ Validating => role = "validator"
  /\ phase = "finishing" =>
       /\ cur = Chain[Number] /\ books = AllBooks(ChainBook(Number))
       /\ \A a \in Dirty(cur) : db[a].committed = ChainValue(Number, a)

\* As long as nothing failed, memory is in every phase what the chain and the
\* block at work make it
NewOf(b) == [a \in b.new |-> {Tx(b)}]
Height == IF phase \in {"committed", "finishing"} THEN Number ELSE last
CreationInv ==
  \E c \in 0 .. Height : creation = NumbersOf(c, Height) /\ (c = Height => table.written.round = c)
AtChain(n) ==
  /\ db = ChainDatabase(n) /\ trie = ChainValues(n) /\ fresh = Empty
  /\ books = AllBooks(ChainBook(n)) /\ pending = AllBooks({})
ExactInv ==
  /\ CreationInv
  /\ phase \in {"idle", "handover", "received"} => AtChain(last)
  /\ phase = "finishing" => AtChain(Number)
  /\ phase = "checked" /\ cur.fails = "none" =>
       /\ db = Give(ChainDatabase(last), cur.touched, Tx(cur)) /\ trie = ChainValues(last)
       /\ fresh = NewOf(cur)
       /\ books = AllBooks(ChainBook(last)) /\ pending = AllBooks({Tx(cur)})
  /\ phase = "committed" /\ cur.fails = "none" =>
       /\ db = WithNewAccounts(Give(ChainDatabase(last), cur.touched, Tx(cur)), NewOf(cur))
       /\ trie = Over(NewOf(cur), ChainValues(last)) /\ fresh = Empty
       /\ books = AllBooks(ChainBook(last) \union {Tx(cur)}) /\ pending = AllBooks({})

\* A running node.  A producer that has forgotten its blocks does nothing.
RunningInv ==
  /\ ~ tainted => doubled = {} /\ skipped = {}
  /\ Forgetful => phase = "idle" /\ Quiet
  /\ ~ Forgetful =>
       /\ role = "producer" => ~ tainted
       /\ StagesInv /\ MapInv /\ AccountsInv /\ BlockInv
       /\ ~ tainted => ExactInv

IInv ==
  /\ Types /\ TablesInv /\ DiskInv
  /\ phase \in {"replay", "resaving"} => ReplayInv
  /\ Running => RunningInv

\* What recovery leaves in the modification log: it is gone before a block is
\* committed, and a producer never merges it into a block of its own
LogInv ==
  /\ phase = "finishing" => stale = {}
  /\ stale # {} => table.written.round >= 1
  /\ role = "producer" /\ Running /\ ~ Forgetful => stale = {}

-----------------------------------------------------------------------------
(* The chain.                                                              *)

(* What the chain's assumption says, in the form that the proofs use.      *)
LEMMA ChainFacts ==
  /\ Len(Chain) \in Nat /\ DOMAIN Chain = 1 .. Len(Chain)
  /\ Units \in Nat \ {0} /\ PERSIST_BATCH \in Nat \ {0}
  /\ \A n \in 1 .. Len(Chain) :
       /\ Chain[n].id = n /\ Chain[n].fails = "none"
       /\ Chain[n].touched \subseteq ChainAccounts(n - 1)
       /\ Chain[n].new \intersect ChainAccounts(n - 1) = {}
       /\ Chain[n].instant \subseteq Chain[n].touched
       /\ Filled(Chain[n]) \subseteq ChainAccounts(n)
       /\ \A b \in Faulty(n) : b.fails # "none"
<1>1. Chain \in Seq({Chain[n] : n \in DOMAIN Chain})
  BY ChainAssumption
<1>2. Len(Chain) \in Nat /\ DOMAIN Chain = 1 .. Len(Chain)
  BY <1>1
<1> QED BY <1>2, ChainAssumption

(* One block more.                                                         *)
LEMMA BlocksStep ==
  ASSUME NEW n \in 1 .. Len(Chain)
  PROVE  BlocksUpto(n) = BlocksUpto(n - 1) \union {Chain[n]}
<1>1. 1 .. n = (1 .. n - 1) \union {n}
  BY ChainFacts
<1> QED BY <1>1 DEF BlocksUpto

(* A block adds the accounts that it creates.                              *)
LEMMA AccountsStep ==
  ASSUME NEW n \in 1 .. Len(Chain)
  PROVE  ChainAccounts(n) = ChainAccounts(n - 1) \union Chain[n].new
  BY BlocksStep DEF ChainAccounts

(* A block adds its transactions and its clearing to every orderbook.      *)
LEMMA BookStep ==
  ASSUME NEW n \in 1 .. Len(Chain)
  PROVE  ChainBook(n) = ChainBook(n - 1) \union {Tx(Chain[n]), Fill(Chain[n])}
  BY BlocksStep DEF ChainBook

(* A block adds its effects to the accounts that it touches, creates and   *)
(* pays.                                                                   *)
LEMMA ValueStep ==
  ASSUME NEW n \in 1 .. Len(Chain), NEW a
  PROVE  ChainValue(n, a) = ChainValue(n - 1, a)
           \union (IF a \in Chain[n].touched \union Chain[n].new THEN {Tx(Chain[n])} ELSE {})
           \union (IF a \in Filled(Chain[n]) THEN {Fill(Chain[n])} ELSE {})
<1> DEFINE B == BlocksUpto(n - 1)
           b == Chain[n]
<1>1. ChainValue(n, a) = {Tx(x) : x \in {x \in B \union {b} : a \in x.touched \union x.new}} \union
                         {Fill(x) : x \in {x \in B \union {b} : a \in Filled(x)}}
  BY BlocksStep DEF ChainValue
<1>2. ChainValue(n - 1, a) = {Tx(x) : x \in {x \in B : a \in x.touched \union x.new}} \union
                             {Fill(x) : x \in {x \in B : a \in Filled(x)}}
  BY DEF ChainValue
<1> HIDE DEF B, b
<1>3. {Tx(x) : x \in {x \in B \union {b} : a \in x.touched \union x.new}}
        = {Tx(x) : x \in {x \in B : a \in x.touched \union x.new}}
            \union (IF a \in b.touched \union b.new THEN {Tx(b)} ELSE {})
  OBVIOUS
<1>4. {Fill(x) : x \in {x \in B \union {b} : a \in Filled(x)}}
        = {Fill(x) : x \in {x \in B : a \in Filled(x)}} \union (IF a \in Filled(b) THEN {Fill(b)} ELSE {})
  OBVIOUS
<1>5. ChainValue(n, a) = ChainValue(n - 1, a)
           \union (IF a \in b.touched \union b.new THEN {Tx(b)} ELSE {})
           \union (IF a \in Filled(b) THEN {Fill(b)} ELSE {})
  <2> DEFINE P == {Tx(x) : x \in {x \in B \union {b} : a \in x.touched \union x.new}}
             Q == {Fill(x) : x \in {x \in B \union {b} : a \in Filled(x)}}
             R == {Tx(x) : x \in {x \in B : a \in x.touched \union x.new}}
             S == {Fill(x) : x \in {x \in B : a \in Filled(x)}}
  <2>1. ChainValue(n, a) = P \union Q /\ ChainValue(n - 1, a) = R \union S
    BY <1>1, <1>2
  <2>2. P = R \union (IF a \in b.touched \union b.new THEN {Tx(b)} ELSE {})
    BY <1>3
  <2>3. Q = S \union (IF a \in Filled(b) THEN {Fill(b)} ELSE {})
    BY <1>4
  <2> HIDE DEF P, Q, R, S
  <2> QED BY <2>1, <2>2, <2>3
<1> QED BY <1>5 DEF b

(* An account that is not in the modification log keeps its value.         *)
LEMMA ValueKept ==
  ASSUME NEW n \in 1 .. Len(Chain), NEW a, a \notin Dirty(Chain[n])
  PROVE  ChainValue(n, a) = ChainValue(n - 1, a)
<1> DEFINE X == IF a \in Chain[n].touched \union Chain[n].new THEN {Tx(Chain[n])} ELSE {}
           Y == IF a \in Filled(Chain[n]) THEN {Fill(Chain[n])} ELSE {}
<1>1. ChainValue(n, a) = ChainValue(n - 1, a) \union X \union Y
  BY ValueStep
<1>2. X = {} /\ Y = {}
  BY DEF Dirty
<1> HIDE DEF X, Y
<1> QED BY <1>1, <1>2

(* Accounts never go.                                                      *)
LEMMA AccountsGrow ==
  ASSUME NEW n \in 0 .. Len(Chain), NEW m \in 0 .. n
  PROVE  ChainAccounts(m) \subseteq ChainAccounts(n)
<1>1. 1 .. m \subseteq 1 .. n
  BY ChainFacts
<1> QED BY <1>1 DEF ChainAccounts, BlocksUpto

(* The modification log of a block names accounts that exist after it.     *)
LEMMA DirtyKnown ==
  ASSUME NEW n \in 1 .. Len(Chain)
  PROVE  Dirty(Chain[n]) \subseteq ChainAccounts(n)
  BY ChainFacts, AccountsStep DEF Dirty

(* An account that does not exist has no effects.                          *)
LEMMA NoValueYet ==
  ASSUME NEW n \in 0 .. Len(Chain), NEW a, a \notin ChainAccounts(n)
  PROVE  ChainValue(n, a) = {}
<1>1. ASSUME NEW i \in 1 .. n
      PROVE  a \notin Chain[i].touched /\ a \notin Chain[i].new /\ a \notin Filled(Chain[i])
  <2>1. i \in 1 .. Len(Chain) /\ i \in 0 .. n /\ i - 1 \in 0 .. n
    BY ChainFacts
  <2>2. ChainAccounts(i) \subseteq ChainAccounts(n) /\ ChainAccounts(i - 1) \subseteq ChainAccounts(n)
    BY <2>1, AccountsGrow
  <2> QED BY <2>1, <2>2, ChainFacts, AccountsStep
<1> QED BY <1>1 DEF ChainValue, BlocksUpto

(* The transactions of a block were not applied before it.                 *)
LEMMA TxIsNew ==
  ASSUME NEW n \in 1 .. Len(Chain), NEW a
  PROVE  Tx(Chain[n]) \notin ChainValue(n - 1, a)
<1> SUFFICES ASSUME Tx(Chain[n]) \in ChainValue(n - 1, a) PROVE FALSE
  OBVIOUS
<1>1. PICK b \in BlocksUpto(n - 1) : Tx(Chain[n]) = Tx(b) \/ Tx(Chain[n]) = Fill(b)
  BY DEF ChainValue
<1>2. PICK i \in 1 .. n - 1 : b = Chain[i]
  BY <1>1 DEF BlocksUpto
<1>3. i \in 1 .. Len(Chain) /\ i # n
  BY ChainFacts
<1> QED BY <1>1, <1>2, <1>3, ChainFacts DEF Tx, Fill

\* What a block of the chain makes of the chain's state.
PaidDatabase(n) ==
  Give(WithNewAccounts(Give(ChainDatabase(n - 1), Chain[n].touched, Tx(Chain[n])), NewOf(Chain[n])),
       Filled(Chain[n]), Fill(Chain[n]))

(* The available values after the block are the chain's, and the accounts  *)
(* outside the log are untouched.                                          *)
LEMMA PaidFacts ==
  ASSUME NEW n \in 1 .. Len(Chain)
  PROVE  /\ DOMAIN PaidDatabase(n) = ChainAccounts(n)
         /\ \A a \in ChainAccounts(n) : PaidDatabase(n)[a].avail = ChainValue(n, a)
         /\ \A a \in ChainAccounts(n) \ Dirty(Chain[n]) :
               PaidDatabase(n)[a] = Account(ChainValue(n, a), ChainValue(n, a))
<1> DEFINE b == Chain[n]
           d1 == Give(ChainDatabase(n - 1), b.touched, Tx(b))
           d2 == WithNewAccounts(d1, NewOf(b))
<1>1. /\ DOMAIN ChainDatabase(n - 1) = ChainAccounts(n - 1)
      /\ \A a \in ChainAccounts(n - 1) :
           ChainDatabase(n - 1)[a] = Account(ChainValue(n - 1, a), ChainValue(n - 1, a))
  BY DEF ChainDatabase
<1>2. /\ DOMAIN d1 = ChainAccounts(n - 1)
      /\ \A a \in ChainAccounts(n - 1) :
           /\ d1[a].avail = ChainValue(n - 1, a) \union (IF a \in b.touched THEN {Tx(b)} ELSE {})
           /\ a \notin b.touched => d1[a] = Account(ChainValue(n - 1, a), ChainValue(n - 1, a))
  BY <1>1 DEF Give, Account
<1>3. DOMAIN NewOf(b) = b.new /\ \A a \in b.new : NewOf(b)[a] = {Tx(b)}
  BY DEF NewOf
<1> HIDE DEF d1
<1>4. /\ DOMAIN d2 = ChainAccounts(n)
      /\ \A a \in ChainAccounts(n) :
           /\ a \in b.new => d2[a] = Account({Tx(b)}, {Tx(b)})
           /\ a \notin b.new => d2[a] = d1[a] /\ a \in ChainAccounts(n - 1)
  BY <1>2, <1>3, AccountsStep DEF WithNewAccounts, Over
<1> HIDE DEF d2
<1>5. ASSUME NEW a \in ChainAccounts(n)
      PROVE  d2[a].avail = ChainValue(n - 1, a) \union
                             (IF a \in b.touched \union b.new THEN {Tx(b)} ELSE {})
  <2>1. CASE a \in b.new
    <3>1. a \notin ChainAccounts(n - 1) /\ n - 1 \in 0 .. Len(Chain)
      BY <2>1, ChainFacts
    <3>2. ChainValue(n - 1, a) = {}
      BY <3>1, NoValueYet
    <3> QED BY <1>4, <2>1, <3>2 DEF Account
  <2>2. CASE a \notin b.new
    BY <1>2, <1>4, <2>2
  <2> QED BY <2>1, <2>2
<1>6. PaidDatabase(n) = Give(d2, Filled(b), Fill(b))
  BY DEF PaidDatabase, d1, d2
<1>7. DOMAIN PaidDatabase(n) = ChainAccounts(n)
  BY <1>4, <1>6 DEF Give
<1>8. ASSUME NEW a \in ChainAccounts(n)
      PROVE  PaidDatabase(n)[a].avail = ChainValue(n, a)
  <2>1. PaidDatabase(n)[a].avail = d2[a].avail \union (IF a \in Filled(b) THEN {Fill(b)} ELSE {})
    BY <1>4, <1>6 DEF Give, Account
  <2> QED BY <1>5, <2>1, ValueStep
<1>9. ASSUME NEW a \in ChainAccounts(n) \ Dirty(b)
      PROVE  PaidDatabase(n)[a] = Account(ChainValue(n, a), ChainValue(n, a))
  <2>1. a \notin b.touched /\ a \notin b.new /\ a \notin Filled(b)
    BY <1>9 DEF Dirty
  <2>2. ChainValue(n, a) = ChainValue(n - 1, a)
    BY <1>9, ValueKept
  <2>3. PaidDatabase(n)[a] = d2[a]
    BY <1>4, <1>6, <2>1 DEF Give
  <2> QED BY <1>2, <1>4, <2>1, <2>2, <2>3
<1> QED BY <1>7, <1>8, <1>9

(* Committing the block makes the database and the commitment trie the     *)
(* chain's.                                                                *)
LEMMA BlockCommitted ==
  ASSUME NEW n \in 1 .. Len(Chain)
  PROVE  /\ CommitValues(PaidDatabase(n), Dirty(Chain[n])) = ChainDatabase(n)
         /\ TentativeCommitment(Over(NewOf(Chain[n]), ChainValues(n - 1)), PaidDatabase(n), Dirty(Chain[n]))
              = ChainValues(n)
         /\ Commitment(Over(NewOf(Chain[n]), ChainValues(n - 1)),
                       CommitValues(PaidDatabase(n), Dirty(Chain[n])), Dirty(Chain[n])) = ChainValues(n)
<1> DEFINE b == Chain[n]
           t == Over(NewOf(b), ChainValues(n - 1))
<1>1. CommitValues(PaidDatabase(n), Dirty(b)) = ChainDatabase(n)
  BY PaidFacts DEF CommitValues, ChainDatabase
<1>2. DOMAIN t = ChainAccounts(n)
  BY AccountsStep DEF Over, NewOf, ChainValues
<1>3. ASSUME NEW a \in ChainAccounts(n) \ Dirty(b)
      PROVE  t[a] = ChainValue(n, a)
  <2>1. a \notin b.touched /\ a \notin b.new /\ a \notin Filled(b)
    BY <1>3 DEF Dirty
  <2>2. ChainValue(n, a) = ChainValue(n - 1, a) /\ a \in ChainAccounts(n - 1)
    BY <1>3, <2>1, ValueKept, AccountsStep
  <2> QED BY <2>1, <2>2 DEF Over, NewOf, ChainValues
<1> HIDE DEF t
<1>4. TentativeCommitment(t, PaidDatabase(n), Dirty(b)) = ChainValues(n)
  BY <1>2, <1>3, PaidFacts DEF TentativeCommitment, ChainValues
<1>5. Commitment(t, ChainDatabase(n), Dirty(b)) = ChainValues(n)
  BY <1>2, <1>3 DEF Commitment, ChainValues, ChainDatabase, Account
<1> QED BY <1>1, <1>4, <1>5 DEF t

-----------------------------------------------------------------------------
(* Loops over thunks.                                                      *)

(* Two functions that start alike and go on alike end alike.               *)
LEMMA SameLoop ==
  ASSUME NEW L \in Nat, NEW g, NEW h, g[0] = h[0],
         \A i \in 1 .. L : g[i - 1] = h[i - 1] => g[i] = h[i]
  PROVE  g[L] = h[L]
<1> DEFINE Bad == {i \in 0 .. L : g[i] # h[i]}
<1> SUFFICES ASSUME Bad # {} PROVE FALSE
  OBVIOUS
<1>1. Bad \subseteq Nat
  OBVIOUS
<1>2. \E i \in Bad : \A j \in Bad : ~ (<<j, i>> \in OpToRel(<, Nat))
  <2> HIDE DEF Bad
  <2> QED BY <1>1, NatLessThanWellFounded, WFMin
<1>3. PICK i \in Bad : \A j \in Bad : ~ (j < i)
  BY <1>1, <1>2 DEF OpToRel
<1>4. i # 0 /\ i \in 1 .. L /\ i - 1 \in 0 .. L
  BY <1>3
<1>5. i - 1 \notin Bad
  <2> HIDE DEF Bad
  <2> QED BY <1>1, <1>3, <1>4
<1> QED BY <1>3, <1>4, <1>5

(* A thunk more at the end.                                                *)
LEMMA AppendNext ==
  ASSUME NEW T, NEW s \in Seq(T), NEW k \in 1 .. Len(s), NEW j \in 0 .. k - 1
  PROVE  Append([i \in 1 .. k - 1 - j |-> s[j + i]], s[k]) = [i \in 1 .. k - j |-> s[j + i]]
<1> DEFINE p == [i \in 1 .. k - 1 - j |-> s[j + i]]
           q == [i \in 1 .. k - j |-> s[j + i]]
<1>0. Len(s) \in Nat /\ k - 1 - j \in Nat /\ k - j \in Nat /\ k \in Nat /\ j \in Nat
  OBVIOUS
<1>1. \A i \in 1 .. k - j : j + i \in 1 .. Len(s) /\ s[j + i] \in T
  OBVIOUS
<1>2. p \in Seq(T) /\ Len(p) = k - 1 - j
  BY <1>0, <1>1
<1>3. q \in Seq(T) /\ Len(q) = k - j
  BY <1>0, <1>1
<1>4. s[k] \in T
  OBVIOUS
<1>5. Append(p, s[k]) \in Seq(T) /\ Len(Append(p, s[k])) = k - j
  BY <1>0, <1>2, <1>4
<1>6. ASSUME NEW i \in 1 .. k - j PROVE Append(p, s[k])[i] = q[i]
  <2>1. CASE i = k - j
    <3>1. Append(p, s[k])[i] = s[k]
      BY <1>0, <1>2, <1>4, <2>1
    <3>2. q[i] = s[k]
      BY <1>0, <2>1
    <3> QED BY <3>1, <3>2
  <2>2. CASE i # k - j
    <3>1. i \in 1 .. Len(p)
      BY <1>0, <1>2, <2>2
    <3>2. Append(p, s[k])[i] = p[i]
      <4> HIDE DEF p
      <4> QED BY <1>2, <1>4, <3>1
    <3>3. p[i] = s[j + i]
      BY <1>2, <3>1
    <3> QED BY <3>2, <3>3
  <2> QED BY <2>1, <2>2
<1> HIDE DEF p, q
<1>7. Append(p, s[k]) = q
  BY <1>0, <1>3, <1>5, <1>6
<1> QED BY <1>7 DEF p, q

(* The loop that takes the thunks up to block n out of consecutive ones.   *)
LEMMA UptoConsecutive ==
  ASSUME NEW T, NEW s \in Seq(T), NEW w \in Nat, \A i \in 1 .. Len(s) : s[i].n = w + i,
         NEW n \in w .. w + Len(s)
  PROVE  Upto(s, n) = [i \in 1 .. n - w |-> s[i]]
<1> DEFINE L == Len(s)
           F(f) == [i \in 0 .. L |-> IF i = 0 THEN <<>> ELSE IF s[i].n <= n THEN Append(f[i - 1], s[i]) ELSE f[i - 1]]
           g == CHOOSE f : f = F(f)
           m(i) == IF i =< n - w THEN i ELSE n - w
           h == [i \in 0 .. L |-> [j \in 1 .. m(i) |-> s[j]]]
<1>1. Upto(s, n) = g[L]
  BY Zenon DEF Upto, Loop
<1>2. L \in Nat /\ n \in Nat /\ n - w \in 0 .. L
  OBVIOUS
<1>3. h[0] = <<>>
  <2>1. m(0) = 0
    BY <1>2
  <2>2. h[0] = [j \in 1 .. 0 |-> s[j]]
    BY <1>2, <2>1
  <2>3. [j \in 1 .. 0 |-> s[j]] = <<>>
    OBVIOUS
  <2> QED BY <2>2, <2>3
<1>4. ASSUME NEW i \in 1 .. L
      PROVE  h[i] = IF s[i].n <= n THEN Append(h[i - 1], s[i]) ELSE h[i - 1]
  <2>1. s[i].n = w + i /\ i - 1 \in 0 .. L /\ i \in 0 .. L /\ i \in Nat
    BY <1>2
  <2>2. CASE i =< n - w
    <3>1. m(i) = i /\ m(i - 1) = i - 1 /\ s[i].n <= n
      BY <1>2, <2>1, <2>2
    <3>2. h[i] = [j \in 1 .. i |-> s[j]] /\ h[i - 1] = [j \in 1 .. i - 1 |-> s[j]]
      BY <2>1, <3>1
    <3>3. Append([j \in 1 .. i - 1 - 0 |-> s[0 + j]], s[i]) = [j \in 1 .. i - 0 |-> s[0 + j]]
      BY <2>1, AppendNext
    <3>4. /\ [j \in 1 .. i - 1 - 0 |-> s[0 + j]] = [j \in 1 .. i - 1 |-> s[j]]
          /\ [j \in 1 .. i - 0 |-> s[0 + j]] = [j \in 1 .. i |-> s[j]]
      BY <2>1
    <3> QED BY <3>1, <3>2, <3>3, <3>4
  <2>3. CASE ~ (i =< n - w)
    <3>1. m(i) = n - w /\ m(i - 1) = n - w /\ ~ (s[i].n <= n)
      BY <1>2, <2>1, <2>3
    <3> QED BY <2>1, <3>1
  <2> QED BY <2>2, <2>3
<1>5. h = F(h)
  <2> DEFINE r == [i \in 0 .. L |-> IF i = 0 THEN <<>> ELSE IF s[i].n <= n THEN Append(h[i - 1], s[i]) ELSE h[i - 1]]
  <2>1. \A i \in 0 .. L : h[i] = r[i]
    <3> SUFFICES ASSUME NEW i \in 0 .. L PROVE h[i] = r[i]
      OBVIOUS
    <3>1. CASE i = 0
      BY <1>3, <3>1
    <3>2. CASE i # 0
      <4>1. i \in 1 .. L
        BY <1>2, <3>2
      <4> HIDE DEF h
      <4> QED BY <1>4, <3>2, <4>1
    <3> QED BY <3>1, <3>2
  <2>2. h = [i \in 0 .. L |-> h[i]]
    OBVIOUS
  <2> HIDE DEF h
  <2> QED BY <2>1, <2>2
<1>6. g = F(g)
  <2> HIDE DEF F, h
  <2> QED BY <1>5
<1>7. \A i \in 0 .. L : g[i] = IF i = 0 THEN <<>> ELSE IF s[i].n <= n THEN Append(g[i - 1], s[i]) ELSE g[i - 1]
  <2> HIDE DEF g, L
  <2> QED BY <1>6
<1> HIDE DEF g, h, F, L
<1>8. g[L] = h[L]
  <2>1. g[0] = <<>>
    BY <1>2, <1>7
  <2>2. ASSUME NEW i \in 1 .. L, g[i - 1] = h[i - 1] PROVE g[i] = h[i]
    <3>1. i \in 0 .. L /\ i # 0
      BY <1>2
    <3>2. g[i] = IF s[i].n <= n THEN Append(g[i - 1], s[i]) ELSE g[i - 1]
      BY <1>7, <3>1
    <3> QED BY <1>4, <2>2, <3>2
  <2>3. L \in Nat /\ g[0] = h[0]
    BY <1>2, <1>3, <2>1
  <2>4. \A i \in 1 .. L : g[i - 1] = h[i - 1] => g[i] = h[i]
    BY <2>2
  <2> QED BY <2>3, <2>4, SameLoop, Zenon
<1>9. h[L] = [i \in 1 .. n - w |-> s[i]]
  <2>1. m(L) = n - w
    BY <1>2
  <2> QED BY <1>2, <2>1 DEF h
<1> QED BY <1>1, <1>8, <1>9

(* The loop that keeps the thunks beyond block n of consecutive ones.      *)
LEMMA BeyondConsecutive ==
  ASSUME NEW T, NEW s \in Seq(T), NEW w \in Nat, \A i \in 1 .. Len(s) : s[i].n = w + i,
         NEW n \in w .. w + Len(s)
  PROVE  Beyond(s, n) = [i \in 1 .. Len(s) - (n - w) |-> s[(n - w) + i]]
<1> DEFINE L == Len(s)
           k == n - w
           F(f) == [i \in 0 .. L |-> IF i = 0 THEN <<>> ELSE IF s[i].n > n THEN Append(f[i - 1], s[i]) ELSE f[i - 1]]
           g == CHOOSE f : f = F(f)
           m(i) == IF i =< k THEN 0 ELSE i - k
           h == [i \in 0 .. L |-> [j \in 1 .. m(i) |-> s[k + j]]]
<1>1. Beyond(s, n) = g[L]
  BY Zenon DEF Beyond, Loop
<1>2. L \in Nat /\ n \in Nat /\ k \in 0 .. L /\ n = w + k
  OBVIOUS
<1>3. h[0] = <<>>
  <2>1. m(0) = 0
    BY <1>2
  <2>2. h[0] = [j \in 1 .. 0 |-> s[k + j]]
    BY <1>2, <2>1
  <2>3. [j \in 1 .. 0 |-> s[k + j]] = <<>>
    OBVIOUS
  <2> QED BY <2>2, <2>3
<1>4. ASSUME NEW i \in 1 .. L
      PROVE  h[i] = IF s[i].n > n THEN Append(h[i - 1], s[i]) ELSE h[i - 1]
  <2>1. s[i].n = w + i /\ i - 1 \in 0 .. L /\ i \in 0 .. L /\ i \in Nat /\ k \in Nat
    BY <1>2
  <2>2. CASE i > k
    <3>1. m(i) = i - k /\ m(i - 1) = i - 1 - k /\ s[i].n > n
      BY <1>2, <2>1, <2>2
    <3>2. h[i] = [j \in 1 .. i - k |-> s[k + j]] /\ h[i - 1] = [j \in 1 .. i - 1 - k |-> s[k + j]]
      BY <2>1, <3>1
    <3>3. k \in 0 .. i - 1
      BY <2>1, <2>2
    <3>4. Append([j \in 1 .. i - 1 - k |-> s[k + j]], s[i]) = [j \in 1 .. i - k |-> s[k + j]]
      <4> HIDE DEF k
      <4> QED BY <3>3, AppendNext
    <3> QED BY <3>1, <3>2, <3>4
  <2>3. CASE ~ (i > k)
    <3>1. m(i) = 0 /\ m(i - 1) = 0 /\ ~ (s[i].n > n)
      BY <1>2, <2>1, <2>3
    <3> QED BY <2>1, <3>1
  <2> QED BY <2>2, <2>3
<1>5. h = F(h)
  <2> DEFINE r == [i \in 0 .. L |-> IF i = 0 THEN <<>> ELSE IF s[i].n > n THEN Append(h[i - 1], s[i]) ELSE h[i - 1]]
  <2>1. \A i \in 0 .. L : h[i] = r[i]
    <3> SUFFICES ASSUME NEW i \in 0 .. L PROVE h[i] = r[i]
      OBVIOUS
    <3>1. CASE i = 0
      BY <1>3, <3>1
    <3>2. CASE i # 0
      <4>1. i \in 1 .. L
        BY <1>2, <3>2
      <4> HIDE DEF h
      <4> QED BY <1>4, <3>2, <4>1
    <3> QED BY <3>1, <3>2
  <2>2. h = [i \in 0 .. L |-> h[i]]
    OBVIOUS
  <2> HIDE DEF h
  <2> QED BY <2>1, <2>2
<1>6. g = F(g)
  <2> HIDE DEF F, h
  <2> QED BY <1>5
<1>7. \A i \in 0 .. L : g[i] = IF i = 0 THEN <<>> ELSE IF s[i].n > n THEN Append(g[i - 1], s[i]) ELSE g[i - 1]
  <2> HIDE DEF g, L
  <2> QED BY <1>6
<1> HIDE DEF g, h, F, L
<1>8. g[L] = h[L]
  <2>1. g[0] = <<>>
    BY <1>2, <1>7
  <2>2. ASSUME NEW i \in 1 .. L, g[i - 1] = h[i - 1] PROVE g[i] = h[i]
    <3>1. i \in 0 .. L /\ i # 0
      BY <1>2
    <3>2. g[i] = IF s[i].n > n THEN Append(g[i - 1], s[i]) ELSE g[i - 1]
      BY <1>7, <3>1
    <3> QED BY <1>4, <2>2, <3>2
  <2>3. L \in Nat /\ g[0] = h[0]
    BY <1>2, <1>3, <2>1
  <2>4. \A i \in 1 .. L : g[i - 1] = h[i - 1] => g[i] = h[i]
    BY <2>2
  <2> QED BY <2>3, <2>4, SameLoop, Zenon
<1>9. h[L] = [i \in 1 .. L - k |-> s[k + i]]
  <2>1. m(L) = L - k
    BY <1>2
  <2> QED BY <1>2, <2>1 DEF h
<1> QED BY <1>1, <1>8, <1>9 DEF L

(* The thunks of the blocks after w up to l.                               *)
LEMMA ThunksFacts ==
  ASSUME NEW w \in 0 .. Len(Chain), NEW l \in w .. Len(Chain)
  PROVE  /\ ThunksOf(w, l) \in Seq({ThunkOf(n) : n \in 1 .. Len(Chain)})
         /\ Len(ThunksOf(w, l)) = l - w
         /\ \A i \in 1 .. l - w : ThunksOf(w, l)[i] = ThunkOf(w + i) /\ ThunksOf(w, l)[i].n = w + i
<1>1. Len(Chain) \in Nat
  BY ChainFacts
<1>2. \A i \in 1 .. l - w : w + i \in 1 .. Len(Chain)
  BY <1>1
<1>3. \A i \in 1 .. l - w : ThunksOf(w, l)[i] = ThunkOf(w + i)
  BY DEF ThunksOf
<1>4. l - w \in Nat
  BY <1>1
<1>5. ThunksOf(w, l) \in Seq({ThunkOf(n) : n \in 1 .. Len(Chain)}) /\ Len(ThunksOf(w, l)) = l - w
  BY <1>2, <1>4 DEF ThunksOf
<1>6. \A n : ThunkOf(n).n = n
  BY DEF ThunkOf
<1> QED BY <1>3, <1>5, <1>6

(* The thunks that a batch writes.                                         *)
LEMMA ThunksUpto ==
  ASSUME NEW w \in 0 .. Len(Chain), NEW l \in w .. Len(Chain), NEW n \in w .. l
  PROVE  Upto(ThunksOf(w, l), n) = ThunksOf(w, n)
<1> DEFINE s == ThunksOf(w, l)
           T == {ThunkOf(k) : k \in 1 .. Len(Chain)}
<1>1. Len(Chain) \in Nat /\ w \in Nat /\ l \in Nat /\ n \in Nat
  BY ChainFacts
<1>2. s \in Seq(T) /\ Len(s) = l - w /\ \A i \in 1 .. Len(s) : s[i].n = w + i /\ s[i] = ThunkOf(w + i)
  BY ThunksFacts
<1>3. n \in w .. w + Len(s)
  BY <1>1, <1>2
<1> HIDE DEF s, T
<1>4. Upto(s, n) = [i \in 1 .. n - w |-> s[i]]
  BY <1>1, <1>2, <1>3, UptoConsecutive
<1>5. \A i \in 1 .. n - w : s[i] = ThunkOf(w + i)
  BY <1>1, <1>2
<1>6. [i \in 1 .. n - w |-> s[i]] = ThunksOf(w, n)
  BY <1>5 DEF ThunksOf
<1> QED BY <1>4, <1>6 DEF s

(* The thunks that are left after a batch.                                 *)
LEMMA ThunksBeyond ==
  ASSUME NEW w \in 0 .. Len(Chain), NEW l \in w .. Len(Chain), NEW n \in w .. l
  PROVE  Beyond(ThunksOf(w, l), n) = ThunksOf(n, l)
<1> DEFINE s == ThunksOf(w, l)
           T == {ThunkOf(k) : k \in 1 .. Len(Chain)}
<1>1. Len(Chain) \in Nat /\ w \in Nat /\ l \in Nat /\ n \in Nat
  BY ChainFacts
<1>2. s \in Seq(T) /\ Len(s) = l - w /\ \A i \in 1 .. Len(s) : s[i].n = w + i /\ s[i] = ThunkOf(w + i)
  BY ThunksFacts
<1>3. n \in w .. w + Len(s) /\ Len(s) - (n - w) = l - n
  BY <1>1, <1>2
<1> HIDE DEF s, T
<1>4. Beyond(s, n) = [i \in 1 .. Len(s) - (n - w) |-> s[(n - w) + i]]
  BY <1>1, <1>2, <1>3, BeyondConsecutive
<1>5. \A i \in 1 .. l - n : s[(n - w) + i] = ThunkOf(n + i)
  <2> SUFFICES ASSUME NEW i \in 1 .. l - n PROVE s[(n - w) + i] = ThunkOf(n + i)
    OBVIOUS
  <2>1. (n - w) + i \in 1 .. Len(s) /\ w + ((n - w) + i) = n + i
    BY <1>1, <1>2
  <2> QED BY <1>2, <2>1
<1>6. [i \in 1 .. l - n |-> s[(n - w) + i]] = ThunksOf(n, l)
  BY <1>5 DEF ThunksOf
<1> QED BY <1>3, <1>4, <1>6 DEF s

(* A finished block adds its thunk.                                        *)
LEMMA ThunksAppend ==
  ASSUME NEW w \in 0 .. Len(Chain), NEW l \in w .. Len(Chain) - 1
  PROVE  Append(ThunksOf(w, l), ThunkOf(l + 1)) = ThunksOf(w, l + 1)
<1> DEFINE s == ThunksOf(w, l + 1)
           T == {ThunkOf(k) : k \in 1 .. Len(Chain)}
           k == l + 1 - w
<1>1. Len(Chain) \in Nat /\ w \in Nat /\ l \in Nat /\ l + 1 \in w .. Len(Chain)
  BY ChainFacts
<1>2. s \in Seq(T) /\ Len(s) = k /\ \A i \in 1 .. k : s[i] = ThunkOf(w + i)
  <2> DEFINE m == l + 1
  <2>1. m \in w .. Len(Chain)
    BY <1>1
  <2> HIDE DEF m
  <2>2. /\ ThunksOf(w, m) \in Seq(T) /\ Len(ThunksOf(w, m)) = m - w
        /\ \A i \in 1 .. m - w : ThunksOf(w, m)[i] = ThunkOf(w + i)
    BY <2>1, ThunksFacts
  <2> QED BY <2>2 DEF m
<1>3. k \in 1 .. Len(s) /\ 0 \in 0 .. k - 1 /\ k \in Nat /\ w + k = l + 1 /\ k - 1 = l - w
  BY <1>1, <1>2
<1> HIDE DEF s, T, k
<1>4. Append([i \in 1 .. k - 1 - 0 |-> s[0 + i]], s[k]) = [i \in 1 .. k - 0 |-> s[0 + i]]
  BY <1>2, <1>3, AppendNext
<1>5. s[k] = ThunkOf(l + 1)
  BY <1>2, <1>3
<1>6. [i \in 1 .. k - 0 |-> s[0 + i]] = s
  <2>1. \A i \in 1 .. k : 0 + i = i
    BY <1>3
  <2>2. s = [i \in 1 .. k |-> s[i]]
    BY <1>2, <1>3
  <2>3. k - 0 = k
    BY <1>3
  <2>4. [i \in 1 .. k - 0 |-> s[0 + i]] = [i \in 1 .. k |-> s[i]]
    BY <2>1, <2>3
  <2> QED BY <2>2, <2>4
<1>7. [i \in 1 .. k - 1 - 0 |-> s[0 + i]] = ThunksOf(w, l)
  <2>1. k - 1 - 0 = l - w
    BY <1>1, <1>3
  <2>2. \A i \in 1 .. l - w : 0 + i = i /\ s[i] = ThunkOf(w + i)
    BY <1>1, <1>2, <1>3
  <2> QED BY <2>1, <2>2 DEF ThunksOf
<1> QED BY <1>4, <1>5, <1>6, <1>7 DEF s

(* Writing the thunk of a block makes the table that of the block.         *)
LEMMA ThunkWritten ==
  ASSUME NEW n \in 1 .. Len(Chain)
  PROVE  WriteThunk(ThunkOf(n), ChainValues(n - 1)) = ChainValues(n)
<1> DEFINE kvs == [a \in Dirty(Chain[n]) |-> ChainValue(n, a)]
<1>1. WriteThunk(ThunkOf(n), ChainValues(n - 1)) = Over(kvs, ChainValues(n - 1))
  BY DEF WriteThunk, ThunkOf
<1>2. Dirty(Chain[n]) \union ChainAccounts(n - 1) = ChainAccounts(n)
  BY DirtyKnown, AccountsStep DEF Dirty
<1>3. \A a \in ChainAccounts(n - 1) \ Dirty(Chain[n]) : ChainValue(n, a) = ChainValue(n - 1, a)
  BY ValueKept
<1>4. Over(kvs, ChainValues(n - 1)) = ChainValues(n)
  BY <1>2, <1>3 DEF Over, ChainValues
<1> QED BY <1>1, <1>4

(* Writing the thunks of consecutive blocks makes the table that of the    *)
(* last of them.                                                           *)
LEMMA ThunksWritten ==
  ASSUME NEW w \in 0 .. Len(Chain), NEW n \in w .. Len(Chain)
  PROVE  WriteThunks(ChainValues(w), ThunksOf(w, n)) = ChainValues(n)
<1> DEFINE s == ThunksOf(w, n)
           L == Len(s)
           F(f) == [i \in 0 .. L |-> IF i = 0 THEN ChainValues(w) ELSE WriteThunk(s[i], f[i - 1])]
           g == CHOOSE f : f = F(f)
           h == [i \in 0 .. L |-> ChainValues(w + i)]
<1>1. WriteThunks(ChainValues(w), s) = g[L]
  BY Zenon DEF WriteThunks, Loop
<1>2. Len(Chain) \in Nat /\ w \in Nat /\ n \in Nat
  BY ChainFacts
<1>3. L = n - w /\ L \in Nat /\ \A i \in 1 .. L : s[i] = ThunkOf(w + i)
  <2>1. L = n - w /\ \A i \in 1 .. n - w : s[i] = ThunkOf(w + i)
    BY ThunksFacts
  <2> HIDE DEF s, L
  <2> QED BY <1>2, <2>1
<1> HIDE DEF s, L
<1>4. h[0] = ChainValues(w)
  <2>1. 0 \in 0 .. L /\ w + 0 = w
    BY <1>2, <1>3
  <2> QED BY <2>1
<1>5. ASSUME NEW i \in 1 .. L PROVE h[i] = WriteThunk(s[i], h[i - 1])
  <2>1. /\ w + i \in 1 .. Len(Chain) /\ w + (i - 1) = (w + i) - 1
        /\ i \in 0 .. L /\ i - 1 \in 0 .. L /\ s[i] = ThunkOf(w + i)
    BY <1>2, <1>3
  <2>2. h[i] = ChainValues(w + i) /\ h[i - 1] = ChainValues((w + i) - 1)
    BY <2>1
  <2> QED BY <2>1, <2>2, ThunkWritten
<1>6. h = F(h)
  <2> DEFINE r == [i \in 0 .. L |-> IF i = 0 THEN ChainValues(w) ELSE WriteThunk(s[i], h[i - 1])]
  <2>1. \A i \in 0 .. L : h[i] = r[i]
    <3> SUFFICES ASSUME NEW i \in 0 .. L PROVE h[i] = r[i]
      OBVIOUS
    <3>1. CASE i = 0
      BY <1>4, <3>1
    <3>2. CASE i # 0
      <4>1. i \in 1 .. L
        BY <1>3, <3>2
      <4> HIDE DEF h
      <4> QED BY <1>5, <3>2, <4>1
    <3> QED BY <3>1, <3>2
  <2>2. h = [i \in 0 .. L |-> h[i]]
    OBVIOUS
  <2> HIDE DEF h
  <2> QED BY <2>1, <2>2
<1>7. g = F(g)
  <2> HIDE DEF F, h
  <2> QED BY <1>6
<1>8. \A i \in 0 .. L : g[i] = IF i = 0 THEN ChainValues(w) ELSE WriteThunk(s[i], g[i - 1])
  <2> HIDE DEF g
  <2> QED BY <1>7
<1> HIDE DEF g, h, F
<1>9. g[L] = h[L]
  <2>1. g[0] = ChainValues(w)
    BY <1>3, <1>8
  <2>2. ASSUME NEW i \in 1 .. L, g[i - 1] = h[i - 1] PROVE g[i] = h[i]
    <3>1. i \in 0 .. L /\ i # 0
      BY <1>3
    <3>2. g[i] = WriteThunk(s[i], g[i - 1])
      BY <1>8, <3>1
    <3> QED BY <1>5, <2>2, <3>2
  <2>3. L \in Nat /\ g[0] = h[0]
    BY <1>3, <1>4, <2>1
  <2>4. \A i \in 1 .. L : g[i - 1] = h[i - 1] => g[i] = h[i]
    BY <2>2
  <2> QED BY <2>3, <2>4, SameLoop, Zenon
<1>10. h[L] = ChainValues(n)
  <2>1. w + L = n /\ L \in 0 .. L
    BY <1>2, <1>3
  <2> QED BY <2>1 DEF h
<1> QED BY <1>1, <1>9, <1>10 DEF s

(* The creation thunks of the blocks after c up to h.                      *)
LEMMA NumbersFacts ==
  ASSUME NEW c \in Nat, NEW h \in Nat, c =< h
  PROVE  /\ NumbersOf(c, h) \in Seq([n : Nat]) /\ Len(NumbersOf(c, h)) = h - c
         /\ DOMAIN NumbersOf(c, h) = 1 .. h - c
         /\ \A i \in 1 .. h - c : NumbersOf(c, h)[i] = [n |-> c + i] /\ NumbersOf(c, h)[i].n = c + i
         /\ c = h => NumbersOf(c, h) = <<>>
         /\ c # h => NumbersOf(c, h) # <<>> /\ Last(NumbersOf(c, h)).n = h
<1>1. h - c \in Nat
  OBVIOUS
<1>2. \A i \in 1 .. h - c : NumbersOf(c, h)[i] = [n |-> c + i] /\ [n |-> c + i] \in [n : Nat]
  BY DEF NumbersOf
<1>3. NumbersOf(c, h) \in Seq([n : Nat]) /\ Len(NumbersOf(c, h)) = h - c /\ DOMAIN NumbersOf(c, h) = 1 .. h - c
  BY <1>1, <1>2 DEF NumbersOf
<1>4. c = h => NumbersOf(c, h) = <<>>
  BY <1>3
<1>5. c # h => NumbersOf(c, h) # <<>> /\ Last(NumbersOf(c, h)).n = h
  <2> SUFFICES ASSUME c # h PROVE NumbersOf(c, h) # <<>> /\ Last(NumbersOf(c, h)).n = h
    OBVIOUS
  <2>1. h - c \in 1 .. h - c /\ c + (h - c) = h
    OBVIOUS
  <2>2. Last(NumbersOf(c, h)) = NumbersOf(c, h)[h - c]
    BY <1>3 DEF Last
  <2>3. NumbersOf(c, h)[h - c].n = h
    <3>1. NumbersOf(c, h)[h - c] = [n |-> c + (h - c)]
      BY <1>2, <2>1
    <3> QED BY <2>1, <3>1
  <2> QED BY <1>3, <2>1, <2>2, <2>3
<1> QED BY <1>2, <1>3, <1>4, <1>5

(* The creation thunks that are left when those up to block m go.          *)
LEMMA NumbersBeyond ==
  ASSUME NEW c \in Nat, NEW h \in Nat, NEW m \in c .. h
  PROVE  Beyond(NumbersOf(c, h), m) = NumbersOf(m, h)
<1> DEFINE s == NumbersOf(c, h)
           T == [n : Nat]
<1>1. m \in Nat /\ c =< h
  OBVIOUS
<1>2. s \in Seq(T) /\ Len(s) = h - c /\ \A i \in 1 .. h - c : s[i] = [n |-> c + i] /\ s[i].n = c + i
  BY <1>1, NumbersFacts
<1> HIDE DEF s, T
<1>3. m \in c .. c + Len(s) /\ Len(s) - (m - c) = h - m
  BY <1>1, <1>2
<1>4. \A i \in 1 .. Len(s) : s[i].n = c + i
  BY <1>2
<1>5. Beyond(s, m) = [i \in 1 .. Len(s) - (m - c) |-> s[(m - c) + i]]
  <2>1. s \in Seq(T) /\ m \in c .. c + Len(s)
    BY <1>2, <1>3
  <2> QED BY <1>4, <2>1, BeyondConsecutive, Zenon
<1>6. \A i \in 1 .. h - m : s[(m - c) + i] = [n |-> m + i]
  <2> SUFFICES ASSUME NEW i \in 1 .. h - m PROVE s[(m - c) + i] = [n |-> m + i]
    OBVIOUS
  <2>1. (m - c) + i \in 1 .. h - c /\ c + ((m - c) + i) = m + i
    BY <1>1
  <2> QED BY <1>2, <2>1
<1>7. [i \in 1 .. h - m |-> s[(m - c) + i]] = NumbersOf(m, h)
  BY <1>6 DEF NumbersOf
<1> QED BY <1>3, <1>5, <1>7 DEF s

(* A block adds its creation thunk.                                        *)
LEMMA NumbersAppend ==
  ASSUME NEW c \in Nat, NEW h \in Nat, c =< h
  PROVE  Append(NumbersOf(c, h), [n |-> h + 1]) = NumbersOf(c, h + 1)
<1> DEFINE p == NumbersOf(c, h)
           q == NumbersOf(c, h + 1)
           x == [n |-> h + 1]
<1>1. p \in Seq([n : Nat]) /\ Len(p) = h - c /\ \A i \in 1 .. h - c : p[i] = [n |-> c + i]
  BY NumbersFacts
<1>2. h + 1 \in Nat /\ c =< h + 1
  OBVIOUS
<1>3. q \in Seq([n : Nat]) /\ Len(q) = h + 1 - c /\ \A i \in 1 .. h + 1 - c : q[i] = [n |-> c + i]
  BY <1>2, NumbersFacts
<1>4. x \in [n : Nat] /\ [n |-> c + (h + 1 - c)] = x
  OBVIOUS
<1> HIDE DEF p, q, x
<1>5. Append(p, x) \in Seq([n : Nat]) /\ Len(Append(p, x)) = h + 1 - c
  BY <1>1, <1>4
<1>6. ASSUME NEW i \in 1 .. h + 1 - c PROVE Append(p, x)[i] = q[i]
  <2>1. CASE i = h + 1 - c
    <3>1. i = Len(p) + 1
      BY <1>1, <2>1
    <3>2. Append(p, x)[i] = x
      BY <1>1, <1>4, <3>1
    <3> QED BY <1>3, <1>4, <2>1, <3>2
  <2>2. CASE i # h + 1 - c
    <3>1. i \in 1 .. h - c
      BY <2>2
    <3>2. Append(p, x)[i] = p[i]
      BY <1>1, <1>4, <3>1
    <3> QED BY <1>1, <1>3, <3>1, <3>2
  <2> QED BY <2>1, <2>2
<1>7. Append(p, x) = q
  BY <1>3, <1>5, <1>6
<1> QED BY <1>7 DEF p, q, x

-----------------------------------------------------------------------------
(* Validation.                                                             *)

(* Frames: what a step leaves alone.                                       *)
LEMMA StorageKept ==
  ASSUME TablesInv, DiskInv, UNCHANGED <<disk, table, skipped, doubled>>
  PROVE  TablesInv' /\ DiskInv'
  BY DEF TablesInv, DiskInv

(* The persisters' invariant does not look at the block at work.           *)
LEMMA StagesKept ==
  ASSUME StagesInv, UNCHANGED <<last, thunks, left, stage, disk, table>>, phase' # "handover"
  PROVE  StagesInv'
  BY DEF StagesInv

(* Nor does the header map's, between two blocks.                          *)
LEMMA MapKept ==
  ASSUME MapInv, UNCHANGED <<role, last, hmap>>, phase # "finishing", phase' # "finishing"
  PROVE  MapInv'
  BY DEF MapInv, Number

(* A process that throws leaves its tables as they are.                    *)
LEMMA DieKeeps ==
  ASSUME IInv, Die
  PROVE  IInv'
<1>1. phase' = "dead" /\ UNCHANGED <<node, last, next, stage, disk, table, ghosts>>
  BY DEF Die, storage
<1>2. Types'
  BY <1>1 DEF IInv, Types, Phases, node, ghosts
<1>3. TablesInv' /\ DiskInv'
  BY <1>1, StorageKept DEF IInv, ghosts
<1> QED BY <1>1, <1>2, <1>3 DEF IInv, Running

(* What holds while a validator works on a block.                          *)
LEMMA ValidatorLives ==
  ASSUME IInv, Running, role = "validator"
  PROVE  /\ ~ Forgetful /\ StagesInv /\ MapInv /\ AccountsInv /\ BlockInv
         /\ ~ tainted => ExactInv /\ doubled = {} /\ skipped = {}
         /\ last \in 0 .. Len(Chain) /\ Number = last + 1
  BY DEF IInv, RunningInv, Forgetful, Types, Number

(* Receiving a block.                                                      *)
LEMMA ReceiveKeeps ==
  ASSUME IInv, Receive
  PROVE  IInv'
<1>1. /\ role = "validator" /\ phase = "idle" /\ phase' = "received" /\ Number =< Len(Chain)
      /\ UNCHANGED <<role, shared, last, db, fresh, trie, creation, thunks, books, pending, left, hmap, stage,
                     disk, table, next, tainted, doubled, skipped>>
      /\ cur' = Chain[Number] \/ cur' \in Faulty(Number)
  BY DEF Receive, node, memory, values, offers, storage, ghosts
<1>2. Running
  BY <1>1 DEF Running
<1>3. /\ ~ Forgetful /\ StagesInv /\ MapInv /\ AccountsInv /\ BlockInv
      /\ ~ tainted => ExactInv /\ doubled = {} /\ skipped = {}
      /\ last \in 0 .. Len(Chain) /\ Number = last + 1
  BY <1>1, <1>2, ValidatorLives
<1>4. Number \in 1 .. Len(Chain)
  BY <1>1, <1>3, ChainFacts
<1>5. Types' /\ TablesInv' /\ DiskInv'
  BY <1>1, StorageKept DEF IInv, Types, Phases
<1>6. StagesInv' /\ MapInv'
  BY <1>1, <1>3, StagesKept, MapKept
<1>7. AccountsInv'
  BY <1>1, <1>3 DEF AccountsInv, Reached
<1>8. BlockInv'
  <2>1. Number' = Number /\ last < Len(Chain)
    BY <1>1, <1>3, <1>4 DEF Number
  <2>2. cur' = Chain[Number] \/ cur'.fails # "none"
    BY <1>1, <1>4, ChainFacts
  <2> QED BY <1>1, <2>1, <2>2 DEF BlockInv, Validating
<1>9. ~ tainted' => ExactInv'
  BY <1>1, <1>3 DEF ExactInv, CreationInv, Height, AtChain
<1> QED BY <1>1, <1>3, <1>5, <1>6, <1>7, <1>8, <1>9 DEF IInv, RunningInv, Running, Forgetful

(* Refusing a block for its header.                                        *)
LEMMA RejectHeaderKeeps ==
  ASSUME IInv, RejectHeader
  PROVE  IInv'
<1>1. /\ phase = "received" /\ phase' = "idle"
      /\ UNCHANGED <<role, shared, last, db, fresh, trie, creation, thunks, books, pending, left, hmap, stage,
                     disk, table, next, tainted, doubled, skipped>>
  BY DEF RejectHeader, node, memory, values, offers, storage, ghosts
<1>2. Running /\ role = "validator"
  BY <1>1 DEF Running, IInv, RunningInv, BlockInv, Validating
<1>3. /\ ~ Forgetful /\ StagesInv /\ MapInv /\ AccountsInv /\ BlockInv
      /\ ~ tainted => ExactInv /\ doubled = {} /\ skipped = {}
      /\ last \in 0 .. Len(Chain) /\ Number = last + 1
  BY <1>1, <1>2, ValidatorLives
<1>5. Types' /\ TablesInv' /\ DiskInv'
  BY <1>1, StorageKept DEF IInv, Types, Phases
<1>6. StagesInv' /\ MapInv'
  BY <1>1, <1>3, StagesKept, MapKept
<1>7. AccountsInv'
  BY <1>1, <1>3 DEF AccountsInv, Reached
<1>8. BlockInv'
  BY <1>1 DEF BlockInv, Validating
<1>9. ~ tainted' => ExactInv'
  BY <1>1, <1>3 DEF ExactInv, CreationInv, Height, AtChain
<1> QED BY <1>1, <1>2, <1>3, <1>5, <1>6, <1>7, <1>8, <1>9 DEF IInv, RunningInv, Running, Forgetful

(* The amounts that a block gives leave what is committed alone.           *)
LEMMA GiveFacts ==
  ASSUME NEW d, NEW accounts, NEW e
  PROVE  /\ DOMAIN Give(d, accounts, e) = DOMAIN d
         /\ \A a \in DOMAIN d : Give(d, accounts, e)[a].committed = d[a].committed
         /\ \A a \in DOMAIN d : a \notin accounts => Give(d, accounts, e)[a] = d[a]
         /\ \A a \in DOMAIN d \cap accounts : Give(d, accounts, e)[a].avail = d[a].avail \union {e}
  BY DEF Give, Account

(* The union of two functions.                                             *)
LEMMA OverFacts ==
  ASSUME NEW f, NEW g
  PROVE  /\ DOMAIN Over(f, g) = DOMAIN f \union DOMAIN g
         /\ \A x \in DOMAIN f : Over(f, g)[x] = f[x]
         /\ \A x \in DOMAIN g \ DOMAIN f : Over(f, g)[x] = g[x]
  BY DEF Over

(* A block of which a transaction fails leaves the committed values alone. *)
LEMMA FailTransactionsKeeps ==
  ASSUME IInv, FailTransactions
  PROVE  IInv'
<1>1. /\ phase = "received" /\ phase' = "idle" /\ tainted' = TRUE
      /\ UNCHANGED <<role, shared, last, trie, creation, thunks, books, left, hmap, stage,
                     disk, table, next, doubled, skipped>>
  BY DEF FailTransactions, node, storage
<1>2. Running /\ role = "validator"
  BY <1>1 DEF Running, IInv, RunningInv, BlockInv, Validating
<1>3. /\ ~ Forgetful /\ StagesInv /\ MapInv /\ AccountsInv /\ BlockInv
      /\ last \in 0 .. Len(Chain) /\ Number = last + 1
  BY <1>1, <1>2, ValidatorLives
<1>5. Types' /\ TablesInv' /\ DiskInv'
  BY <1>1, StorageKept DEF IInv, Types, Phases
<1>6. StagesInv' /\ MapInv'
  BY <1>1, <1>3, StagesKept, MapKept
<1>7. AccountsInv'
  <2>1. PICK applied \in SUBSET (cur.touched \intersect DOMAIN db),
             created \in SUBSET (cur.new \ (DOMAIN db \union DOMAIN fresh)) :
          /\ db' = Give(db, applied, Tx(cur))
          /\ fresh' = Over([a \in created |-> {Tx(cur)}], fresh)
    BY DEF FailTransactions
  <2>2. DOMAIN db' = DOMAIN db /\ \A a \in DOMAIN db : db'[a].committed = db[a].committed
    BY <2>1, GiveFacts
  <2>3. DOMAIN fresh' = created \union DOMAIN fresh
    BY <2>1 DEF Over
  <2> QED BY <1>1, <1>3, <2>2, <2>3 DEF AccountsInv, Reached
<1>8. BlockInv'
  BY <1>1 DEF BlockInv, Validating
<1> QED BY <1>1, <1>2, <1>3, <1>5, <1>6, <1>7, <1>8 DEF IInv, RunningInv, Running, Forgetful

(* Applying the transactions of a block.                                   *)
LEMMA ValidateTransactionsKeeps ==
  ASSUME IInv, ValidateTransactions
  PROVE  IInv'
<1> SUFFICES ASSUME ~ Die PROVE IInv'
  BY DieKeeps
<1>1. PICK check \in CheckValidState(cur) :
        /\ phase = "received" /\ ~ TxFails(cur)
        /\ db' = Give(db, cur.touched, Tx(cur))
        /\ fresh' = Over([a \in cur.new |-> {Tx(cur)}], fresh)
        /\ pending' = AddAll(pending, {Tx(cur)})
        /\ phase' = (IF check = "holds" THEN "checked" ELSE "idle")
        /\ cur' = (IF check = "holds" THEN cur ELSE NoBlock)
        /\ tainted' = (tainted \/ check = "fails")
        /\ check \in {"holds", "fails"}
        /\ UNCHANGED <<role, shared, last, trie, creation, thunks, books, left, hmap, stage,
                       disk, table, next, doubled, skipped>>
  BY DEF ValidateTransactions, CheckValidState, node, storage
<1>2. Running /\ role = "validator"
  BY <1>1 DEF Running, IInv, RunningInv, BlockInv, Validating
<1>3. /\ ~ Forgetful /\ StagesInv /\ MapInv /\ AccountsInv /\ BlockInv
      /\ ~ tainted => ExactInv /\ doubled = {} /\ skipped = {}
      /\ last \in 0 .. Len(Chain) /\ Number = last + 1
  BY <1>1, <1>2, ValidatorLives
<1>4. phase' \in {"checked", "idle"} /\ tainted \in BOOLEAN
  BY <1>1 DEF IInv, Types
<1>5. Types' /\ TablesInv' /\ DiskInv'
  <2>1. Types'
    BY <1>1, <1>4 DEF IInv, Types, Phases
  <2> QED BY <1>1, <2>1, StorageKept DEF IInv
<1>6. StagesInv' /\ MapInv'
  BY <1>1, <1>3, <1>4, StagesKept, MapKept
<1>7. AccountsInv'
  <2>1. DOMAIN db' = DOMAIN db /\ \A a \in DOMAIN db : db'[a].committed = db[a].committed
    BY <1>1, GiveFacts
  <2>2. DOMAIN fresh' = cur.new \union DOMAIN fresh
    BY <1>1 DEF Over
  <2>3. cur.new \cap DOMAIN db = {}
    BY <1>1 DEF TxFails
  <2>4. Reached = last /\ Reached' = last
    BY <1>1, <1>4 DEF Reached
  <2> QED BY <1>1, <1>3, <2>1, <2>2, <2>3, <2>4 DEF AccountsInv
<1>8. BlockInv'
  <2>1. CASE check = "holds"
    <3>1. phase' = "checked" /\ cur' = cur /\ Number' = Number
      BY <1>1, <2>1 DEF Number
    <3> QED BY <1>1, <1>2, <1>3, <3>1 DEF BlockInv, Validating
  <2>2. CASE check # "holds"
    BY <1>1, <2>2 DEF BlockInv, Validating
  <2> QED BY <2>1, <2>2
<1>9. ~ tainted' => ExactInv'
  <2> SUFFICES ASSUME ~ tainted' PROVE ExactInv'
    OBVIOUS
  <2>1. check = "holds" /\ ~ tainted
    BY <1>1
  <2>2. phase' = "checked" /\ cur' = cur /\ AtChain(last) /\ CreationInv
    BY <1>1, <1>3, <2>1 DEF ExactInv
  <2>3. CreationInv'
    BY <1>1, <2>2 DEF CreationInv, Height
  <2>4. db' = Give(ChainDatabase(last), cur.touched, Tx(cur)) /\ trie' = ChainValues(last)
    BY <1>1, <2>2 DEF AtChain
  <2>5. fresh' = NewOf(cur)
    BY <1>1, <2>2 DEF AtChain, Over, Empty, NewOf
  <2>6. books' = AllBooks(ChainBook(last)) /\ pending' = AllBooks({Tx(cur)})
    BY <1>1, <2>2 DEF AtChain, AllBooks, AddAll
  <2> QED BY <1>1, <2>2, <2>3, <2>4, <2>5, <2>6 DEF ExactInv
<1> QED BY <1>1, <1>2, <1>3, <1>4, <1>5, <1>6, <1>7, <1>8, <1>9 DEF IInv, RunningInv, Running, Forgetful

(* The thunk for the accounts of the next block can be made.               *)
LEMMA NoMismatch ==
  ASSUME IInv, CreationInv, Height = last
  PROVE  /\ ~ CreationMismatch(Number)
         /\ \E c \in 0 .. last : Append(creation, [n |-> Number]) = NumbersOf(c, Number)
<1>1. PICK c \in 0 .. last : creation = NumbersOf(c, last) /\ (c = last => table.written.round = c)
  BY DEF CreationInv
<1>2. c \in Nat /\ last \in Nat /\ c =< last /\ Number = last + 1
  BY DEF IInv, Types, Number
<1>3. /\ c = last => creation = <<>>
      /\ c # last => creation # <<>> /\ Last(creation).n = last
  BY <1>1, <1>2, NumbersFacts
<1>4. ~ CreationMismatch(Number)
  BY <1>1, <1>2, <1>3 DEF CreationMismatch
<1>5. Append(creation, [n |-> Number]) = NumbersOf(c, Number)
  BY <1>1, <1>2, NumbersAppend
<1> QED BY <1>4, <1>5

(* Committing the new accounts and the orderbooks tentatively.             *)
LEMMA TentativeCommitKeeps ==
  ASSUME IInv, TentativeCommit
  PROVE  IInv'
<1> SUFFICES ASSUME ~ Die PROVE IInv'
  BY DieKeeps
<1>1. /\ phase = "checked" /\ phase' = "committed"
      /\ creation' = Append(creation, [n |-> Number]) /\ fresh' = Empty
      /\ db' = WithNewAccounts(db, fresh) /\ trie' = Over(fresh, trie)
      /\ books' = [u \in 1..Units |-> books[u] \union pending[u]] /\ pending' = AllBooks({})
      /\ UNCHANGED <<role, shared, cur, last, thunks, left, hmap, stage, disk, table, next,
                     tainted, doubled, skipped>>
  BY DEF TentativeCommit, CommitNewAccounts, node, storage, ghosts
<1>2. Running /\ role = "validator"
  BY <1>1 DEF Running, IInv, RunningInv, BlockInv, Validating
<1>3. /\ ~ Forgetful /\ StagesInv /\ MapInv /\ AccountsInv /\ BlockInv
      /\ ~ tainted => ExactInv /\ doubled = {} /\ skipped = {}
      /\ last \in 0 .. Len(Chain) /\ Number = last + 1
  BY <1>1, <1>2, ValidatorLives
<1>5. Types' /\ TablesInv' /\ DiskInv'
  BY <1>1, StorageKept DEF IInv, Types, Phases
<1>6. StagesInv' /\ MapInv'
  BY <1>1, <1>3, StagesKept, MapKept
<1>7. AccountsInv'
  <2>1. /\ DOMAIN db' = DOMAIN fresh \union DOMAIN db
        /\ \A a \in DOMAIN db \ DOMAIN fresh : db'[a] = db[a]
    BY <1>1 DEF WithNewAccounts, Over
  <2>2. /\ DOMAIN trie' = DOMAIN fresh \union DOMAIN trie
        /\ \A a \in DOMAIN trie \ DOMAIN fresh : trie'[a] = trie[a]
    BY <1>1 DEF Over
  <2>3. Reached = last /\ Reached' = last /\ DOMAIN fresh' = {}
    BY <1>1 DEF Reached, Empty
  <2> QED BY <1>1, <1>3, <2>1, <2>2, <2>3 DEF AccountsInv
<1>8. BlockInv'
  BY <1>1, <1>2, <1>3 DEF BlockInv, Validating, Number
<1>9. ~ tainted' => ExactInv'
  <2> SUFFICES ASSUME ~ tainted' PROVE ExactInv'
    OBVIOUS
  <2>1. ~ tainted /\ ExactInv /\ Height = last /\ Height' = Number
    BY <1>1, <1>3 DEF Height, Number
  <2>2. PICK c \in 0 .. last : creation' = NumbersOf(c, Number)
    BY <1>1, <2>1, NoMismatch DEF ExactInv
  <2>3. c \in 0 .. Number /\ c # Number
    BY <1>3
  <2>4. CreationInv'
    BY <2>1, <2>2, <2>3 DEF CreationInv
  <2>5. ASSUME cur.fails = "none"
        PROVE  /\ db' = WithNewAccounts(Give(ChainDatabase(last), cur.touched, Tx(cur)), NewOf(cur))
               /\ trie' = Over(NewOf(cur), ChainValues(last)) /\ fresh' = Empty
               /\ books' = AllBooks(ChainBook(last) \union {Tx(cur)}) /\ pending' = AllBooks({})
    <3>1. /\ db = Give(ChainDatabase(last), cur.touched, Tx(cur)) /\ trie = ChainValues(last)
          /\ fresh = NewOf(cur)
          /\ books = AllBooks(ChainBook(last)) /\ pending = AllBooks({Tx(cur)})
      BY <1>1, <2>1, <2>5 DEF ExactInv
    <3>2. books' = AllBooks(ChainBook(last) \union {Tx(cur)})
      BY <1>1, <3>1 DEF AllBooks
    <3> QED BY <1>1, <3>1, <3>2
  <2> QED BY <1>1, <2>4, <2>5 DEF ExactInv
<1> QED BY <1>1, <1>2, <1>3, <1>5, <1>6, <1>7, <1>8, <1>9 DEF IInv, RunningInv, Running, Forgetful

(* The rollback of a block leaves what was committed before it.            *)
LEMMA RollBackKeeps ==
  ASSUME IInv, phase = "committed", NEW d, NEW t, NEW h, RollBack(d, t, h),
         DOMAIN d = DOMAIN db, \A a \in DOMAIN db : d[a].committed = db[a].committed,
         DOMAIN t = DOMAIN trie,
         \A a \in ChainAccounts(last) \ doubled : t[a] = ChainValue(last, a),
         h.last = hmap.last, h.keys \subseteq 1 .. last, 1 .. last - 1 \subseteq h.keys
  PROVE  IInv'
<1>1. /\ phase' = "idle" /\ tainted' = TRUE
      /\ hmap' = [keys |-> h.keys \ {h.last + 1}, last |-> h.last]
      /\ fresh' = Empty /\ db' = RollbackValues(d) /\ trie' = t
      /\ UNCHANGED <<role, shared, last, thunks, left, stage, disk, table, next, doubled, skipped>>
  BY DEF RollBack, node, storage
<1>2. Running /\ role = "validator"
  BY DEF Running, IInv, RunningInv, BlockInv, Validating
<1>3. /\ ~ Forgetful /\ StagesInv /\ MapInv /\ AccountsInv /\ BlockInv
      /\ last \in 0 .. Len(Chain) /\ Number = last + 1
  BY <1>2, ValidatorLives
<1>5. Types' /\ TablesInv' /\ DiskInv'
  BY <1>1, StorageKept DEF IInv, Types, Phases
<1>6. StagesInv'
  BY <1>1, <1>3, StagesKept
<1>7. MapInv'
  <2>1. hmap.last = last /\ last \in Nat
    BY <1>2, <1>3 DEF MapInv
  <2>2. hmap'.last = last /\ hmap'.keys = h.keys \ {last + 1}
    BY <1>1, <2>1
  <2>3. last + 1 \notin 1 .. last
    BY <2>1
  <2> QED BY <1>1, <1>2, <2>1, <2>2, <2>3 DEF MapInv
<1>8. AccountsInv'
  <2>1. DOMAIN db' = DOMAIN db /\ \A a \in DOMAIN db : db'[a].committed = db[a].committed
    BY <1>1 DEF RollbackValues, Account
  <2>2. Reached = last /\ Reached' = last /\ DOMAIN fresh' = {}
    BY <1>1 DEF Reached, Empty
  <2> QED BY <1>1, <1>3, <2>1, <2>2 DEF AccountsInv
<1>9. BlockInv'
  BY <1>1 DEF BlockInv, Validating
<1> QED BY <1>1, <1>2, <1>3, <1>5, <1>6, <1>7, <1>8, <1>9 DEF IInv, RunningInv, Running, Forgetful

(* A block whose clearing fails.                                           *)
LEMMA FailClearingKeeps ==
  ASSUME IInv, FailClearing
  PROVE  IInv'
<1>1. phase = "committed" /\ RollBack(Paid, trie, hmap)
  BY DEF FailClearing
<1>2. Running /\ role = "validator"
  BY <1>1 DEF Running, IInv, RunningInv, BlockInv, Validating
<1>3. MapInv /\ AccountsInv
  BY <1>2, ValidatorLives
<1>4. /\ DOMAIN Paid = DOMAIN db /\ \A a \in DOMAIN db : Paid[a].committed = db[a].committed
  BY GiveFacts DEF Paid
<1>5. /\ \A a \in ChainAccounts(last) \ doubled : trie[a] = ChainValue(last, a)
      /\ hmap.keys \subseteq 1 .. last /\ 1 .. last - 1 \subseteq hmap.keys
  BY <1>1, <1>3 DEF AccountsInv, Reached, MapInv
<1> QED BY <1>1, <1>4, <1>5, RollBackKeeps

(* The hash decides: rollback, or the block is the chain's and is          *)
(* committed.                                                              *)
LEMMA CheckHashKeeps ==
  ASSUME IInv, CheckHash
  PROVE  IInv'
<1> DEFINE log == Log(cur)
           tentative == TentativeCommitment(trie, Paid, log)
           rolled == Commitment(tentative, RollbackValues(Paid), log)
           match == /\ cur.fails = "none" /\ tentative = ChainValues(Number)
                    /\ ClearedBooks = AllBooks(ChainBook(Number)) /\ MapWithPrevious.keys = 1..last
                    /\ stale = {}
           accept == /\ db' = CommitValues(Paid, log) /\ trie' = tentative
                     /\ books' = ClearedBooks
                     /\ hmap' = [keys |-> MapWithPrevious.keys, last |-> Number]
                     /\ phase' = "finishing"
                     /\ UNCHANGED <<role, shared, cur, last, fresh, creation, thunks, pending, undo, left, stage,
                                    disk, table, next, tainted, doubled, skipped>>
<1>1. /\ phase = "committed"
      /\ \/ Die
         \/ RollBack(Paid, trie, hmap)
         \/ RollBack(Paid, rolled, MapWithPrevious)
         \/ match /\ accept
  BY DEF CheckHash, node, storage, ghosts
<1>2. Running /\ role = "validator"
  BY <1>1 DEF Running, IInv, RunningInv, BlockInv, Validating
<1>3. /\ ~ Forgetful /\ StagesInv /\ MapInv /\ AccountsInv /\ BlockInv
      /\ ~ tainted => ExactInv /\ doubled = {} /\ skipped = {}
      /\ last \in 0 .. Len(Chain) /\ Number = last + 1
  BY <1>2, ValidatorLives
<1>4. /\ DOMAIN Paid = DOMAIN db /\ \A a \in DOMAIN db : Paid[a].committed = db[a].committed
      /\ \A a \in DOMAIN db \ log : Paid[a] = db[a]
  BY GiveFacts DEF Paid, Dirty, Log
<1>5. /\ \A a \in ChainAccounts(last) \ doubled : trie[a] = ChainValue(last, a)
      /\ \A a \in ChainAccounts(last) \ doubled : a \in DOMAIN db /\ db[a].committed = ChainValue(last, a)
      /\ hmap.keys \subseteq 1 .. last /\ 1 .. last - 1 \subseteq hmap.keys /\ DOMAIN trie = DOMAIN db
  BY <1>1, <1>3 DEF AccountsInv, Reached, MapInv
<1>6. /\ DOMAIN tentative = DOMAIN trie
      /\ \A a \in DOMAIN trie : tentative[a] = IF a \in log THEN Paid[a].avail ELSE trie[a]
  BY DEF TentativeCommitment
<1>7. CASE Die
  BY <1>7, DieKeeps
<1>8. CASE RollBack(Paid, trie, hmap)
  BY <1>1, <1>4, <1>5, <1>8, RollBackKeeps
<1>9. CASE RollBack(Paid, rolled, MapWithPrevious)
  <2> DEFINE h == MapWithPrevious
  <2>1. h.last = hmap.last /\ h.keys = hmap.keys \union ({last} \ {0})
    BY DEF MapWithPrevious
  <2>2. h.keys \subseteq 1 .. last /\ 1 .. last - 1 \subseteq h.keys
    BY <1>3, <1>5, <2>1
  <2>3. DOMAIN rolled = DOMAIN trie
    BY <1>6 DEF Commitment
  <2>4. \A a \in ChainAccounts(last) \ doubled : rolled[a] = ChainValue(last, a)
    <3> SUFFICES ASSUME NEW a \in ChainAccounts(last) \ doubled PROVE rolled[a] = ChainValue(last, a)
      OBVIOUS
    <3>1. a \in DOMAIN db /\ a \in DOMAIN trie
      BY <1>5
    <3>2. rolled[a] = IF a \in log THEN RollbackValues(Paid)[a].committed ELSE tentative[a]
      BY <1>6, <3>1 DEF Commitment
    <3>3. RollbackValues(Paid)[a].committed = db[a].committed
      BY <1>4, <3>1 DEF RollbackValues, Account
    <3> QED BY <1>5, <1>6, <3>1, <3>2, <3>3
  <2> HIDE DEF h, rolled
  <2> QED BY <1>1, <1>4, <1>9, <2>1, <2>2, <2>3, <2>4, RollBackKeeps DEF h
<1>10. CASE match /\ accept
  <2>1. last < Len(Chain) /\ cur = Chain[Number] /\ Number \in 1 .. Len(Chain) /\ Number - 1 = last
    BY <1>1, <1>3, <1>10, ChainFacts DEF BlockInv, Validating
  <2>0. log = Dirty(cur)
    BY <1>10 DEF Log
  <2>2. DOMAIN db = ChainAccounts(Number) /\ log \subseteq DOMAIN db
    BY <1>5, <1>6, <1>10, <2>0, <2>1, DirtyKnown DEF ChainValues
  <2>3. \A a \in log : db'[a].committed = ChainValue(Number, a)
    <3> SUFFICES ASSUME NEW a \in log PROVE db'[a].committed = ChainValue(Number, a)
      OBVIOUS
    <3>1. a \in DOMAIN db /\ a \in ChainAccounts(Number) /\ a \in DOMAIN trie
      BY <1>5, <2>2
    <3>2. db'[a].committed = Paid[a].avail
      BY <1>4, <1>10, <3>1 DEF CommitValues, Account
    <3>3. tentative[a] = Paid[a].avail
      BY <1>6, <3>1
    <3>4. tentative[a] = ChainValue(Number, a)
      BY <1>10, <3>1 DEF ChainValues
    <3> QED BY <3>2, <3>3, <3>4
  <2>4. Number' = Number /\ Reached' = Number /\ Height' = Number /\ Height = Number
    BY <1>1, <1>10 DEF Number, Reached, Height
  <2>5. Types' /\ TablesInv' /\ DiskInv'
    <3>1. Types'
      BY <1>10 DEF IInv, Types, Phases
    <3> QED BY <1>10, <3>1, StorageKept DEF IInv
  <2>6. StagesInv'
    BY <1>3, <1>10, StagesKept
  <2>7. MapInv'
    BY <1>2, <1>3, <1>10, <2>4 DEF MapInv
  <2>8. AccountsInv'
    <3>1. DOMAIN db' = DOMAIN db /\ DOMAIN trie' = DOMAIN db /\ DOMAIN fresh' = DOMAIN fresh
      BY <1>4, <1>5, <1>6, <1>10 DEF CommitValues
    <3>2. ASSUME NEW a \in ChainAccounts(Number) \ doubled PROVE db'[a].committed = ChainValue(Number, a)
      <4>1. CASE a \in log
        BY <2>3, <4>1
      <4>2. CASE a \notin log
        <5>1. ChainValue(Number, a) = ChainValue(last, a)
          BY <2>0, <2>1, <4>2, ValueKept
        <5>2. a \in ChainAccounts(last)
          BY <2>0, <2>1, <4>2, AccountsStep DEF Dirty
        <5>3. db'[a] = db[a]
          BY <1>4, <1>10, <2>2, <4>2 DEF CommitValues
        <5> QED BY <1>5, <3>2, <5>1, <5>2, <5>3
      <4> QED BY <4>1, <4>2
    <3>3. \A a \in ChainAccounts(Number) : trie'[a] = ChainValue(Number, a)
      BY <1>10 DEF ChainValues
    <3> QED BY <1>3, <1>10, <2>2, <2>4, <3>1, <3>2, <3>3 DEF AccountsInv
  <2>9. BlockInv'
    BY <1>10, <2>0, <2>1, <2>3, <2>4 DEF BlockInv, Validating
  <2>10. ~ tainted' => ExactInv'
    <3> SUFFICES ASSUME ~ tainted' PROVE ExactInv'
      OBVIOUS
    <3>1. ExactInv
      BY <1>3, <1>10
    <3>2. /\ db = WithNewAccounts(Give(ChainDatabase(last), cur.touched, Tx(cur)), NewOf(cur))
          /\ fresh = Empty /\ pending = AllBooks({})
      BY <1>1, <1>10, <3>1 DEF ExactInv
    <3>3. Paid = PaidDatabase(Number)
      BY <2>1, <3>2 DEF Paid, PaidDatabase
    <3>4. db' = ChainDatabase(Number)
      BY <1>10, <2>0, <2>1, <3>3, BlockCommitted
    <3>5. CreationInv'
      BY <1>10, <2>4, <3>1 DEF ExactInv, CreationInv
    <3>6. AtChain(Number)'
      BY <1>10, <2>4, <3>2, <3>4 DEF AtChain
    <3> QED BY <1>10, <3>5, <3>6 DEF ExactInv
  <2> QED BY <1>2, <1>3, <1>10, <2>5, <2>6, <2>7, <2>8, <2>9, <2>10 DEF IInv, RunningInv, Running, Forgetful
<1> QED BY <1>1, <1>7, <1>8, <1>9, <1>10

-----------------------------------------------------------------------------
(* Production, and the end of a block.                                     *)

(* Producing a block.                                                      *)
LEMMA ProduceBlockKeeps ==
  ASSUME IInv, LogInv, ProduceBlock
  PROVE  IInv'
<1> SUFFICES ASSUME ~ Die PROVE IInv'
  BY DieKeeps
<1> DEFINE b == Chain[Number]
           paid == Give(WithNewAccounts(Give(db, b.touched, Tx(b)), NewOf(b)), Filled(b), Fill(b))
<1>1. /\ role = "producer" /\ phase = "idle" /\ Number =< Len(Chain) /\ phase' = "finishing"
      /\ ~ CreationMismatch(Number)
      /\ cur' = b /\ creation' = Append(creation, [n |-> Number]) /\ fresh' = Empty
      /\ books' = AddAll(books, {Tx(b), Fill(b)})
      /\ db' = CommitValues(paid, Log(b))
      /\ trie' = Commitment(Over(NewOf(b), trie), CommitValues(paid, Log(b)), Log(b))
      /\ hmap' = [keys |-> hmap.keys \union ({last} \ {0}), last |-> last]
      /\ UNCHANGED <<role, shared, last, thunks, pending, left, stage, disk, table, next,
                     tainted, doubled, skipped>>
  BY DEF ProduceBlock, CommitNewAccounts, NewOf, node, storage, ghosts
<1>2. last \in 0 .. Len(Chain) /\ Number = last + 1 /\ Number \in 1 .. Len(Chain) /\ Number - 1 = last
  BY <1>1, ChainFacts DEF IInv, Types, Number
<1>3. ~ Forgetful
  <2> SUFFICES ASSUME Forgetful PROVE FALSE
    OBVIOUS
  <2>1. creation = <<>>
    BY <1>1 DEF IInv, RunningInv, Running, Quiet
  <2>2. last < table.written.round /\ table.written.round \in Nat
    BY DEF Forgetful, IInv, TablesInv
  <2> QED BY <1>1, <1>2, <2>1, <2>2 DEF CreationMismatch
<1>4. /\ ~ tainted /\ doubled = {} /\ skipped = {}
      /\ StagesInv /\ MapInv /\ ExactInv
  BY <1>1, <1>3 DEF IInv, RunningInv, Running
<1>5. /\ db = ChainDatabase(last) /\ trie = ChainValues(last) /\ pending = AllBooks({})
      /\ books = AllBooks(ChainBook(last))
  BY <1>1, <1>4 DEF ExactInv, AtChain
<1>6. paid = PaidDatabase(Number)
  BY <1>2, <1>5 DEF PaidDatabase
<1> HIDE DEF paid
<1>0. Log(b) = Dirty(b)
  BY <1>1, <1>3 DEF LogInv, Running, Log
<1>7. db' = ChainDatabase(Number) /\ trie' = ChainValues(Number)
  BY <1>0, <1>1, <1>2, <1>5, <1>6, BlockCommitted
<1>8. books' = AllBooks(ChainBook(Number))
  <2>1. ChainBook(Number) = ChainBook(last) \union {Tx(b), Fill(b)}
    BY <1>2, BookStep
  <2> QED BY <1>1, <1>5, <2>1 DEF AddAll, AllBooks
<1>9. Number' = Number /\ Reached' = Number /\ Height' = Number /\ Height = last
  BY <1>1 DEF Number, Reached, Height
<1>10. Types' /\ TablesInv' /\ DiskInv'
  <2>1. Types'
    BY <1>1 DEF IInv, Types, Phases
  <2> QED BY <1>1, <2>1, StorageKept DEF IInv
<1>11. StagesInv'
  BY <1>1, <1>4, StagesKept
<1>12. MapInv'
  <2>1. hmap.keys = 1 .. last - 1
    BY <1>1, <1>4 DEF MapInv
  <2>2. hmap'.keys = 1 .. last /\ hmap'.last = last
    BY <1>1, <1>2, <2>1
  <2> QED BY <1>1, <1>2, <2>2 DEF MapInv
<1>13. AccountsInv'
  <2>1. /\ DOMAIN db' = ChainAccounts(Number) /\ DOMAIN trie' = ChainAccounts(Number) /\ DOMAIN fresh' = {}
        /\ \A a \in ChainAccounts(Number) : db'[a].committed = ChainValue(Number, a) /\ trie'[a] = ChainValue(Number, a)
    BY <1>1, <1>7 DEF ChainDatabase, ChainValues, Empty, Account
  <2> QED BY <1>9, <2>1 DEF AccountsInv
<1>14. BlockInv'
  <2>1. \A a \in Dirty(b) : db'[a].committed = ChainValue(Number, a)
    BY <1>2, <1>7, DirtyKnown DEF ChainDatabase, Account
  <2> QED BY <1>1, <1>2, <1>8, <1>9, <2>1, ChainFacts DEF BlockInv, Validating
<1>15. ExactInv'
  <2>1. PICK c \in 0 .. last : creation' = NumbersOf(c, Number)
    BY <1>1, <1>4, <1>9, NoMismatch DEF ExactInv
  <2>2. c \in 0 .. Number /\ c # Number
    BY <1>2
  <2>3. CreationInv'
    BY <1>9, <2>1, <2>2 DEF CreationInv
  <2>4. AtChain(Number)'
    BY <1>1, <1>5, <1>7, <1>8, <1>9 DEF AtChain
  <2> QED BY <1>1, <2>3, <2>4 DEF ExactInv
<1> QED BY <1>1, <1>3, <1>4, <1>10, <1>11, <1>12, <1>13, <1>14, <1>15 DEF IInv, RunningInv, Running, Forgetful

(* The end of a block makes the thunks that the persisters need.           *)
LEMMA PersistCriticalKeeps ==
  ASSUME IInv, LogInv, PersistCritical
  PROVE  IInv'
<1>0. Log(cur) = Dirty(cur)
  BY DEF LogInv, Log, PersistCritical
<1>1. /\ phase = "finishing" /\ phase' \in {"handover", "idle"} /\ last' = Number
      /\ thunks' = Append(thunks, [n |-> Number, kvs |-> [a \in Dirty(cur) |-> db[a].committed]])
      /\ left' = Over([n \in {Number} |-> books], left)
      /\ UNCHANGED <<role, shared, db, fresh, trie, creation, books, pending, hmap, stage, disk, table, next,
                     tainted, doubled, skipped>>
  BY <1>0 DEF PersistCritical, node, values, offers, storage, ghosts
<1>2. Running /\ ~ Forgetful
  BY <1>1 DEF IInv, RunningInv, Running
<1>3. /\ StagesInv /\ MapInv /\ AccountsInv /\ BlockInv
      /\ ~ tainted => ExactInv /\ doubled = {} /\ skipped = {}
      /\ role = "producer" => ~ tainted
      /\ last \in 0 .. Len(Chain) /\ Number = last + 1
  BY <1>2 DEF IInv, RunningInv, Types, Number
<1>4. /\ last < Len(Chain) /\ Number \in 1 .. Len(Chain) /\ cur = Chain[Number]
      /\ books = AllBooks(ChainBook(Number))
      /\ \A a \in Dirty(cur) : db[a].committed = ChainValue(Number, a)
  BY <1>1, <1>3, ChainFacts DEF BlockInv
<1>5. Reached = Number /\ Reached' = Number /\ Height = Number /\ Height' = Number
  BY <1>1 DEF Reached, Height
<1>6. Types' /\ TablesInv' /\ DiskInv'
  <2>1. Types'
    BY <1>1, <1>4 DEF IInv, Types, Phases
  <2> QED BY <1>1, <2>1, StorageKept DEF IInv
<1>7. StagesInv'
  <2>1. /\ table.written.round \in 0 .. Len(Chain) /\ disk.hround \in Nat
        /\ stage \in [1 .. 3 -> 0 .. Len(Chain)] /\ Len(Chain) \in Nat
    BY ChainFacts DEF IInv, TablesInv, DiskInv, Types
  <2>2. thunks' = ThunksOf(table.written.round, Number)
    <3>1. [n |-> Number, kvs |-> [a \in Dirty(cur) |-> db[a].committed]] = ThunkOf(Number)
      BY <1>4 DEF ThunkOf
    <3>2. thunks = ThunksOf(table.written.round, last) /\ last \in table.written.round .. Len(Chain) - 1
      BY <1>3, <1>4, <2>1 DEF StagesInv
    <3>3. Append(ThunksOf(table.written.round, last), ThunkOf(last + 1)) = ThunksOf(table.written.round, last + 1)
      BY <2>1, <3>2, ThunksAppend
    <3> QED BY <1>1, <1>3, <3>1, <3>2, <3>3
  <2>3. left' = BooksOf(disk.hround, Number)
    <3>1. left = BooksOf(disk.hround, last) /\ disk.hround =< last
      BY <1>3 DEF StagesInv
    <3>2. {Number} \union (disk.hround + 1 .. last) = disk.hround + 1 .. Number
      BY <1>3, <2>1, <3>1
    <3> QED BY <1>1, <1>4, <3>1, <3>2 DEF Over, BooksOf
  <2>4. \A i \in 1 .. 3 : stage[i] \in Nat /\ (stage[i] # 0 => disk.hround < stage[i] /\ stage[i] < Number)
    BY <1>3, <2>1 DEF StagesInv
  <2>5. /\ stage[1] # 0 => stage[2] < stage[1] /\ stage[3] < stage[1]
        /\ stage[2] # 0 => stage[3] < stage[2] /\ stage[2] =< table.written.round
        /\ stage[3] =< table.synced.round
        /\ table.written.round =< Number /\ disk.hround < Number
    BY <1>3, <2>1 DEF StagesInv
  <2> QED BY <1>1, <1>3, <2>1, <2>2, <2>3, <2>4, <2>5 DEF StagesInv
<1>8. MapInv'
  <2>1. /\ hmap.last = IF role = "validator" THEN Number ELSE last
        /\ hmap.keys = 1 .. last
    BY <1>1, <1>3 DEF MapInv
  <2> QED BY <1>1, <1>3, <2>1 DEF MapInv
<1>9. AccountsInv'
  BY <1>1, <1>3, <1>5 DEF AccountsInv
<1>10. BlockInv'
  BY <1>1 DEF BlockInv, Validating
<1>11. ~ tainted' => ExactInv'
  <2> SUFFICES ASSUME ~ tainted PROVE ExactInv'
    BY <1>1
  <2>1. CreationInv /\ AtChain(Number)
    BY <1>1, <1>3 DEF ExactInv
  <2>2. CreationInv'
    BY <1>1, <1>5, <2>1 DEF CreationInv
  <2>3. AtChain(last)'
    BY <1>1, <2>1 DEF AtChain
  <2> QED BY <1>1, <2>2, <2>3 DEF ExactInv
<1>12. ~ Forgetful' /\ Running'
  <2>1. table.written.round =< last /\ table.written.round \in Nat
    BY <1>3 DEF StagesInv, IInv, TablesInv
  <2> QED BY <1>1, <1>3, <2>1 DEF Forgetful, Running
<1> QED BY <1>1, <1>3, <1>6, <1>7, <1>8, <1>9, <1>10, <1>11, <1>12 DEF IInv, RunningInv

(* A batch is handed to the first persister.                               *)
LEMMA HandOverKeeps ==
  ASSUME IInv, HandOver
  PROVE  IInv'
<1>1. /\ phase = "handover" /\ phase' = "idle" /\ stage[1] = 0 /\ stage' = [stage EXCEPT ![1] = last]
      /\ UNCHANGED <<role, shared, cur, last, db, fresh, trie, creation, thunks, books, pending, left, hmap,
                     disk, table, next, tainted, doubled, skipped>>
  BY DEF HandOver, node, memory, values, offers, storage, ghosts
<1>2. Running /\ ~ Forgetful
  BY <1>1 DEF IInv, RunningInv, Running
<1>3. /\ StagesInv /\ MapInv /\ AccountsInv
      /\ ~ tainted => ExactInv /\ doubled = {} /\ skipped = {}
      /\ role = "producer" => ~ tainted
      /\ last \in 0 .. Len(Chain)
  BY <1>2 DEF IInv, RunningInv, Types
<1>4. stage \in [1 .. 3 -> 0 .. Len(Chain)] /\ Len(Chain) \in Nat
  BY ChainFacts DEF IInv, Types
<1>5. stage' \in [1 .. 3 -> 0 .. Len(Chain)] /\ stage'[1] = last /\ stage'[2] = stage[2] /\ stage'[3] = stage[3]
  BY <1>1, <1>3, <1>4
<1>6. Types' /\ TablesInv' /\ DiskInv'
  <2>1. Types'
    BY <1>1, <1>5 DEF IInv, Types, Phases
  <2> QED BY <1>1, <2>1, StorageKept DEF IInv
<1>7. StagesInv'
  <2>1. /\ disk.hround < last
        /\ stage[2] # 0 => disk.hround < stage[2] /\ stage[2] < last
        /\ stage[3] # 0 => disk.hround < stage[3] /\ stage[3] < last
    BY <1>1, <1>3 DEF StagesInv
  <2>2. stage[2] \in Nat /\ stage[3] \in Nat /\ last \in Nat /\ disk.hround \in Nat
    BY <1>3, <1>4 DEF IInv, DiskInv
  <2>3. \A i \in 1 .. 3 : stage'[i] # 0 => disk.hround < stage'[i] /\ stage'[i] =< last
    BY <1>5, <2>1, <2>2
  <2>4. stage[2] < last /\ stage[3] < last
    BY <2>1, <2>2
  <2> QED BY <1>1, <1>3, <1>5, <2>3, <2>4 DEF StagesInv
<1>8. MapInv'
  BY <1>1, <1>3, MapKept
<1>9. AccountsInv' /\ BlockInv'
  BY <1>1, <1>3 DEF AccountsInv, Reached, BlockInv, Validating
<1>10. ~ tainted' => ExactInv'
  BY <1>1, <1>3 DEF ExactInv, CreationInv, Height, AtChain
<1> QED BY <1>1, <1>2, <1>3, <1>6, <1>7, <1>8, <1>9, <1>10 DEF IInv, RunningInv, Running, Forgetful

-----------------------------------------------------------------------------
(* The persisters.                                                         *)

(* The persisters have work only if the node knows its blocks.             *)
LEMMA PersistersAtWork ==
  ASSUME IInv, Running, \/ stage[1] # 0 \/ stage[2] # 0 \/ stage[3] # 0
  PROVE  ~ Forgetful
<1>1. Forgetful => stage = <<0, 0, 0>>
  BY DEF IInv, RunningInv, Quiet
<1> QED BY <1>1

(* No orderbook is behind round 0.                                         *)
LEMMA NobodyBehindZero ==
  ASSUME DiskInv
  PROVE  Behind(0) = {}
<1>1. \A u \in 1 .. Units : disk.rounds[u] \in Nat
  BY DEF DiskInv
<1>2. \A u \in 1 .. Units : ~ (disk.rounds[u] < 0)
  BY <1>1
<1> QED BY <1>2 DEF Behind

(* What a running node that knows its blocks satisfies.                    *)
LEMMA NodeLives ==
  ASSUME IInv, Running, ~ Forgetful
  PROVE  /\ StagesInv /\ MapInv /\ AccountsInv /\ BlockInv
         /\ ~ tainted => ExactInv /\ doubled = {} /\ skipped = {}
         /\ role = "producer" => ~ tainted
         /\ last \in 0 .. Len(Chain) /\ Len(Chain) \in Nat /\ stage \in [1 .. 3 -> 0 .. Len(Chain)]
         /\ table.written.round \in 0 .. last /\ table.synced.round \in 0 .. table.written.round
         /\ disk.hround \in 0 .. last
<1>1. StagesInv
  BY DEF IInv, RunningInv
<1>2. /\ last \in 0 .. Len(Chain) /\ Len(Chain) \in Nat /\ stage \in [1 .. 3 -> 0 .. Len(Chain)]
      /\ table.written.round \in 0 .. Len(Chain) /\ table.synced.round \in 0 .. table.written.round
      /\ disk.hround \in Nat
  BY ChainFacts DEF IInv, Types, TablesInv, DiskInv
<1>3. table.written.round \in 0 .. last /\ disk.hround \in 0 .. last
  BY <1>1, <1>2 DEF StagesInv
<1> QED BY <1>1, <1>2, <1>3 DEF IInv, RunningInv

(* A step of a persister leaves the memory of the blocks alone.            *)
LEMMA MemoryKept ==
  ASSUME IInv, Running, ~ Forgetful,
         UNCHANGED <<role, phase, cur, last, db, fresh, trie, books, pending, hmap, tainted, doubled, skipped>>,
         StagesInv', Types', TablesInv', DiskInv', ~ tainted => CreationInv'
  PROVE  IInv'
<1>1. /\ MapInv /\ AccountsInv /\ BlockInv
      /\ ~ tainted => ExactInv /\ doubled = {} /\ skipped = {}
      /\ role = "producer" => ~ tainted
  BY NodeLives
<1>2. Number' = Number /\ Reached' = Reached /\ Height' = Height
  BY DEF Number, Reached, Height
<1>3. MapInv'
  BY <1>1, <1>2 DEF MapInv
<1>4. AccountsInv'
  BY <1>1, <1>2 DEF AccountsInv
<1>5. BlockInv'
  BY <1>1, <1>2 DEF BlockInv, Validating
<1>6. ~ tainted => ExactInv'
  BY <1>1, <1>2 DEF ExactInv, AtChain
<1>7. Running' /\ ~ Forgetful'
  <2>1. table'.written.round =< last' /\ table'.written.round \in Nat /\ last' \in Nat
    BY DEF StagesInv, TablesInv, Types
  <2> QED BY <2>1 DEF Running, Forgetful
<1> QED BY <1>1, <1>3, <1>4, <1>5, <1>6, <1>7 DEF IInv, RunningInv, Running

(* The thunks are written in order, and no block is missing.               *)
LEMMA ThunksInOrder ==
  ASSUME IInv, Running, stage[1] > table.written.round
  PROVE  /\ Upto(thunks, stage[1]) = ThunksOf(table.written.round, stage[1])
         /\ InOrder(Upto(thunks, stage[1]), stage[1])
         /\ ~ Forgetful /\ stage[1] \in table.written.round .. last
<1>1. stage[1] # 0 /\ stage[1] \in Nat /\ table.written.round \in Nat
  BY DEF IInv, TablesInv, Types
<1>2. ~ Forgetful
  BY <1>1, PersistersAtWork
<1>3. /\ StagesInv /\ last \in 0 .. Len(Chain) /\ Len(Chain) \in Nat
      /\ table.written.round \in 0 .. last
  BY <1>2, NodeLives
<1>4. stage[1] \in table.written.round .. last /\ thunks = ThunksOf(table.written.round, last)
  BY <1>1, <1>3 DEF StagesInv
<1> DEFINE w == table.written.round
           n == stage[1]
           s == ThunksOf(w, n)
<1>5. Upto(thunks, n) = s
  BY <1>3, <1>4, ThunksUpto
<1>6. w \in 0 .. Len(Chain) /\ n \in w .. Len(Chain) /\ n - w \in 1 .. n - w /\ n \in Nat /\ w \in Nat
  BY <1>1, <1>3, <1>4
<1>7. Len(s) = n - w /\ DOMAIN s = 1 .. n - w /\ \A i \in 1 .. n - w : s[i].n = w + i
  <2>1. DOMAIN s = 1 .. n - w
    BY DEF ThunksOf
  <2> HIDE DEF w, n
  <2>2. Len(s) = n - w /\ \A i \in 1 .. n - w : s[i].n = w + i
    BY <1>6, ThunksFacts
  <2> QED BY <2>1, <2>2
<1>8. Last(s).n = n
  <2> HIDE DEF w, n, s
  <2>1. Last(s) = s[n - w]
    BY <1>7 DEF Last
  <2>2. s[n - w].n = w + (n - w)
    BY <1>6, <1>7
  <2> QED BY <1>6, <2>1, <2>2
<1>9. InOrder(s, n)
  BY <1>7, <1>8 DEF InOrder
<1> QED BY <1>2, <1>4, <1>5, <1>9

(* The first persister writes a batch of thunks.                           *)
LEMMA WriteAccountsKeeps ==
  ASSUME IInv, WriteAccounts
  PROVE  IInv'
<1> DEFINE w == table.written.round
           n == stage[1]
<1>1. Running /\ n > w
  BY DEF WriteAccounts
<1>2. /\ Upto(thunks, n) = ThunksOf(w, n) /\ InOrder(Upto(thunks, n), n)
      /\ ~ Forgetful /\ n \in w .. last
  BY <1>1, ThunksInOrder
<1>3. /\ table' = [written |-> [values |-> WriteThunks(table.written.values, ThunksOf(w, n)), round |-> n],
                   synced |-> table.synced]
      /\ thunks' = Beyond(thunks, n)
      /\ UNCHANGED <<role, shared, phase, cur, last, db, fresh, trie, creation, books, pending, left, hmap,
                     stage, disk, next, tainted, doubled, skipped>>
  BY <1>2 DEF WriteAccounts, node, values, offers, ghosts
<1>4. /\ StagesInv /\ last \in 0 .. Len(Chain) /\ Len(Chain) \in Nat
      /\ w \in 0 .. last
      /\ (~ tainted => ExactInv)
  BY <1>1, <1>2, NodeLives
<1>5. w \in 0 .. Len(Chain) /\ n \in w .. Len(Chain) /\ n \in 0 .. Len(Chain) /\ last \in w .. Len(Chain)
  BY <1>2, <1>4
<1>6. table'.written.values = ChainValues(n) /\ table'.written.round = n /\ table'.synced = table.synced
  <2>1. table.written.values = ChainValues(w)
    BY DEF IInv, TablesInv
  <2>2. WriteThunks(ChainValues(w), ThunksOf(w, n)) = ChainValues(n)
    BY <1>5, ThunksWritten
  <2> QED BY <1>3, <2>1, <2>2
<1>7. TablesInv'
  <2>1. table.synced.round \in 0 .. w /\ table.synced.values = ChainValues(table.synced.round)
    BY DEF IInv, TablesInv
  <2>2. table.synced.round \in 0 .. n
    BY <1>5, <2>1
  <2> QED BY <1>5, <1>6, <2>1, <2>2 DEF TablesInv
<1>8. DiskInv'
  BY <1>3, <1>6 DEF IInv, DiskInv
<1>9. Types'
  BY <1>3 DEF IInv, Types
<1>10. StagesInv'
  <2>1. thunks' = ThunksOf(n, last)
    BY <1>2, <1>3, <1>4, <1>5, ThunksBeyond DEF StagesInv
  <2>2. stage[2] # 0 => stage[2] =< n
    <3>1. stage[2] \in 0 .. Len(Chain) /\ (stage[2] # 0 => stage[2] =< w)
      BY <1>4 DEF StagesInv, IInv, Types
    <3> QED BY <1>1, <1>5, <3>1
  <2> QED BY <1>2, <1>3, <1>4, <1>5, <1>6, <2>1, <2>2 DEF StagesInv
<1>11. ASSUME ~ tainted PROVE CreationInv'
  <2>1. CreationInv /\ Height' = Height /\ Height \in {last, last + 1}
    BY <1>3, <1>4, <1>11 DEF ExactInv, Height, Number
  <2>2. PICK c \in 0 .. Height : creation = NumbersOf(c, Height) /\ (c = Height => w = c)
    BY <2>1 DEF CreationInv
  <2>3. c # Height
    BY <1>1, <1>2, <1>4, <1>5, <2>1, <2>2
  <2> QED BY <1>3, <2>1, <2>2, <2>3 DEF CreationInv
<1> QED BY <1>1, <1>2, <1>3, <1>7, <1>8, <1>9, <1>10, <1>11, MemoryKept

(* It then forgets the creation thunks of the batch.                       *)
LEMMA ForgetCreationKeeps ==
  ASSUME IInv, ForgetCreation
  PROVE  IInv'
<1> DEFINE n == stage[1]
<1>1. /\ Running /\ n # 0 /\ n =< table.written.round
      /\ \E i \in DOMAIN creation : creation[i].n <= n
      /\ creation' = Beyond(creation, n)
      /\ UNCHANGED <<role, shared, phase, cur, last, db, fresh, trie, thunks, books, pending, left, hmap,
                     stage, disk, table, next, tainted, doubled, skipped>>
  BY DEF ForgetCreation, node, offers, storage, ghosts
<1>2. ~ Forgetful
  BY <1>1, PersistersAtWork
<1>3. /\ StagesInv /\ last \in 0 .. Len(Chain) /\ Len(Chain) \in Nat /\ n \in 0 .. Len(Chain)
      /\ table.written.round \in 0 .. last
      /\ (~ tainted => ExactInv)
  BY <1>1, <1>2, NodeLives
<1>4. Types' /\ TablesInv' /\ DiskInv'
  BY <1>1, StorageKept DEF IInv, Types
<1>5. StagesInv'
  BY <1>1, <1>3 DEF StagesInv
<1>6. ASSUME ~ tainted PROVE CreationInv'
  <2>1. CreationInv /\ Height' = Height /\ Height \in {last, last + 1}
    BY <1>1, <1>3, <1>6 DEF ExactInv, Height, Number
  <2>2. PICK c \in 0 .. Height : creation = NumbersOf(c, Height) /\ (c = Height => table.written.round = c)
    BY <2>1 DEF CreationInv
  <2>3. c \in Nat /\ Height \in Nat /\ c =< Height /\ n =< Height /\ n \in Nat
    BY <1>1, <1>3, <2>1
  <2>4. c < n
    <3>1. PICK i \in DOMAIN creation : creation[i].n <= n
      BY <1>1
    <3>2. /\ DOMAIN NumbersOf(c, Height) = 1 .. Height - c
          /\ \A j \in 1 .. Height - c : NumbersOf(c, Height)[j].n = c + j
      BY <2>3, NumbersFacts
    <3>3. i \in 1 .. Height - c /\ creation[i].n = c + i
      BY <2>2, <3>1, <3>2
    <3> QED BY <2>3, <3>1, <3>3
  <2>5. creation' = NumbersOf(n, Height)
    <3>1. n \in c .. Height
      BY <2>3, <2>4
    <3> QED BY <1>1, <2>2, <2>3, <3>1, NumbersBeyond
  <2>6. n \in 0 .. Height /\ (n = Height => table.written.round = n)
    BY <1>1, <1>3, <2>1, <2>3
  <2> QED BY <1>1, <2>1, <2>5, <2>6 DEF CreationInv
<1> QED BY <1>1, <1>2, <1>4, <1>5, <1>6, MemoryKept

(* The batch goes on to the second persister.                              *)
LEMMA ToSyncKeeps ==
  ASSUME IInv, ToSync
  PROVE  IInv'
<1>1. /\ Running /\ stage[1] # 0 /\ stage[1] =< table.written.round /\ stage[2] = 0
      /\ stage' = [stage EXCEPT ![2] = stage[1], ![1] = 0]
      /\ UNCHANGED <<role, shared, phase, cur, last, db, fresh, trie, creation, thunks, books, pending, left, hmap,
                     disk, table, next, tainted, doubled, skipped>>
  BY DEF ToSync, node, memory, values, offers, storage, ghosts
<1>2. ~ Forgetful
  BY <1>1, PersistersAtWork
<1>3. /\ StagesInv /\ stage \in [1 .. 3 -> 0 .. Len(Chain)] /\ Len(Chain) \in Nat
      /\ (~ tainted => ExactInv)
      /\ table.written.round \in 0 .. last
  BY <1>1, <1>2, NodeLives
<1>4. /\ stage' \in [1 .. 3 -> 0 .. Len(Chain)]
      /\ stage'[1] = 0 /\ stage'[2] = stage[1] /\ stage'[3] = stage[3]
  BY <1>1, <1>3
<1>5. Types' /\ TablesInv' /\ DiskInv'
  <2>1. Types'
    BY <1>1, <1>4 DEF IInv, Types
  <2> QED BY <1>1, <2>1, StorageKept DEF IInv
<1>6. StagesInv'
  <2>1. \A i \in 1 .. 3 : stage'[i] # 0 =>
          disk.hround < stage'[i] /\ stage'[i] =< last /\ (phase = "handover" => stage'[i] < last)
    BY <1>3, <1>4 DEF StagesInv
  <2> QED BY <1>1, <1>3, <1>4, <2>1 DEF StagesInv
<1>7. ~ tainted => CreationInv'
  BY <1>1, <1>3 DEF ExactInv, CreationInv, Height, Number
<1> QED BY <1>1, <1>2, <1>5, <1>6, <1>7, MemoryKept

(* The second persister syncs the account table and hands the batch on.    *)
LEMMA SyncKeeps ==
  ASSUME IInv, Sync
  PROVE  IInv'
<1>1. /\ Running /\ stage[2] # 0 /\ stage[3] = 0
      /\ stage' = [stage EXCEPT ![3] = stage[2], ![2] = 0]
      /\ table' = [written |-> table.written, synced |-> table.written]
      /\ UNCHANGED <<role, shared, phase, cur, last, db, fresh, trie, creation, thunks, books, pending, left, hmap,
                     disk, next, tainted, doubled, skipped>>
  BY DEF Sync, node, memory, values, offers, ghosts
<1>2. ~ Forgetful
  BY <1>1, PersistersAtWork
<1>3. /\ StagesInv /\ stage \in [1 .. 3 -> 0 .. Len(Chain)] /\ Len(Chain) \in Nat
      /\ (~ tainted => ExactInv)
      /\ table.written.round \in 0 .. last /\ table.synced.round \in 0 .. table.written.round
      /\ last \in 0 .. Len(Chain)
  BY <1>1, <1>2, NodeLives
<1>4. /\ stage' \in [1 .. 3 -> 0 .. Len(Chain)]
      /\ stage'[2] = 0 /\ stage'[3] = stage[2] /\ stage'[1] = stage[1]
  BY <1>1, <1>3
<1>5. table'.written = table.written /\ table'.synced = table.written
  BY <1>1
<1>6. Types' /\ TablesInv'
  BY <1>1, <1>3, <1>4, <1>5 DEF IInv, Types, TablesInv
<1>7. DiskInv'
  <2>1. \A u \in 1 .. Units : disk.rounds[u] =< table.written.round
    <3>1. \A u \in 1 .. Units : disk.rounds[u] \in Nat /\ disk.rounds[u] =< table.synced.round
      BY DEF IInv, DiskInv
    <3> QED BY <1>3, <3>1
  <2>2. table.synced.round >= 1 => table.written.round >= 1
    BY <1>3
  <2> QED BY <1>1, <1>5, <2>1, <2>2 DEF IInv, DiskInv
<1>8. StagesInv'
  <2>1. \A i \in 1 .. 3 : stage'[i] # 0 =>
          disk.hround < stage'[i] /\ stage'[i] =< last /\ (phase = "handover" => stage'[i] < last)
    BY <1>3, <1>4 DEF StagesInv
  <2>2. /\ stage[1] # 0 => stage'[2] < stage[1] /\ stage'[3] < stage[1]
        /\ stage'[3] =< table.written.round
    BY <1>1, <1>3, <1>4 DEF StagesInv
  <2> QED BY <1>1, <1>3, <1>4, <1>5, <2>1, <2>2 DEF StagesInv
<1>9. ~ tainted => CreationInv'
  BY <1>1, <1>3, <1>5 DEF ExactInv, CreationInv, Height, Number
<1> QED BY <1>1, <1>2, <1>6, <1>7, <1>8, <1>9, MemoryKept

(* The first of several orderbooks is one of them.                         *)
LEMMA FirstIsOne ==
  ASSUME NEW n, Behind(n) # {}
  PROVE  First(Behind(n)) \in Behind(n)
<1> DEFINE S == Behind(n)
<1>1. S \subseteq Nat
  BY DEF Behind
<1>2. \E u \in S : \A v \in S : ~ (<<v, u>> \in OpToRel(<, Nat))
  <2>1. S # {}
    OBVIOUS
  <2> HIDE DEF S
  <2> QED BY <1>1, <2>1, NatLessThanWellFounded, WFMin
<1>3. \E u \in S : \A v \in S : u <= v
  <2>1. PICK u \in S : \A v \in S : ~ (v < u)
    BY <1>1, <1>2 DEF OpToRel
  <2> HIDE DEF S
  <2> QED BY <1>1, <2>1
<1> HIDE DEF S
<1>4. First(S) \in S
  BY <1>3 DEF First
<1> QED BY <1>4 DEF S

(* Saving one orderbook.                                                   *)
LEMMA SaveFacts ==
  ASSUME DiskInv, NEW u \in 1 .. Units, NEW book, NEW n \in Nat, disk' = Save(u, book, n)
  PROVE  /\ disk'.rounds \in [1 .. Units -> Nat] /\ disk'.books = [v \in 1 .. Units |-> disk'.books[v]]
         /\ disk'.books[u] = book /\ disk'.rounds[u] = n
         /\ \A v \in 1 .. Units \ {u} : disk'.books[v] = disk.books[v] /\ disk'.rounds[v] = disk.rounds[v]
         /\ disk'.keys = disk.keys /\ disk'.hround = disk.hround
<1>1. disk.rounds \in [1 .. Units -> Nat] /\ disk.books = [v \in 1 .. Units |-> disk.books[v]]
  BY DEF DiskInv
<1>2. DOMAIN disk.books = 1 .. Units
  BY <1>1
<1>3. /\ disk'.books = [disk.books EXCEPT ![u] = book] /\ disk'.rounds = [disk.rounds EXCEPT ![u] = n]
      /\ disk'.keys = disk.keys /\ disk'.hround = disk.hround
  BY DEF Save
<1>4. disk'.rounds \in [1 .. Units -> Nat] /\ disk'.rounds[u] = n
  BY <1>1, <1>3
<1>5. disk'.books = [v \in 1 .. Units |-> disk'.books[v]] /\ disk'.books[u] = book
  BY <1>2, <1>3
<1>6. \A v \in 1 .. Units \ {u} : disk'.books[v] = disk.books[v] /\ disk'.rounds[v] = disk.rounds[v]
  BY <1>1, <1>2, <1>3
<1> QED BY <1>3, <1>4, <1>5, <1>6

(* The third persister saves an orderbook as the batch left it.            *)
LEMMA SaveUnitKeeps ==
  ASSUME IInv, SaveUnit
  PROVE  IInv'
<1> DEFINE n == stage[3]
           u == First(Behind(n))
<1>1. /\ Running /\ Behind(n) # {} /\ disk' = Save(u, left[n][u], n)
      /\ UNCHANGED <<role, shared, phase, cur, last, db, fresh, trie, creation, thunks, books, pending, left, hmap,
                     stage, table, next, tainted, doubled, skipped>>
  BY DEF SaveUnit, node, memory, values, offers, ghosts
<1>2. DiskInv /\ n # 0
  BY <1>1, NobodyBehindZero DEF IInv
<1>3. ~ Forgetful
  BY <1>1, <1>2, PersistersAtWork
<1>4. /\ StagesInv /\ stage \in [1 .. 3 -> 0 .. Len(Chain)] /\ Len(Chain) \in Nat
      /\ last \in 0 .. Len(Chain) /\ disk.hround \in 0 .. last /\ table.synced.round \in 0 .. table.written.round
      /\ (~ tainted => ExactInv)
  BY <1>1, <1>3, NodeLives
<1>5. n \in Nat /\ disk.hround < n /\ n =< last /\ n =< table.synced.round
  BY <1>2, <1>4 DEF StagesInv
<1>6. u \in 1 .. Units
  BY <1>1, FirstIsOne DEF Behind
<1>7. left[n][u] = ChainBook(n)
  <2>1. n \in disk.hround + 1 .. last
    BY <1>4, <1>5
  <2>2. left[n] = AllBooks(ChainBook(n))
    BY <1>4, <2>1 DEF StagesInv, BooksOf
  <2> HIDE DEF u
  <2> QED BY <1>6, <2>2 DEF AllBooks
<1> HIDE DEF n, u
<1>8. /\ disk'.rounds \in [1 .. Units -> Nat] /\ disk'.books = [v \in 1 .. Units |-> disk'.books[v]]
      /\ disk'.books[u] = ChainBook(n) /\ disk'.rounds[u] = n
      /\ \A v \in 1 .. Units \ {u} : disk'.books[v] = disk.books[v] /\ disk'.rounds[v] = disk.rounds[v]
      /\ disk'.keys = disk.keys /\ disk'.hround = disk.hround
  BY <1>1, <1>2, <1>5, <1>6, <1>7, SaveFacts
<1>9. DiskInv'
  <2>1. ASSUME NEW v \in 1 .. Units
        PROVE  /\ v \notin skipped => disk'.books[v] = ChainBook(disk'.rounds[v])
               /\ disk.hround =< disk'.rounds[v] /\ disk'.rounds[v] =< table.synced.round
    <3>1. CASE v = u
      BY <1>4, <1>5, <1>8, <3>1
    <3>2. CASE v # u
      BY <1>2, <1>8, <3>2 DEF DiskInv
    <3> QED BY <3>1, <3>2
  <2> QED BY <1>1, <1>2, <1>8, <2>1 DEF DiskInv
<1>10. Types' /\ TablesInv'
  BY <1>1 DEF IInv, Types, TablesInv
<1>11. StagesInv'
  BY <1>1, <1>4, <1>8 DEF StagesInv
<1>12. ~ tainted => CreationInv'
  BY <1>1, <1>4 DEF ExactInv, CreationInv, Height, Number
<1> QED BY <1>1, <1>3, <1>9, <1>10, <1>11, <1>12, MemoryKept

(* No header that the third persister has to write is missing.             *)
LEMMA HeadersThere ==
  ASSUME IInv, Running, stage[3] # 0
  PROVE  HeadersFrom(stage[3]) \subseteq hmap.keys
<1>1. ~ Forgetful
  BY PersistersAtWork
<1>2. /\ StagesInv /\ MapInv /\ stage \in [1 .. 3 -> 0 .. Len(Chain)] /\ Len(Chain) \in Nat
      /\ last \in 0 .. Len(Chain) /\ disk.hround \in 0 .. last
  BY <1>1, NodeLives
<1>3. stage[3] \in Nat /\ stage[3] =< last
  BY <1>2 DEF StagesInv
<1>4. 1 .. last - 1 \subseteq hmap.keys
  BY <1>2 DEF MapInv
<1>5. HeadersFrom(stage[3]) \subseteq 1 .. last - 1
  BY <1>2, <1>3 DEF HeadersFrom
<1> QED BY <1>4, <1>5

(* It saves the headers when every orderbook is saved.                     *)
LEMMA SaveMapKeeps ==
  ASSUME IInv, SaveMap
  PROVE  IInv'
<1> DEFINE n == stage[3]
<1>1. Running /\ n # 0 /\ Behind(n) = {}
  BY DEF SaveMap
<1>2. HeadersFrom(n) \subseteq hmap.keys
  BY <1>1, HeadersThere
<1>3. /\ disk' = SaveHeaders(n)
      /\ left' = [k \in {k \in DOMAIN left : k > n} |-> left[k]]
      /\ stage' = [stage EXCEPT ![3] = 0]
      /\ UNCHANGED <<role, shared, phase, cur, last, db, fresh, trie, creation, thunks, books, pending, hmap,
                     table, next, tainted, doubled, skipped>>
  BY <1>2 DEF SaveMap, node, values, offers, ghosts
<1>4. ~ Forgetful
  BY <1>1, PersistersAtWork
<1>5. /\ StagesInv /\ stage \in [1 .. 3 -> 0 .. Len(Chain)] /\ Len(Chain) \in Nat
      /\ last \in 0 .. Len(Chain) /\ disk.hround \in 0 .. last
      /\ (~ tainted => ExactInv)
  BY <1>1, <1>4, NodeLives
<1>6. n \in Nat /\ disk.hround < n /\ n =< last /\ n \in 0 .. Len(Chain)
  BY <1>1, <1>5 DEF StagesInv
<1>7. /\ disk'.books = disk.books /\ disk'.rounds = disk.rounds /\ disk'.hround = n
      /\ disk'.keys = disk.keys \union HeadersFrom(n)
  BY <1>3 DEF SaveHeaders
<1>8. DiskInv'
  <2>1. DiskInv
    BY DEF IInv
  <2>2. disk'.keys = 1 .. n - 1
    <3>1. disk.keys = 1 .. disk.hround - 1
      BY <2>1 DEF DiskInv
    <3> QED BY <1>5, <1>6, <1>7, <3>1 DEF HeadersFrom
  <2>3. \A u \in 1 .. Units : n =< disk.rounds[u]
    <3>1. \A u \in 1 .. Units : disk.rounds[u] \in Nat
      BY <2>1 DEF DiskInv
    <3>2. \A u \in 1 .. Units : ~ (disk.rounds[u] < n)
      BY <1>1 DEF Behind
    <3> QED BY <1>6, <3>1, <3>2
  <2> HIDE DEF n
  <2> QED BY <1>3, <1>6, <1>7, <2>1, <2>2, <2>3 DEF DiskInv
<1>9. stage' \in [1 .. 3 -> 0 .. Len(Chain)] /\ stage'[1] = stage[1] /\ stage'[2] = stage[2] /\ stage'[3] = 0
  BY <1>3, <1>5
<1>10. Types' /\ TablesInv'
  BY <1>3, <1>9 DEF IInv, Types, TablesInv
<1>11. StagesInv'
  <2>1. left' = BooksOf(n, last)
    <3>1. left = BooksOf(disk.hround, last)
      BY <1>5 DEF StagesInv
    <3>2. DOMAIN left = disk.hround + 1 .. last /\ \A k \in disk.hround + 1 .. last : left[k] = AllBooks(ChainBook(k))
      BY <3>1 DEF BooksOf
    <3>3. {k \in disk.hround + 1 .. last : k > n} = n + 1 .. last
      BY <1>5, <1>6
    <3>4. n + 1 .. last \subseteq disk.hround + 1 .. last
      BY <1>5, <1>6
    <3> QED BY <1>3, <3>2, <3>3, <3>4 DEF BooksOf
  <2>2. \A i \in 1 .. 3 : stage'[i] # 0 =>
          n < stage'[i] /\ stage'[i] =< last /\ (phase = "handover" => stage'[i] < last)
    BY <1>5, <1>6, <1>9 DEF StagesInv
  <2>3. phase = "handover" => n < last
    BY <1>1, <1>5 DEF StagesInv
  <2>4. 0 =< table.synced.round /\ (stage[1] # 0 => 0 < stage[1]) /\ (stage[2] # 0 => 0 < stage[2])
    BY <1>5 DEF IInv, TablesInv
  <2> QED BY <1>3, <1>5, <1>6, <1>7, <1>9, <2>1, <2>2, <2>3, <2>4 DEF StagesInv
<1>12. ~ tainted => CreationInv'
  BY <1>3, <1>5 DEF ExactInv, CreationInv, Height, Number
<1> QED BY <1>1, <1>3, <1>4, <1>8, <1>10, <1>11, <1>12, MemoryKept

-----------------------------------------------------------------------------
(* Crash and recovery.                                                     *)

(* Recovery starts with the round of the headers.                          *)
LEMMA MinIsHeaders ==
  ASSUME DiskInv
  PROVE  Min({disk.hround} \union {disk.rounds[u] : u \in 1 .. Units}) = disk.hround
<1> DEFINE S == {disk.hround} \union {disk.rounds[u] : u \in 1 .. Units}
<1>1. disk.hround \in Nat /\ \A u \in 1 .. Units : disk.rounds[u] \in Nat /\ disk.hround =< disk.rounds[u]
  BY DEF DiskInv
<1>2. disk.hround \in S /\ (\A x \in S : x \in Nat /\ disk.hround =< x)
  BY <1>1
<1> HIDE DEF S
<1>3. \A m \in S : (\A y \in S : m =< y) => m = disk.hround
  BY <1>1, <1>2
<1>4. Min(S) = disk.hround
  BY <1>2, <1>3 DEF Min
<1> QED BY <1>4 DEF S

(* A crash, with or without the loss of what was not synced.               *)
LEMMA CrashKeeps ==
  ASSUME IInv, Crash
  PROVE  IInv'
<1>1. PICK kept \in {table.written, table.synced} :
        /\ table' = [written |-> kept, synced |-> kept]
        /\ db' = [a \in DOMAIN kept.values |-> Account(kept.values[a], kept.values[a])]
        /\ trie' = kept.values
        /\ phase' = (IF \E u \in 1..Units : disk.rounds[u] > kept.round THEN "dead" ELSE "replay")
  BY DEF Crash
<1>2. /\ fresh' = Empty /\ creation' = <<>> /\ thunks' = <<>> /\ left' = Empty
      /\ books' = disk.books /\ pending' = AllBooks({})
      /\ hmap' = [keys |-> disk.keys, last |-> disk.hround]
      /\ stage' = <<0, 0, 0>> /\ last' = 0
      /\ next' = Min({disk.hround} \union {disk.rounds[u] : u \in 1..Units})
      /\ tainted' = FALSE /\ doubled' = {}
      /\ UNCHANGED <<role, shared, disk, skipped>>
  BY DEF Crash, node
<1>3. TablesInv /\ DiskInv /\ Types /\ Len(Chain) \in Nat
  BY ChainFacts DEF IInv
<1>4. next' = disk.hround /\ disk.hround \in Nat
  BY <1>2, <1>3, MinIsHeaders DEF DiskInv
<1>5. /\ kept.round \in 0 .. Len(Chain) /\ kept.values = ChainValues(kept.round)
      /\ table.synced.round =< kept.round
  BY <1>3 DEF TablesInv
<1>6. \A u \in 1 .. Units : /\ disk.rounds[u] \in Nat /\ disk.hround =< disk.rounds[u]
                            /\ disk.rounds[u] =< kept.round
  <2>1. table.synced.round \in Nat /\ kept.round \in Nat
    BY <1>3, <1>5 DEF TablesInv
  <2>2. \A u \in 1 .. Units : /\ disk.rounds[u] \in Nat /\ disk.hround =< disk.rounds[u]
                              /\ disk.rounds[u] =< table.synced.round
    BY <1>3 DEF DiskInv
  <2> QED BY <1>5, <2>1, <2>2
<1>7. phase' = "replay"
  <2>1. \A u \in 1 .. Units : ~ (disk.rounds[u] > kept.round)
    BY <1>5, <1>6
  <2> QED BY <1>1, <2>1
<1>8. table'.written = kept /\ table'.synced = kept
  BY <1>1
<1>9. TablesInv'
  BY <1>3, <1>5, <1>8 DEF TablesInv
<1>10. DiskInv'
  <2>1. skipped' # {} \/ doubled' # {} => table'.synced.round >= 1
    <3>1. skipped # {} => table.synced.round >= 1
      BY <1>3 DEF DiskInv
    <3>2. table.synced.round \in Nat
      BY <1>3 DEF TablesInv
    <3> QED BY <1>2, <1>5, <1>8, <3>1, <3>2
  <2> QED BY <1>2, <1>3, <1>6, <1>8, <2>1 DEF DiskInv
<1>11. Types'
  <2>1. <<0, 0, 0>> \in [1 .. 3 -> 0 .. Len(Chain)] /\ 0 \in 0 .. Len(Chain)
    BY <1>3
  <2> QED BY <1>2, <1>3, <1>4, <1>7, <2>1 DEF Types, Phases
<1>12. ReplayInv'
  <2>1. Quiet'
    BY <1>2 DEF Quiet
  <2>2. disk.keys = 1 .. disk.hround - 1 /\ disk.books = [u \in 1 .. Units |-> disk.books[u]]
    BY <1>3 DEF DiskInv
  <2>3. hmap'.last = disk.hround /\ hmap'.keys = 1 .. disk.hround - 1
    BY <1>2, <2>2
  <2>4. hmap'.keys \subseteq 1 .. disk.hround
    BY <1>4, <2>3
  <2>5. \A u \in 1 .. Units : disk.rounds[u] >= disk.hround - 1
    BY <1>4, <1>6
  <2>6. DOMAIN kept.values = ChainAccounts(kept.round)
        /\ \A a \in ChainAccounts(kept.round) : kept.values[a] = ChainValue(kept.round, a)
    BY <1>5 DEF ChainValues
  <2>7. /\ db' = [a \in ChainAccounts(kept.round) |-> db'[a]]
        /\ \A a \in ChainAccounts(kept.round) :
             db'[a] = Account(ChainValue(kept.round, a), ChainValue(kept.round, a))
    BY <1>1, <2>6
  <2> QED BY <1>1, <1>2, <1>4, <1>5, <1>7, <1>8, <2>1, <2>2, <2>3, <2>4, <2>5, <2>7 DEF ReplayInv
<1> QED BY <1>7, <1>9, <1>10, <1>11, <1>12 DEF IInv, Running

(* What holds during recovery.                                             *)
LEMMA RecoveryLives ==
  ASSUME IInv, phase \in {"replay", "resaving"}
  PROVE  /\ ReplayInv /\ TablesInv /\ DiskInv /\ Types
         /\ next \in Nat /\ disk.hround \in Nat /\ Len(Chain) \in Nat
         /\ table.written.round \in 0 .. Len(Chain) /\ table.synced = table.written
         /\ \A u \in 1 .. Units : /\ disk.rounds[u] \in Nat /\ disk.rounds[u] =< table.written.round
                                  /\ disk.hround =< disk.rounds[u]
<1>1. ReplayInv /\ TablesInv /\ DiskInv /\ Types /\ Len(Chain) \in Nat
  BY ChainFacts DEF IInv
<1>2. table.synced = table.written
  BY <1>1 DEF ReplayInv
<1> QED BY <1>1, <1>2 DEF DiskInv, TablesInv, Types

(* Round 0 is not replayed.                                                *)
LEMMA SkipRoundZeroKeeps ==
  ASSUME IInv, SkipRoundZero
  PROVE  IInv'
<1>1. /\ phase = "replay" /\ next = 0 /\ next' = 1
      /\ UNCHANGED <<role, shared, phase, last, db, fresh, trie, creation, thunks, books, pending, left, hmap, stage,
                     disk, table, tainted, doubled, skipped>>
  BY DEF SkipRoundZero, node, memory, values, offers, storage, ghosts
<1>2. /\ ReplayInv /\ TablesInv /\ DiskInv /\ Types /\ disk.hround \in Nat
      /\ \A u \in 1 .. Units : disk.rounds[u] \in Nat
  BY <1>1, RecoveryLives
<1>3. Types' /\ TablesInv' /\ DiskInv'
  BY <1>1, <1>2, StorageKept DEF Types
<1>4. ReplayInv'
  <2>1. disk.hround \in {-1, 0}
    BY <1>1, <1>2 DEF ReplayInv
  <2>2. disk.hround = 0
    BY <1>2, <2>1
  <2>3. \A u \in 1 .. Units : disk.rounds[u] >= 0
    BY <1>2
  <2>4. Quiet'
    BY <1>1, <1>2 DEF Quiet, ReplayInv
  <2>5. \A u \in 1 .. Units : books[u] = disk.books[u]
    BY <1>1, <1>2 DEF ReplayInv
  <2> QED BY <1>1, <1>2, <2>2, <2>3, <2>4, <2>5 DEF ReplayInv
<1> QED BY <1>1, <1>3, <1>4 DEF IInv, Running

(* Replaying a round brings the orderbooks that are behind to it, unless   *)
(* they are skipped.                                                       *)
LEMMA ReplayRoundKeeps ==
  ASSUME IInv, ReplayRound
  PROVE  IInv'
<1> SUFFICES ASSUME ~ Die PROVE IInv'
  BY DieKeeps
<1> DEFINE b == Chain[next]
<1>1. PICK cleared \in SUBSET Behind(next) :
        /\ books' = [u \in 1..Units |->
                       books[u] \union (IF u \in Behind(next) THEN {Tx(b)} ELSE {})
                                \union (IF u \in cleared THEN {Fill(b)} ELSE {})]
        /\ db' = Give(db, FilledBy(b, cleared), <<b.id, "again">>)
        /\ doubled' = doubled \union FilledBy(b, cleared)
        /\ skipped' = skipped \union (Behind(next) \ cleared)
        /\ hmap' = (IF disk.hround < next
                    THEN [keys |-> hmap.keys \union {next}, last |-> next] ELSE hmap)
        /\ phase' = "resaving"
        /\ UNCHANGED <<role, shared, last, fresh, trie, creation, thunks, pending, left,
                       stage, disk, table, next, tainted>>
  BY DEF ReplayRound, node, storage
<1>2. phase = "replay" /\ next \in 1 .. table.written.round
  BY DEF ReplayRound
<1>3. /\ ReplayInv /\ TablesInv /\ DiskInv /\ Types
      /\ next \in Nat /\ disk.hround \in Nat /\ Len(Chain) \in Nat
      /\ table.written.round \in 0 .. Len(Chain) /\ table.synced = table.written
      /\ \A u \in 1 .. Units : /\ disk.rounds[u] \in Nat /\ disk.rounds[u] =< table.written.round
                               /\ disk.hround =< disk.rounds[u]
  BY <1>2, RecoveryLives
<1>4. next \in 1 .. Len(Chain)
  BY <1>2, <1>3
<1>5. Types' /\ TablesInv'
  BY <1>1, <1>3 DEF Types, TablesInv, Phases
<1>6. DiskInv'
  <2>1. skipped \subseteq skipped' /\ table.synced.round >= 1
    BY <1>1, <1>2, <1>3
  <2> QED BY <1>1, <1>3, <2>1 DEF DiskInv
<1>7. ReplayInv'
  <2>1. Quiet'
    BY <1>1, <1>3 DEF ReplayInv, Quiet
  <2>2. /\ disk.hround \in {next - 1, next} /\ hmap.last = disk.hround
        /\ 1 .. disk.hround - 1 \subseteq hmap.keys /\ hmap.keys \subseteq 1 .. disk.hround
        /\ \A u \in 1 .. Units : disk.rounds[u] >= next - 1
    BY <1>2, <1>3 DEF ReplayInv
  <2>3. /\ hmap'.last = next /\ 1 .. disk.hround - 1 \subseteq hmap'.keys
        /\ hmap'.keys \subseteq 1 .. next /\ (disk.hround < next => next \in hmap'.keys)
    <3>1. CASE disk.hround < next
      <4>1. hmap'.last = next /\ hmap'.keys = hmap.keys \union {next}
        BY <1>1, <3>1
      <4>2. 1 .. disk.hround \subseteq 1 .. next /\ next \in 1 .. next
        BY <1>3, <1>4, <3>1
      <4> QED BY <2>2, <4>1, <4>2
    <3>2. CASE ~ (disk.hround < next)
      <4>1. disk.hround = next /\ hmap' = hmap
        BY <1>1, <1>3, <2>2, <3>2
      <4> QED BY <2>2, <3>2, <4>1
    <3> QED BY <3>1, <3>2
  <2>4. books = disk.books
    BY <1>2, <1>3 DEF ReplayInv
  <2>5. books' = [u \in 1 .. Units |-> books'[u]]
    BY <1>1
  <2>6. ASSUME NEW u \in 1 .. Units, disk.rounds[u] >= next PROVE books'[u] = disk.books[u]
    <3>1. u \notin Behind(next) /\ u \notin cleared
      BY <1>1, <1>3, <2>6 DEF Behind
    <3> QED BY <1>1, <2>4, <3>1
  <2>7. ASSUME NEW u \in 1 .. Units, disk.rounds[u] < next, u \notin skipped' PROVE books'[u] = ChainBook(next)
    <3>1. u \in Behind(next)
      BY <2>7 DEF Behind
    <3>2. u \in cleared /\ u \notin skipped
      BY <1>1, <2>7, <3>1
    <3>3. disk.rounds[u] = next - 1
      BY <1>3, <2>2, <2>7
    <3>4. disk.books[u] = ChainBook(next - 1)
      BY <1>3, <3>2, <3>3 DEF DiskInv
    <3>5. books'[u] = ChainBook(next - 1) \union {Tx(b)} \union {Fill(b)}
      BY <1>1, <2>4, <3>1, <3>2, <3>4
    <3> QED BY <1>4, <3>5, BookStep
  <2>8. /\ db' = [a \in ChainAccounts(table.written.round) |-> db'[a]]
        /\ \A a \in ChainAccounts(table.written.round) \ doubled' :
             db'[a] = Account(ChainValue(table.written.round, a), ChainValue(table.written.round, a))
    <3>1. /\ db = [a \in ChainAccounts(table.written.round) |-> db[a]]
          /\ \A a \in ChainAccounts(table.written.round) \ doubled :
               db[a] = Account(ChainValue(table.written.round, a), ChainValue(table.written.round, a))
      BY <1>3 DEF ReplayInv
    <3>2. DOMAIN db = ChainAccounts(table.written.round)
      BY <3>1
    <3>3. db' = [a \in ChainAccounts(table.written.round) |-> db'[a]]
      BY <1>1, <3>2 DEF Give
    <3>4. \A a \in DOMAIN db \ FilledBy(b, cleared) : db'[a] = db[a]
      BY <1>1, GiveFacts
    <3> QED BY <1>1, <3>1, <3>2, <3>3, <3>4
  <2>9. fresh' = Empty /\ pending' = AllBooks({}) /\ ~ tainted' /\ trie' = ChainValues(table.written.round)
    BY <1>1, <1>3 DEF ReplayInv
  <2> QED BY <1>1, <1>2, <1>3, <2>1, <2>2, <2>3, <2>5, <2>6, <2>7, <2>8, <2>9 DEF ReplayInv
<1> QED BY <1>1, <1>5, <1>6, <1>7 DEF IInv, Running

(* Recovery saves an orderbook that was behind.                            *)
LEMMA ResaveUnitKeeps ==
  ASSUME IInv, ResaveUnit
  PROVE  IInv'
<1> DEFINE u == First(Behind(next))
<1>1. /\ phase = "resaving" /\ Behind(next) # {} /\ disk' = Save(u, books[u], next)
      /\ UNCHANGED <<role, shared, phase, last, db, fresh, trie, creation, thunks, books, pending, left, hmap, stage,
                     table, next, tainted, doubled, skipped>>
  BY DEF ResaveUnit, node, memory, values, offers, ghosts
<1>2. u \in 1 .. Units /\ disk.rounds[u] < next
  BY <1>1, FirstIsOne DEF Behind
<1> HIDE DEF u
<1>3. /\ ReplayInv /\ TablesInv /\ DiskInv /\ Types
      /\ next \in Nat /\ disk.hround \in Nat /\ table.synced = table.written
      /\ table.written.round \in Nat
      /\ \A v \in 1 .. Units : /\ disk.rounds[v] \in Nat /\ disk.rounds[v] =< table.written.round
                               /\ disk.hround =< disk.rounds[v]
  BY <1>1, RecoveryLives
<1>4. /\ disk'.rounds \in [1 .. Units -> Nat] /\ disk'.books = [v \in 1 .. Units |-> disk'.books[v]]
      /\ disk'.books[u] = books[u] /\ disk'.rounds[u] = next
      /\ \A v \in 1 .. Units \ {u} : disk'.books[v] = disk.books[v] /\ disk'.rounds[v] = disk.rounds[v]
      /\ disk'.keys = disk.keys /\ disk'.hround = disk.hround
  BY <1>1, <1>2, <1>3, SaveFacts
<1>5. next \in 1 .. table.written.round /\ disk.hround =< next
  BY <1>1, <1>3 DEF ReplayInv
<1>6. Types' /\ TablesInv'
  BY <1>1, <1>3 DEF Types, TablesInv
<1>7. u \notin skipped => books[u] = ChainBook(next)
  BY <1>1, <1>2, <1>3 DEF ReplayInv
<1>8. DiskInv'
  <2>1. ASSUME NEW v \in 1 .. Units
        PROVE  /\ v \notin skipped => disk'.books[v] = ChainBook(disk'.rounds[v])
               /\ disk.hround =< disk'.rounds[v] /\ disk'.rounds[v] =< table.synced.round
    <3>1. CASE v = u
      BY <1>3, <1>4, <1>5, <1>7, <3>1
    <3>2. CASE v # u
      BY <1>3, <1>4, <3>2 DEF DiskInv
    <3> QED BY <3>1, <3>2
  <2> QED BY <1>1, <1>3, <1>4, <2>1 DEF DiskInv
<1>9. ReplayInv'
  <2>1. Quiet'
    BY <1>1, <1>3 DEF ReplayInv, Quiet
  <2>2. ASSUME NEW v \in 1 .. Units
        PROVE  /\ disk'.rounds[v] >= next - 1
               /\ disk'.rounds[v] >= next => books[v] = disk'.books[v]
               /\ disk'.rounds[v] < next /\ v \notin skipped => books[v] = ChainBook(next)
    <3>1. CASE v = u
      BY <1>3, <1>4, <3>1
    <3>2. CASE v # u
      <4>1. disk'.books[v] = disk.books[v] /\ disk'.rounds[v] = disk.rounds[v]
        BY <1>4, <3>2
      <4> QED BY <1>1, <1>3, <4>1 DEF ReplayInv
    <3> QED BY <3>1, <3>2
  <2> QED BY <1>1, <1>3, <1>4, <2>1, <2>2 DEF ReplayInv
<1> QED BY <1>1, <1>6, <1>8, <1>9 DEF IInv, Running

(* Recovery saves the header map.                                          *)
LEMMA ResaveMapKeeps ==
  ASSUME IInv, ResaveMap
  PROVE  IInv'
<1> SUFFICES ASSUME ~ Die PROVE IInv'
  BY DieKeeps
<1>1. /\ phase = "resaving" /\ Behind(next) = {} /\ next' = next + 1 /\ phase' = "replay"
      /\ disk' = (IF disk.hround < next THEN SaveHeaders(next) ELSE disk)
      /\ UNCHANGED <<role, shared, last, db, fresh, trie, creation, thunks, books, pending, left, hmap, stage,
                     table, tainted, doubled, skipped>>
  BY DEF ResaveMap, node, memory, values, offers, ghosts
<1>2. /\ ReplayInv /\ TablesInv /\ DiskInv /\ Types
      /\ next \in Nat /\ disk.hround \in Nat /\ table.synced = table.written
      /\ table.written.round \in Nat
      /\ \A v \in 1 .. Units : /\ disk.rounds[v] \in Nat /\ disk.rounds[v] =< table.written.round
                               /\ disk.hround =< disk.rounds[v]
  BY <1>1, RecoveryLives
<1>3. next \in 1 .. table.written.round /\ disk.hround \in {next - 1, next} /\ disk.keys = 1 .. disk.hround - 1
  BY <1>1, <1>2 DEF ReplayInv, DiskInv
<1>4. \A v \in 1 .. Units : disk.rounds[v] >= next
  <2>1. \A v \in 1 .. Units : ~ (disk.rounds[v] < next)
    BY <1>1 DEF Behind
  <2> QED BY <1>2, <2>1
<1>5. /\ disk'.books = disk.books /\ disk'.rounds = disk.rounds /\ disk'.hround = next
      /\ disk'.keys = 1 .. next - 1
  <2>1. CASE disk.hround < next
    <3>1. disk'.books = disk.books /\ disk'.rounds = disk.rounds /\ disk'.hround = next
          /\ disk'.keys = disk.keys \union HeadersFrom(next)
      BY <1>1, <2>1 DEF SaveHeaders
    <3>2. disk.hround = next - 1
      BY <1>3, <2>1
    <3>3. disk.keys \union HeadersFrom(next) = 1 .. next - 1
      BY <1>2, <1>3, <3>2 DEF HeadersFrom
    <3> QED BY <3>1, <3>3
  <2>2. CASE ~ (disk.hround < next)
    <3>1. disk.hround = next /\ disk' = disk
      BY <1>1, <1>2, <1>3, <2>2
    <3> QED BY <1>3, <3>1
  <2> QED BY <2>1, <2>2
<1>6. Types' /\ TablesInv'
  BY <1>1, <1>2 DEF Types, TablesInv, Phases
<1>7. DiskInv'
  BY <1>1, <1>2, <1>4, <1>5 DEF DiskInv
<1>8. ReplayInv'
  <2>1. Quiet'
    BY <1>1, <1>2 DEF ReplayInv, Quiet
  <2>2. next' - 1 = next /\ next' \in Nat
    BY <1>1, <1>2
  <2>3. /\ hmap.last = next /\ 1 .. disk.hround - 1 \subseteq hmap.keys
        /\ hmap.keys \subseteq 1 .. next /\ (disk.hround < next => next \in hmap.keys)
    BY <1>1, <1>2 DEF ReplayInv
  <2>4. 1 .. next - 1 \subseteq hmap.keys
    <3>1. CASE disk.hround < next
      BY <1>1, <1>2, <1>3, <2>3, <3>1 DEF ResaveMap, HeadersFrom
    <3>2. CASE ~ (disk.hround < next)
      <4>1. disk.hround = next
        BY <1>2, <1>3, <3>2
      <4> QED BY <2>3, <4>1
    <3> QED BY <3>1, <3>2
  <2>5. books = disk.books
    <3>1. books = [v \in 1 .. Units |-> books[v]] /\ \A v \in 1 .. Units : books[v] = disk.books[v]
      BY <1>2, <1>4 DEF ReplayInv
    <3>2. disk.books = [v \in 1 .. Units |-> disk.books[v]]
      BY <1>2 DEF DiskInv
    <3> QED BY <3>1, <3>2
  <2>6. disk'.hround \in {next' - 1, next'} /\ hmap'.last = disk'.hround
    BY <1>1, <1>5, <2>2, <2>3
  <2>7. \A v \in 1 .. Units : disk'.rounds[v] >= next' - 1
    BY <1>1, <1>4, <1>5, <2>2
  <2>8. 1 .. disk'.hround - 1 \subseteq hmap'.keys /\ hmap'.keys \subseteq 1 .. disk'.hround
    BY <1>1, <1>5, <2>3, <2>4
  <2>9. books' = disk'.books /\ books' = [v \in 1 .. Units |-> books'[v]]
    BY <1>1, <1>2, <1>5, <2>5 DEF ReplayInv
  <2> QED BY <1>1, <1>2, <2>1, <2>6, <2>7, <2>8, <2>9 DEF ReplayInv
<1> QED BY <1>1, <1>6, <1>7, <1>8 DEF IInv, Running

(* A node that starts, with or without blocks behind it.                   *)
LEMMA NothingToPersist ==
  ASSUME NEW n \in Nat
  PROVE  ThunksOf(n, n) = <<>> /\ BooksOf(n, n) = Empty /\ NumbersOf(n, n) = <<>>
<1>1. n - n = 0 /\ n + 1 .. n = {}
  OBVIOUS
<1>2. ThunksOf(n, n) = <<>>
  BY <1>1 DEF ThunksOf
<1>3. BooksOf(n, n) = Empty
  BY <1>1 DEF BooksOf, Empty
<1>4. NumbersOf(n, n) = <<>>
  BY <1>1 DEF NumbersOf
<1> QED BY <1>2, <1>3, <1>4

(* When recovery ends, every table is at the round of the accounts.        *)
LEMMA AllAtOneRound ==
  ASSUME IInv, phase = "replay", next > table.written.round
  PROVE  /\ disk.hround = table.written.round /\ next = table.written.round + 1
         /\ \A u \in 1 .. Units : disk.rounds[u] = table.written.round
<1>1. /\ ReplayInv
      /\ next \in Nat /\ disk.hround \in Nat /\ table.written.round \in Nat
      /\ \A u \in 1 .. Units : /\ disk.rounds[u] \in Nat /\ disk.rounds[u] =< table.written.round
                               /\ disk.hround =< disk.rounds[u]
  BY RecoveryLives
<1>2. disk.hround \in {next - 1, next}
  BY <1>1 DEF ReplayInv
<1>3. 1 \in 1 .. Units
  BY ChainFacts
<1>4. disk.hround =< table.written.round
  BY <1>1, <1>3
<1> QED BY <1>1, <1>2, <1>4

(* The end of recovery: the node is at the round of its tables.            *)
LEMMA FinishLoadKeeps ==
  ASSUME IInv, FinishLoad
  PROVE  IInv'
<1> DEFINE w == table.written.round
<1>1. /\ phase = "replay" /\ next > w /\ phase' = "idle" /\ next' = 0
      /\ db' = CommitValues(db, DOMAIN db)
      /\ last' = (IF role = "producer" THEN 0 ELSE w)
      /\ tainted' = (doubled # {} \/ skipped # {})
      /\ UNCHANGED <<role, shared, fresh, trie, creation, thunks, books, pending, left, hmap, stage, disk, table,
                     doubled, skipped>>
  BY DEF FinishLoad, node, offers, storage
<1>2. /\ ReplayInv /\ TablesInv /\ DiskInv /\ Types
      /\ Len(Chain) \in Nat /\ w \in 0 .. Len(Chain) /\ table.synced = table.written
  BY <1>1, RecoveryLives
<1>3. disk.hround = w /\ \A u \in 1 .. Units : disk.rounds[u] = w
  BY <1>1, AllAtOneRound
<1>4. TablesInv' /\ DiskInv'
  BY <1>1, <1>2, StorageKept
<1>5. Types'
  BY <1>1, <1>2 DEF Types, Phases
<1>6. /\ Quiet /\ fresh = Empty /\ pending = AllBooks({}) /\ trie = ChainValues(w)
      /\ hmap.last = w /\ 1 .. w - 1 \subseteq hmap.keys /\ hmap.keys \subseteq 1 .. w
      /\ books = disk.books
      /\ db = [a \in ChainAccounts(w) |-> db[a]]
      /\ \A a \in ChainAccounts(w) \ doubled : db[a] = Account(ChainValue(w, a), ChainValue(w, a))
  BY <1>1, <1>2, <1>3 DEF ReplayInv
<1>7. Quiet'
  BY <1>1, <1>6 DEF Quiet
<1>8. /\ DOMAIN db' = ChainAccounts(w) /\ db' = [a \in ChainAccounts(w) |-> db'[a]]
      /\ \A a \in ChainAccounts(w) \ doubled : db'[a] = Account(ChainValue(w, a), ChainValue(w, a))
  <2>1. DOMAIN db = ChainAccounts(w)
    BY <1>6
  <2> QED BY <1>1, <1>6, <2>1 DEF CommitValues, Account
<1>9. ASSUME ~ Forgetful'
      PROVE  /\ last' = w
             /\ role = "producer" => w = 0 /\ ~ tainted'
  <2>1. CASE role = "producer"
    <3>1. w = 0
      BY <1>1, <1>2, <1>9, <2>1 DEF Forgetful
    <3>2. doubled = {} /\ skipped = {}
      BY <1>2, <3>1 DEF DiskInv
    <3> QED BY <1>1, <2>1, <3>1, <3>2
  <2>2. CASE role # "producer"
    BY <1>1, <2>2
  <2> QED BY <2>1, <2>2
<1>10. ASSUME ~ Forgetful' PROVE StagesInv'
  <2>1. thunks' = ThunksOf(w, w) /\ left' = BooksOf(w, w) /\ stage' = <<0, 0, 0>>
    BY <1>2, <1>7, NothingToPersist DEF Quiet
  <2>2. 0 =< table.synced.round
    BY <1>2 DEF TablesInv
  <2>3. stage'[1] = 0 /\ stage'[2] = 0 /\ stage'[3] = 0
    BY <2>1
  <2>4. \A i \in 1 .. 3 : stage'[i] = 0
    BY <2>1
  <2> HIDE DEF w
  <2>5. table'.written.round = w /\ disk'.hround = w /\ last' = w /\ table'.synced = table.synced
    BY <1>1, <1>3, <1>9, <1>10 DEF w
  <2> QED BY <1>1, <1>2, <2>1, <2>2, <2>3, <2>4, <2>5 DEF StagesInv
<1>11. ASSUME ~ Forgetful' PROVE MapInv'
  <2>1. last' = w /\ (role = "producer" => w = 0)
    BY <1>9, <1>11
  <2>2. role \in {"producer", "validator"}
    BY <1>2 DEF Types
  <2>3. CASE role = "producer"
    <3>1. w = 0 /\ hmap.keys = {} /\ 1 .. 0 - 1 = {}
      BY <1>6, <2>1, <2>3
    <3> QED BY <1>1, <1>6, <2>1, <2>3, <3>1 DEF MapInv
  <2>4. CASE role = "validator"
    BY <1>1, <1>6, <2>1, <2>4 DEF MapInv
  <2> QED BY <2>2, <2>3, <2>4
<1>12. ASSUME ~ Forgetful' PROVE AccountsInv'
  <2>1. Reached' = w
    BY <1>1, <1>9, <1>12 DEF Reached
  <2>2. DOMAIN trie' = ChainAccounts(w) /\ \A a \in ChainAccounts(w) : trie'[a] = ChainValue(w, a)
    BY <1>1, <1>6 DEF ChainValues
  <2>3. DOMAIN fresh' = {}
    BY <1>1, <1>6 DEF Empty
  <2>4. \A a \in ChainAccounts(w) \ doubled : db'[a].committed = ChainValue(w, a)
    BY <1>8 DEF Account
  <2> QED BY <1>1, <1>8, <2>1, <2>2, <2>3, <2>4 DEF AccountsInv
<1>13. BlockInv'
  BY <1>1 DEF BlockInv, Validating
<1>14. ASSUME ~ Forgetful', ~ tainted' PROVE ExactInv'
  <2>1. doubled = {} /\ skipped = {} /\ last' = w /\ w \in Nat
    <3>1. tainted' = (doubled # {} \/ skipped # {}) /\ ~ tainted'
      BY <1>1, <1>14
    <3>2. doubled = {} /\ skipped = {}
      BY <3>1, Zenon
    <3> HIDE DEF w
    <3>3. last' = w /\ w \in Nat
      BY <1>2, <1>9, <1>14
    <3> QED BY <3>2, <3>3
  <2>2. CreationInv'
    <3>1. Height' = w /\ creation' = NumbersOf(w, w) /\ table'.written.round = w /\ w \in 0 .. w
      BY <1>1, <1>7, <2>1, NothingToPersist DEF Height, Quiet
    <3> QED BY <3>1 DEF CreationInv
  <2>3. db' = ChainDatabase(w)
    BY <1>8, <2>1 DEF ChainDatabase
  <2>4. books' = AllBooks(ChainBook(w))
    <3>1. \A u \in 1 .. Units : disk.books[u] = ChainBook(w)
      BY <1>2, <1>3, <2>1 DEF DiskInv
    <3>2. disk.books = [u \in 1 .. Units |-> disk.books[u]]
      BY <1>2 DEF DiskInv
    <3> QED BY <1>1, <1>6, <3>1, <3>2 DEF AllBooks
  <2>5. AtChain(last)'
    BY <1>1, <1>6, <2>1, <2>3, <2>4 DEF AtChain
  <2> QED BY <1>1, <2>2, <2>5 DEF ExactInv
<1>15. RunningInv'
  <2>1. ~ tainted' => doubled' = {} /\ skipped' = {}
    BY <1>1
  <2> QED BY <1>1, <1>7, <1>9, <1>10, <1>11, <1>12, <1>13, <1>14, <2>1 DEF RunningInv
<1> QED BY <1>1, <1>4, <1>5, <1>15 DEF IInv

(* The genesis state.                                                      *)
LEMMA GenesisFacts ==
  /\ ChainAccounts(0) = Genesis /\ (\A a : ChainValue(0, a) = {}) /\ ChainBook(0) = {}
  /\ ChainDatabase(0) = [a \in Genesis |-> Account({}, {})]
<1>1. BlocksUpto(0) = {}
  BY DEF BlocksUpto
<1>2. ChainAccounts(0) = Genesis
  BY <1>1 DEF ChainAccounts
<1>3. \A a : ChainValue(0, a) = {}
  BY <1>1 DEF ChainValue
<1>4. ChainBook(0) = {}
  BY <1>1 DEF ChainBook
<1> QED BY <1>2, <1>3, <1>4 DEF ChainDatabase

(* The invariant holds initially.                                          *)
LEMMA InitIInv == Init => IInv
<1> SUFFICES ASSUME Init PROVE IInv
  OBVIOUS
<1>1. Len(Chain) \in Nat
  BY ChainFacts
<1>2. Types
  <2>1. <<0, 0, 0>> \in [1 .. 3 -> 0 .. Len(Chain)] /\ 0 \in 0 .. Len(Chain)
    BY <1>1
  <2>2. shared \in BOOLEAN
    BY DEF Init
  <2> QED BY <2>1, <2>2 DEF Init, Types, Phases
<1>3. table.written.round = 0 /\ table.synced.round = 0 /\ TablesInv
  BY <1>1 DEF Init, TablesInv
<1>4. /\ disk.hround = 0 /\ disk.rounds = AllBooks(0) /\ disk.keys = {} /\ disk.books = AllBooks({})
      /\ skipped = {} /\ doubled = {}
  BY DEF Init
<1>5. DiskInv
  <2>1. disk.rounds \in [1 .. Units -> Nat] /\ \A u \in 1 .. Units : disk.rounds[u] = 0
    BY <1>4 DEF AllBooks
  <2>2. disk.books = [u \in 1 .. Units |-> disk.books[u]] /\ \A u \in 1 .. Units : disk.books[u] = {}
    BY <1>4 DEF AllBooks
  <2>3. disk.keys = 1 .. 0 - 1
    BY <1>4
  <2>4. ChainBook(0) = {} /\ 0 \in Nat /\ 0 =< 0
    BY GenesisFacts
  <2>5. \A u \in 1 .. Units : /\ disk.books[u] = ChainBook(disk.rounds[u])
                              /\ disk.hround =< disk.rounds[u] /\ disk.rounds[u] =< table.synced.round
    BY <1>3, <1>4, <2>1, <2>2, <2>4
  <2> QED BY <1>3, <1>4, <2>1, <2>2, <2>3, <2>4, <2>5 DEF DiskInv
<1>6. /\ phase = "idle" /\ last = 0 /\ role \in {"producer", "validator"} /\ stage = <<0, 0, 0>>
      /\ thunks = <<>> /\ left = Empty /\ creation = <<>> /\ fresh = Empty
      /\ hmap.keys = {} /\ hmap.last = 0 /\ ~ tainted
  BY DEF Init
<1>7. ~ Forgetful
  BY <1>3, <1>6 DEF Forgetful
<1>8. StagesInv
  <2>1. stage[1] = 0 /\ stage[2] = 0 /\ stage[3] = 0 /\ \A i \in 1 .. 3 : stage[i] = 0
    BY <1>6
  <2>2. thunks = ThunksOf(0, 0) /\ left = BooksOf(0, 0)
    BY <1>6, NothingToPersist
  <2> QED BY <1>3, <1>4, <1>6, <2>1, <2>2 DEF StagesInv
<1>9. MapInv
  <2>1. 1 .. 0 - 1 = {} /\ 1 .. 0 = {}
    OBVIOUS
  <2> QED BY <1>6, <2>1 DEF MapInv
<1>10. AtChain(last)
  BY <1>6, GenesisFacts DEF Init, AtChain
<1>11. AccountsInv
  <2>1. Reached = 0
    BY <1>6 DEF Reached
  <2>2. DOMAIN fresh = {}
    BY <1>6 DEF Empty
  <2>3. db = ChainDatabase(0) /\ trie = ChainValues(0)
    BY <1>6, <1>10 DEF AtChain
  <2> QED BY <2>1, <2>2, <2>3 DEF AccountsInv, ChainDatabase, ChainValues, Account
<1>12. BlockInv
  BY <1>6 DEF BlockInv, Validating
<1>13. ExactInv
  <2>1. CreationInv
    <3>1. Height = 0 /\ creation = NumbersOf(0, 0) /\ 0 \in 0 .. 0
      BY <1>6, NothingToPersist DEF Height
    <3> QED BY <1>3, <3>1 DEF CreationInv
  <2> QED BY <1>6, <1>10, <2>1 DEF ExactInv
<1> QED BY <1>2, <1>3, <1>4, <1>5, <1>6, <1>7, <1>8, <1>9, <1>11, <1>12, <1>13 DEF IInv, RunningInv

(* A step that changes nothing keeps the invariant.                        *)
LEMMA StutterKeeps ==
  ASSUME IInv, UNCHANGED vars
  PROVE  IInv'
<1>1. UNCHANGED <<role, shared, phase, cur, last, db, fresh, trie, creation, thunks, books, pending, left, hmap, stage,
                  disk, table, next, tainted, doubled, skipped>>
  BY DEF vars, node, memory, values, offers, storage, ghosts
<1>2. Number' = Number /\ Reached' = Reached /\ Height' = Height /\ Forgetful' = Forgetful /\ Running' = Running
  BY <1>1 DEF Number, Reached, Height, Forgetful, Running
<1>3. Types' /\ TablesInv' /\ DiskInv'
  BY <1>1, StorageKept DEF IInv, Types
<1>4. phase \in {"replay", "resaving"} => ReplayInv'
  BY <1>1 DEF IInv, ReplayInv, Quiet
<1>5. Running => RunningInv'
  <2> SUFFICES ASSUME Running PROVE RunningInv'
    OBVIOUS
  <2>1. RunningInv
    BY DEF IInv
  <2>2. Quiet => Quiet'
    BY <1>1 DEF Quiet
  <2>3. StagesInv => StagesInv'
    BY <1>1 DEF StagesInv
  <2>4. MapInv => MapInv'
    BY <1>1, <1>2 DEF MapInv
  <2>5. AccountsInv => AccountsInv'
    BY <1>1, <1>2 DEF AccountsInv
  <2>6. BlockInv => BlockInv'
    BY <1>1, <1>2 DEF BlockInv, Validating
  <2>7. ExactInv => ExactInv'
    BY <1>1, <1>2 DEF ExactInv, CreationInv, AtChain
  <2> QED BY <1>1, <1>2, <2>1, <2>2, <2>3, <2>4, <2>5, <2>6, <2>7 DEF RunningInv
<1> QED BY <1>1, <1>2, <1>3, <1>4, <1>5 DEF IInv

(* A producer that has forgotten its blocks makes none.                    *)
LEMMA ForgetfulStops ==
  ASSUME IInv, Forgetful, ProduceBlock
  PROVE  Die
<1>1. phase = "idle"
  BY DEF ProduceBlock
<1>2. creation = <<>>
  BY <1>1 DEF IInv, RunningInv, Running, Quiet
<1>3. last < table.written.round /\ table.written.round \in Nat /\ last \in Nat
  BY ChainFacts DEF Forgetful, IInv, TablesInv, Types
<1>4. CreationMismatch(Number)
  BY <1>2, <1>3 DEF CreationMismatch, Number
<1> QED BY <1>4 DEF ProduceBlock

(* What recovery left in the log never reaches a block that is committed:  *)
(* a validator's first block does not have its hash, and a producer that   *)
(* recovered makes no block.                                               *)
LEMMA LogKeeps ==
  ASSUME IInv, LogInv, [Next]_vars
  PROVE  LogInv'
<1>1. /\ table.written.round \in 0 .. Len(Chain) /\ last \in 0 .. Len(Chain) /\ Len(Chain) \in Nat
      /\ stage \in [1 .. 3 -> 0 .. Len(Chain)]
  BY ChainFacts DEF IInv, TablesInv, Types
<1>2. ASSUME stale' = {} PROVE LogInv'
  BY <1>2 DEF LogInv
<1>3. ASSUME UNCHANGED <<role, last, table, stale>>, phase' = "finishing" => stale = {}, Running' => Running
      PROVE  LogInv'
  BY <1>3 DEF LogInv, Forgetful
<1>4. ASSUME Die PROVE LogInv'
  BY <1>4 DEF LogInv, Die, memory, storage, Running
<1>5. CASE Receive \/ RejectHeader \/ FailTransactions \/ ValidateTransactions \/ TentativeCommit
  <2>1. CASE Receive
    BY <1>3, <2>1 DEF Receive, node, memory, storage, Running
  <2>2. CASE RejectHeader
    BY <1>2, <1>3, <2>2 DEF RejectHeader, node, storage, Running
  <2>3. CASE FailTransactions
    BY <1>2, <2>3 DEF FailTransactions
  <2>4. CASE ValidateTransactions
    BY <1>2, <1>3, <1>4, <2>4 DEF ValidateTransactions, node, storage, Running
  <2>5. CASE TentativeCommit
    BY <1>3, <1>4, <2>5 DEF TentativeCommit, node, storage, Running
  <2> QED BY <1>5, <2>1, <2>2, <2>3, <2>4, <2>5
<1>6. CASE FailClearing \/ CheckHash \/ RollbackThrows
  <2>1. CASE FailClearing
    BY <1>2, <2>1 DEF FailClearing, RollBack
  <2>2. CASE CheckHash
    BY <1>2, <1>4, <2>2 DEF CheckHash, RollBack
  <2>3. CASE RollbackThrows
    BY <1>4, <2>3 DEF RollbackThrows
  <2> QED BY <1>6, <2>1, <2>2, <2>3
<1>7. CASE ProduceBlock
  <2>1. CASE Forgetful
    BY <1>4, <1>7, <2>1, ForgetfulStops
  <2>2. CASE ~ Forgetful
    <3>1. stale = {}
      BY <1>7, <2>2 DEF LogInv, ProduceBlock, Running
    <3> QED BY <1>2, <1>4, <1>7, <3>1 DEF ProduceBlock
  <2> QED BY <2>1, <2>2
<1>8. CASE PersistCritical
  BY <1>2, <1>8 DEF PersistCritical
<1>9. CASE HandOver
  BY <1>3, <1>9 DEF HandOver, node, memory, storage, Running
<1>10. CASE Persist
  <2>1. CASE WriteAccounts
    <3>1. CASE Die
      BY <1>4, <3>1
    <3>2. CASE ~ Die
      <4>1. /\ UNCHANGED <<role, last, phase, stale>> /\ table'.written.round = stage[1]
            /\ stage[1] > table.written.round
        BY <2>1, <3>2 DEF WriteAccounts, node
      <4>2. stage[1] \in Nat /\ table.written.round \in Nat /\ last \in Nat
        BY <1>1
      <4>3. Forgetful => Forgetful'
        BY <4>1, <4>2 DEF Forgetful
      <4>4. Running' = Running
        BY <4>1 DEF Running
      <4> QED BY <4>1, <4>2, <4>3, <4>4 DEF LogInv
    <3> QED BY <3>1, <3>2
  <2>2. CASE ForgetCreation \/ ToSync
    BY <1>3, <2>2 DEF ForgetCreation, ToSync, LogInv, node, memory, storage, Running
  <2>3. CASE Sync
    <3>1. UNCHANGED <<role, last, phase, stale>> /\ table'.written = table.written
      BY <2>3 DEF Sync, node, memory
    <3> QED BY <3>1 DEF LogInv, Forgetful, Running
  <2>4. CASE SaveUnit
    BY <1>3, <2>4 DEF SaveUnit, LogInv, node, memory, Running
  <2>5. CASE SaveMap
    BY <1>3, <1>4, <2>5 DEF SaveMap, LogInv, node, Running
  <2> QED BY <1>10, <2>1, <2>2, <2>3, <2>4, <2>5 DEF Persist
<1>11. CASE Crash
  BY <1>2, <1>11 DEF Crash
<1>12. CASE Recover
  <2>1. CASE ReplayRound
    <3>1. CASE Die
      BY <1>4, <3>1
    <3>2. CASE ~ Die
      <4>1. phase' = "resaving" /\ table' = table /\ table.written.round >= 1
        BY <1>1, <2>1, <3>2 DEF ReplayRound, storage
      <4> QED BY <4>1 DEF LogInv, Running
    <3> QED BY <3>1, <3>2
  <2>2. CASE ResaveUnit \/ SkipRoundZero
    BY <1>3, <2>2 DEF ResaveUnit, SkipRoundZero, LogInv, node, memory, storage, Running
  <2>3. CASE ResaveMap
    BY <1>3, <1>4, <2>3 DEF ResaveMap, LogInv, node, memory, Running
  <2>4. CASE FinishLoad
    <3>1. /\ UNCHANGED <<role, table, stale>> /\ phase' = "idle"
          /\ last' = (IF role = "producer" THEN 0 ELSE table.written.round)
      BY <2>4 DEF FinishLoad, node, storage
    <3>2. role = "producer" /\ stale # {} => Forgetful'
      BY <1>1, <3>1 DEF LogInv, Forgetful
    <3> QED BY <3>1, <3>2 DEF LogInv
  <2> QED BY <1>12, <2>1, <2>2, <2>3, <2>4 DEF Recover
<1>13. CASE UNCHANGED vars
  BY <1>3, <1>13 DEF vars, LogInv, node, memory, storage, Running
<1> QED BY <1>5, <1>6, <1>7, <1>8, <1>9, <1>10, <1>11, <1>12, <1>13 DEF Next, Validate

(* Every step keeps the invariant.                                         *)
LEMMA NextKeeps ==
  ASSUME IInv, LogInv, [Next]_vars
  PROVE  IInv'
<1>1. CASE Validate
  <2>1. CASE RollbackThrows
    BY <2>1, DieKeeps DEF RollbackThrows
  <2> QED BY <1>1, <2>1, ReceiveKeeps, RejectHeaderKeeps, FailTransactionsKeeps, ValidateTransactionsKeeps,
             TentativeCommitKeeps, FailClearingKeeps, CheckHashKeeps DEF Validate
<1>2. CASE ProduceBlock \/ PersistCritical \/ HandOver
  BY <1>2, ProduceBlockKeeps, PersistCriticalKeeps, HandOverKeeps
<1>3. CASE Persist
  BY <1>3, WriteAccountsKeeps, ForgetCreationKeeps, ToSyncKeeps, SyncKeeps, SaveUnitKeeps, SaveMapKeeps DEF Persist
<1>4. CASE Crash
  BY <1>4, CrashKeeps
<1>5. CASE Recover
  BY <1>5, ReplayRoundKeeps, ResaveUnitKeeps, ResaveMapKeeps, SkipRoundZeroKeeps, FinishLoadKeeps DEF Recover
<1>6. CASE UNCHANGED vars
  BY <1>6, StutterKeeps
<1> QED BY <1>1, <1>2, <1>3, <1>4, <1>5, <1>6 DEF Next

(* The invariant holds in every state of the node, whatever blocks it is   *)
(* given, however they fail, wherever it crashes and however the           *)
(* persisters' steps fall.                                                 *)
THEOREM Inductive == Spec => [](IInv /\ LogInv)
<1>1. Init => IInv /\ LogInv
  BY InitIInv DEF Init, LogInv
<1>2. IInv /\ LogInv /\ [Next]_vars => IInv' /\ LogInv'
  BY NextKeeps, LogKeeps
<1> QED BY <1>1, <1>2, PTL DEF Spec

(* Every table holds the state of its round (commit_persistence_thunks,    *)
(* memory_database.cc:835), and no crash finds the orderbooks ahead of the *)
(* accounts or the headers ahead of the orderbooks (edce.cc:901).          *)
THEOREM DiskIsRightHolds == Spec => []DiskIsRight
<1>1. IInv => DiskIsRight
  BY DEF IInv, TablesInv, DiskInv, DiskIsRight
<1> QED BY <1>1, Inductive, PTL

(* What is committed is what the accepted blocks made, and between two     *)
(* blocks memory is the chain's state as long as nothing failed            *)
(* (edce_block_validation_logic).                                          *)
THEOREM MemoryIsRightHolds == Spec => []MemoryIsRight
<1>1. IInv => MemoryIsRight
  <2> SUFFICES ASSUME IInv, Running, ~ Forgetful
               PROVE  /\ CommittedIsRight
                      /\ phase \in {"idle", "handover"} /\ ~ tainted => MemoryIsChain
    BY DEF MemoryIsRight
  <2>1. /\ MapInv /\ AccountsInv /\ (~ tainted => ExactInv) /\ last \in Nat
    BY NodeLives
  <2>2. CommittedIsRight
    BY <2>1 DEF AccountsInv, Reached, CommittedIsRight
  <2>3. ASSUME phase \in {"idle", "handover"}, ~ tainted PROVE MemoryIsChain
    <3>1. AtChain(last) /\ CreationInv /\ Height = last
      BY <2>1, <2>3 DEF ExactInv, Height
    <3>2. creation = <<>> \/ Last(creation).n = last
      <4>1. PICK c \in 0 .. last : creation = NumbersOf(c, last)
        BY <3>1 DEF CreationInv
      <4>2. c \in Nat /\ c =< last
        BY <2>1
      <4> QED BY <2>1, <4>1, <4>2, NumbersFacts
    <3> QED BY <2>1, <3>1, <3>2 DEF AtChain, MemoryIsChain, MapInv
  <2> QED BY <2>2, <2>3
<1> QED BY <1>1, Inductive, PTL

-----------------------------------------------------------------------------
(* Failures.                                                               *)

(* A right block that is received finds a state in which its transactions  *)
(* apply.                                                                  *)
LEMMA RightBlockApplies ==
  ASSUME IInv, phase = "received", cur.fails = "none", ~ tainted
  PROVE  ~ TxFails(cur) /\ ~ Leftover(cur)
<1>1. Running /\ role = "validator"
  BY DEF Running, IInv, RunningInv, BlockInv, Validating
<1>2. BlockInv /\ ExactInv /\ last \in 0 .. Len(Chain) /\ Number = last + 1
  BY <1>1, ValidatorLives
<1>3. cur = Chain[Number] /\ Number \in 1 .. Len(Chain) /\ Number - 1 = last
  BY <1>2, ChainFacts DEF BlockInv, Validating
<1>4. db = ChainDatabase(last) /\ fresh = Empty
  BY <1>2 DEF ExactInv, AtChain
<1>5. /\ DOMAIN db = ChainAccounts(last) /\ DOMAIN fresh = {}
      /\ \A a \in ChainAccounts(last) : db[a].avail = ChainValue(last, a) /\ db[a].committed = ChainValue(last, a)
  BY <1>4 DEF ChainDatabase, Empty, Account
<1>6. cur.touched \subseteq ChainAccounts(last) /\ cur.new \intersect ChainAccounts(last) = {}
  BY <1>3, ChainFacts
<1>7. \A a \in ChainAccounts(last) : Tx(cur) \notin db[a].avail
  BY <1>3, <1>5, TxIsNew
<1>8. ~ TxFails(cur)
  BY <1>5, <1>6, <1>7 DEF TxFails
<1>9. ~ Leftover(cur)
  BY <1>5 DEF Leftover
<1> QED BY <1>8, <1>9

(* A right block that was applied to the chain's state has the chain's     *)
(* hash.                                                                   *)
LEMMA RightBlockMatches ==
  ASSUME IInv, phase = "committed", cur.fails = "none", ~ tainted
  PROVE  /\ ~ MapThrows /\ ~ MapRefuses
         /\ TentativeCommitment(trie, Paid, Dirty(cur)) = ChainValues(Number)
         /\ ClearedBooks = AllBooks(ChainBook(Number))
         /\ MapWithPrevious.keys = 1 .. last
<1>1. Running /\ role = "validator"
  BY DEF Running, IInv, RunningInv, BlockInv, Validating
<1>2. BlockInv /\ ExactInv /\ MapInv /\ last \in 0 .. Len(Chain) /\ Number = last + 1
  BY <1>1, ValidatorLives
<1>3. cur = Chain[Number] /\ Number \in 1 .. Len(Chain) /\ Number - 1 = last
  BY <1>2, ChainFacts DEF BlockInv, Validating
<1>4. /\ db = WithNewAccounts(Give(ChainDatabase(last), cur.touched, Tx(cur)), NewOf(cur))
      /\ trie = Over(NewOf(cur), ChainValues(last))
      /\ books = AllBooks(ChainBook(last) \union {Tx(cur)})
  BY <1>2 DEF ExactInv
<1>5. TentativeCommitment(trie, Paid, Dirty(cur)) = ChainValues(Number)
  <2>1. Paid = PaidDatabase(Number)
    BY <1>3, <1>4 DEF Paid, PaidDatabase
  <2> QED BY <1>3, <1>4, <2>1, BlockCommitted
<1>6. ClearedBooks = AllBooks(ChainBook(Number))
  <2>1. ChainBook(Number) = ChainBook(last) \union {Tx(cur), Fill(cur)}
    BY <1>3, BookStep
  <2>2. ClearedBooks = [u \in 1 .. Units |-> (ChainBook(last) \union {Tx(cur)}) \union {Fill(cur)}]
    BY <1>4 DEF ClearedBooks, AddAll, AllBooks
  <2> QED BY <2>1, <2>2 DEF AllBooks
<1>7. hmap.last = last /\ 1 .. last - 1 \subseteq hmap.keys /\ hmap.keys \subseteq 1 .. last
  BY <1>1, <1>2 DEF MapInv
<1>8. MapWithPrevious.keys = 1 .. last
  <2>1. MapWithPrevious.keys = hmap.keys \union ({last} \ {0})
    BY DEF MapWithPrevious
  <2>2. last \in Nat
    BY <1>2
  <2> QED BY <1>7, <2>1, <2>2
<1>9. ~ MapThrows /\ ~ MapRefuses
  <2>1. Number = 1 => last = 0 /\ hmap.keys = {}
    BY <1>2, <1>7
  <2> QED BY <1>7, <2>1 DEF MapThrows, MapRefuses
<1> QED BY <1>5, <1>6, <1>8, <1>9

(* A right block is refused, and its validation throws, only for a named   *)
(* defect.                                                                 *)
LEMMA ValidationExplained ==
  ASSUME IInv, Validate
  PROVE  RefusalExplained /\ DeathExplained
<1> SUFFICES ASSUME ~ tainted, phase \in {"received", "checked", "committed"}, cur.fails = "none", cur.new = {},
                    phase = "committed" => stale = {}, phase' \in {"idle", "dead"}
             PROVE  FALSE
  <2>1. phase' = "dead" => phase \in {"received", "checked", "committed"}
    BY DEF Validate, Receive, RejectHeader, FailTransactions, ValidateTransactions, TentativeCommit, FailClearing,
           CheckHash, RollbackThrows
  <2>2. phase \in {"received", "checked", "committed"} /\ phase' \in {"idle", "dead"} =>
          Defective \/ cur.fails # "none"
    BY DEF Defective
  <2> QED BY <2>1, <2>2 DEF RefusalExplained, DeathExplained
<1>1. CASE phase = "received"
  <2>1. ~ TxFails(cur) /\ ~ Leftover(cur)
    BY <1>1, RightBlockApplies
  <2>2. CheckValidState(cur) = {"holds"}
    BY <2>1 DEF CheckValidState
  <2>3. ~ FailTransactions
    BY <2>1 DEF FailTransactions
  <2>4. ~ ValidateTransactions
    BY <2>2 DEF ValidateTransactions
  <2> QED BY <1>1, <2>3, <2>4 DEF Validate, Receive, RejectHeader, TentativeCommit, FailClearing, CheckHash,
                                  RollbackThrows
<1>2. CASE phase = "checked"
  <2>1. Running /\ role = "validator"
    BY <1>2 DEF Running, IInv, RunningInv, BlockInv, Validating
  <2>2. ExactInv
    BY <2>1, ValidatorLives
  <2>3. ~ CreationMismatch(Number)
    BY <1>2, <2>2, NoMismatch DEF ExactInv, Height
  <2>4. ~ TentativeCommit
    BY <2>3 DEF TentativeCommit
  <2> QED BY <1>2, <2>4 DEF Validate, Receive, RejectHeader, FailTransactions, ValidateTransactions, FailClearing,
                            CheckHash, RollbackThrows
<1>3. CASE phase = "committed"
  <2>1. /\ ~ MapThrows /\ ~ MapRefuses
        /\ TentativeCommitment(trie, Paid, Dirty(cur)) = ChainValues(Number)
        /\ ClearedBooks = AllBooks(ChainBook(Number))
        /\ MapWithPrevious.keys = 1 .. last
    BY <1>3, RightBlockMatches
  <2>3. stale = {} /\ Log(cur) = Dirty(cur)
    BY <1>3 DEF Log
  <2>2. ~ CheckHash
    BY <2>1, <2>3 DEF CheckHash
  <2> QED BY <1>3, <2>2 DEF Validate, Receive, RejectHeader, FailTransactions, ValidateTransactions, TentativeCommit,
                            FailClearing, RollbackThrows
<1> QED BY <1>1, <1>2, <1>3

(* Producing a block throws only when the producer has forgotten its       *)
(* blocks.                                                                 *)
LEMMA ProductionExplained ==
  ASSUME IInv, ProduceBlock
  PROVE  RefusalExplained /\ DeathExplained
<1>1. role = "producer" /\ phase = "idle" /\ Running
  BY DEF ProduceBlock, Running
<1>2. ASSUME ~ Forgetful PROVE ~ CreationMismatch(Number) /\ ~ InsertThrows(last)
  <2>1. ExactInv /\ MapInv /\ last \in Nat
    BY <1>1, <1>2, NodeLives
  <2>2. ~ CreationMismatch(Number)
    BY <1>1, <2>1, NoMismatch DEF ExactInv, Height
  <2>3. /\ hmap.last = (IF last = 0 THEN last ELSE last - 1)
        /\ hmap.keys \subseteq 1 .. last
    BY <1>1, <2>1 DEF MapInv
  <2>4. ~ InsertThrows(last)
    BY <2>1, <2>3 DEF InsertThrows
  <2> QED BY <2>2, <2>4
<1>3. phase' # "dead" \/ Forgetful
  BY <1>2 DEF ProduceBlock
<1> QED BY <1>1, <1>3 DEF RefusalExplained, DeathExplained

(* No persister ever throws.                                               *)
LEMMA PersistersExplained ==
  ASSUME IInv, Persist
  PROVE  phase' = phase
<1>1. CASE WriteAccounts
  <2>1. InOrder(Upto(thunks, stage[1]), stage[1])
    BY <1>1, ThunksInOrder DEF WriteAccounts
  <2> QED BY <1>1, <2>1 DEF WriteAccounts
<1>2. CASE SaveMap
  <2>1. HeadersFrom(stage[3]) \subseteq hmap.keys
    BY <1>2, HeadersThere DEF SaveMap
  <2> QED BY <1>2, <2>1 DEF SaveMap
<1> QED BY <1>1, <1>2 DEF Persist, ForgetCreation, ToSync, Sync, SaveUnit

(* No crash leaves tables that recovery cannot load.                       *)
LEMMA CrashSurvived ==
  ASSUME IInv, Crash
  PROVE  phase' = "replay"
<1>1. PICK kept \in {table.written, table.synced} :
        phase' = (IF \E u \in 1..Units : disk.rounds[u] > kept.round THEN "dead" ELSE "replay")
  BY DEF Crash
<1>2. TablesInv /\ DiskInv /\ Len(Chain) \in Nat
  BY ChainFacts DEF IInv
<1>3. kept.round \in Nat /\ table.synced.round \in Nat /\ table.synced.round =< kept.round
  BY <1>2 DEF TablesInv
<1>4. \A u \in 1 .. Units : disk.rounds[u] \in Nat /\ disk.rounds[u] =< table.synced.round
  BY <1>2 DEF DiskInv
<1>5. \A u \in 1 .. Units : ~ (disk.rounds[u] > kept.round)
  BY <1>3, <1>4
<1> QED BY <1>1, <1>5

(* Recovery throws only when it misses a tx file or has to repair a header *)
(* map that is not empty.                                                  *)
LEMMA RecoveryExplained ==
  ASSUME IInv, Recover
  PROVE  RefusalExplained /\ DeathExplained
<1>1. phase \in {"replay", "resaving"}
  BY DEF Recover, ReplayRound, ResaveUnit, ResaveMap, SkipRoundZero, FinishLoad
<1>2. ReplayInv /\ next \in Nat /\ disk.hround \in Nat /\ disk.hround \in {next - 1, next}
  BY <1>1, RecoveryLives DEF ReplayInv
<1>3. CASE ReplayRound
  <2>1. phase = "replay" /\ next # 0
    BY <1>3 DEF ReplayRound
  <2>2. hmap.last = disk.hround
    BY <1>2, <2>1 DEF ReplayInv
  <2>3. ~ (disk.hround < next /\ InsertThrows(next))
    BY <1>2, <2>1, <2>2 DEF InsertThrows
  <2>4. phase' # "dead" \/ ~ shared
    BY <1>3, <2>3 DEF ReplayRound
  <2> QED BY <2>1, <2>4 DEF RefusalExplained, DeathExplained
<1>4. CASE ResaveMap
  <2>1. phase = "resaving"
    BY <1>4 DEF ResaveMap
  <2>2. ASSUME disk.hround < next, ~ (HeadersFrom(next) \subseteq hmap.keys) PROVE 1 =< disk.hround
    <3> SUFFICES ASSUME disk.hround = 0 PROVE FALSE
      BY <1>2
    <3>1. next = 1
      BY <1>2, <2>2
    <3>2. HeadersFrom(next) = {}
      BY <3>1 DEF HeadersFrom
    <3> QED BY <2>2, <3>2
  <2>3. phase' # "dead" \/ (disk.hround < next /\ ~ (HeadersFrom(next) \subseteq hmap.keys))
    BY <1>4 DEF ResaveMap
  <2> QED BY <2>1, <2>2, <2>3 DEF RefusalExplained, DeathExplained
<1>5. CASE ResaveUnit \/ SkipRoundZero \/ FinishLoad
  <2>1. phase' # "dead"
    BY <1>1, <1>5 DEF ResaveUnit, SkipRoundZero, FinishLoad
  <2> QED BY <1>1, <2>1 DEF RefusalExplained, DeathExplained
<1> QED BY <1>3, <1>4, <1>5 DEF Recover

(* A right block is refused only after a block failed beyond its header or *)
(* recovery cleared orderbooks, when it creates accounts, or for its hash  *)
(* when it is the first one after a recovery that logged offers of a       *)
(* replayed round (merkle_work_unit_manager.h:470, :502); the process      *)
(* throws only then, while it rolls back, or for one of the three defects  *)
(* of restarts.                                                            *)
THEOREM FailuresExplainedHolds == Spec => FailuresExplained
<1>1. IInv /\ LogInv /\ [Next]_vars => [RefusalExplained /\ DeathExplained]_vars
  <2> SUFFICES ASSUME IInv, Next PROVE RefusalExplained /\ DeathExplained
    OBVIOUS
  <2>1. CASE PersistCritical \/ HandOver
    <3>1. phase \in {"finishing", "handover"} /\ phase' # "dead"
      BY <2>1 DEF PersistCritical, HandOver
    <3> QED BY <3>1 DEF RefusalExplained, DeathExplained
  <2>2. CASE Persist
    BY <2>2, PersistersExplained DEF RefusalExplained, DeathExplained
  <2>3. CASE Crash
    BY <2>3, CrashSurvived DEF RefusalExplained, DeathExplained
  <2> QED BY <2>1, <2>2, <2>3, ValidationExplained, ProductionExplained, RecoveryExplained DEF Next
<1> QED BY <1>1, Inductive, PTL DEF Spec, FailuresExplained
=============================================================================
