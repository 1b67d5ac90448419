--------------------------- MODULE SequenceNumbers ---------------------------
(***************************************************************************)
(* The replay protection of one UserAccount (user_account.cc): a 64-bit    *)
(* atomic vector of the sequence numbers that the transactions of the open *)
(* block have reserved, above the last number a committed block used.      *)
(*                                                                         *)
(* Worker threads reserve and release bits concurrently (fetch_or and      *)
(* fetch_and are single atomic steps); UserAccount::commit and rollback    *)
(* run once all workers have finished the block.                           *)
(*                                                                         *)
(* Numbers are in the unit of SequenceNumberRules.                         *)
(***************************************************************************)
EXTENDS SequenceNumberRules, FiniteSets

CONSTANTS
  Threads,        \* worker threads that process transactions of the account
  SeqNums,        \* the sequence numbers that submitted transactions carry
  None            \* "this thread holds no sequence number"

ASSUME ConstantsAssumption ==
  /\ SeqNums \subseteq Nat \ {0}
  /\ None \notin SeqNums

VARIABLES
  sequence_number_vec, \* the set of bits that are 1
  last_committed_id,
  held,       \* the number each thread's transaction in flight has reserved
  confirmed,  \* numbers of the transactions that succeeded in the open block
  spent       \* history: numbers of the transactions of committed blocks

vars == <<sequence_number_vec, last_committed_id, held, confirmed, spent>>
-----------------------------------------------------------------------------
Init ==
  /\ sequence_number_vec = {}
  /\ last_committed_id = 0
  /\ held = [t \in Threads |-> None]
  /\ confirmed = {}
  /\ spent = {}

(* A reservation that is refused leaves the vector as it was: it is a      *)
(* stuttering step.                                                        *)
reserve_sequence_number(t, s) ==
  /\ held[t] = None
  /\ reserve_status(s, last_committed_id, sequence_number_vec) = "SUCCESS"
  /\ sequence_number_vec' = sequence_number_vec
       \union {get_seq_num_offset(s, last_committed_id)}
  /\ held' = [held EXCEPT ![t] = s]
  /\ UNCHANGED <<last_committed_id, confirmed, spent>>

(* The transaction failed after its reservation: process_transaction gives *)
(* the number back.                                                        *)
release_sequence_number(t) ==
  /\ held[t] # None
  /\ ~ release_throws(held[t], last_committed_id)
  /\ sequence_number_vec' = sequence_number_vec
       \ {get_seq_num_offset(held[t], last_committed_id)}
  /\ held' = [held EXCEPT ![t] = None]
  /\ UNCHANGED <<last_committed_id, confirmed, spent>>

(* The transaction succeeded: nothing is written, its bit stays set.       *)
commit_sequence_number(t) ==
  /\ held[t] # None
  /\ confirmed' = confirmed \union {held[t]}
  /\ held' = [held EXCEPT ![t] = None]
  /\ UNCHANGED <<sequence_number_vec, last_committed_id, spent>>

(* Mutant: an account is committed while transactions are in flight.       *)
CommitWhileProcessing == TRUE

(* "Transaction processing should be stopped before running commit/        *)
(* rollback": the block's threads have all returned.                       *)
ProcessingStopped == \A t \in Threads : held[t] = None

commit ==
  /\ ProcessingStopped
  /\ last_committed_id' =
       last_committed_id + get_seq_num_increment(sequence_number_vec)
  /\ sequence_number_vec' = {}
  /\ spent' = spent \union confirmed
  /\ confirmed' = {}
  /\ UNCHANGED held

rollback ==
  /\ ProcessingStopped
  /\ sequence_number_vec' = {}
  /\ confirmed' = {}
  /\ UNCHANGED <<last_committed_id, held, spent>>

Next ==
  \/ \E t \in Threads :
       \/ \E s \in SeqNums : reserve_sequence_number(t, s)
       \/ release_sequence_number(t)
       \/ commit_sequence_number(t)
  \/ commit
  \/ rollback

Spec == Init /\ [][Next]_vars
-----------------------------------------------------------------------------
(* Type correctness: only bits of the vector are ever set, whatever        *)
(* offset a sequence number has.                                           *)
TypeOK ==
  /\ sequence_number_vec \subseteq Bits
  /\ last_committed_id \in Nat
  /\ held \in [Threads -> SeqNums \union {None}]
  /\ confirmed \subseteq SeqNums
  /\ spent \subseteq SeqNums

(* Within the open block a sequence number belongs to at most one          *)
(* transaction, in flight or confirmed, however the threads interleave.    *)
NoDoubleUse ==
  /\ \A t, u \in Threads : t # u /\ held[t] # None => held[t] # held[u]
  /\ \A t \in Threads : held[t] \notin confirmed

(* A transaction that fails can always give its number back: neither       *)
(* exception of release_sequence_number is ever thrown.                    *)
ReleaseNeverThrows ==
  \A t \in Threads :
    held[t] # None => ~ release_throws(held[t], last_committed_id)

(* Replay protection: a number that a committed block has used is never    *)
(* accepted again.  The uniqueness of offer ids rests on it                *)
(* (merkle_work_unit_manager.h, ProcessingSerialManager::add_offer).       *)
NoReplay ==
  /\ spent \intersect confirmed = {}
  /\ \A t \in Threads : held[t] \notin spent
-----------------------------------------------------------------------------
(* Every transaction in flight or confirmed lies above last_committed_id   *)
(* and its bit of sequence_number_vec is set; nobody else in the block     *)
(* shares the bit of a transaction in flight, which may still clear it.    *)
SlotsOwned ==
  LET slot(s) == get_seq_num_offset(s, last_committed_id) IN
  /\ \A t \in Threads : held[t] # None =>
       held[t] > last_committed_id /\ slot(held[t]) \in sequence_number_vec
  /\ \A s \in confirmed :
       s > last_committed_id /\ slot(s) \in sequence_number_vec
  /\ \A t, u \in Threads :
       t # u /\ held[t] # None /\ held[u] # None => slot(held[t]) # slot(held[u])
  /\ \A t \in Threads, s \in confirmed :
       held[t] # None => slot(held[t]) # slot(s)

(* No transaction of the open block carries a number a full turn of the    *)
(* uint8_t or more ahead of last_committed_id.                             *)
NumbersInReach == \A s \in confirmed : s =< last_committed_id + OffsetModulus

(* Everything a committed block used is at most last_committed_id.         *)
SpentBelowLast == \A s \in spent : s =< last_committed_id
=============================================================================
