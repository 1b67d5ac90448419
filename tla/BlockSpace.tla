----------------------------- MODULE BlockSpace -----------------------------
(***************************************************************************)
(* How the threads of one tbb::parallel_reduce share the size limit of a   *)
(* block (BlockProductionReduce::operator() in block_producer.cc).         *)
(*                                                                         *)
(* Every body of the reduction walks its own range of mempool chunks.  For *)
(* a chunk it first reserves as many slots of the block as the chunk has   *)
(* transactions, by a fetch_sub on remaining_block_space; when the value   *)
(* it subtracted from was too small, it gives the difference back in a     *)
(* second step and looks at fewer transactions; when it has processed      *)
(* them, it gives back the slots of the transactions that failed.          *)
(* Which transactions succeed is nondeterministic here; TxProcessor models *)
(* them.                                                                   *)
(***************************************************************************)
EXTENDS Integers, Sequences, FiniteSets, FiniteSetsExt

CONSTANTS
  Workers,        \* threads that may run a body of the reduction
  ChunkSize,      \* ChunkSize[i]: transactions of chunk i of the locked mempool
  Instances       \* calls of build_block: the bodies that run concurrently, the limit

ASSUME ConstantsAssumption ==
  /\ IsFiniteSet(Workers)
  /\ ChunkSize \in Seq(Nat)
  /\ Instances \subseteq [bodies : SUBSET Workers, max_block_size : Nat]

Chunks == DOMAIN ChunkSize

VARIABLES
  bodies, max_block_size, \* of this call
  unassigned,             \* chunks of ranges that no body has started yet
  range,                  \* chunks of its range each worker has still to visit
  pc,
  chunk_sz,               \* transactions of the current chunk to look at
  remaining_space,        \* what the worker's fetch_sub returned
  elts_added_to_block,
  remaining_block_space,  \* atomic, shared
  total_block_size,       \* atomic, shared
  ignored                 \* history: transactions that no body looked at

locals == <<chunk_sz, remaining_space, elts_added_to_block>>
vars == <<bodies, max_block_size, unassigned, range, pc, locals, remaining_block_space,
          total_block_size, ignored>>

(* The transactions of a set of chunks, by chunk and position.             *)
TransactionsOf(cs) == UNION {{c} \X (1 .. ChunkSize[c]) : c \in cs}
SizeOf(cs) == Cardinality(TransactionsOf(cs))
-----------------------------------------------------------------------------
Init ==
  /\ \E i \in Instances : bodies = i.bodies /\ max_block_size = i.max_block_size
  /\ unassigned = Chunks
  /\ range = [w \in Workers |-> {}]
  /\ pc = [w \in Workers |-> "idle"]
  /\ chunk_sz = [w \in Workers |-> 0]
  /\ remaining_space = [w \in Workers |-> 0]
  /\ elts_added_to_block = [w \in Workers |-> 0]
  /\ remaining_block_space = max_block_size
  /\ total_block_size = 0
  /\ ignored = 0

(* The scheduler hands a subrange to a body; TBB may split it anywhere.    *)
StartRange(w) ==
  /\ pc[w] = "idle"
  /\ \E i, j \in unassigned :
       /\ i =< j
       /\ i .. j \subseteq unassigned
       /\ range' = [range EXCEPT ![w] = i .. j]
       /\ unassigned' = unassigned \ (i .. j)
  /\ pc' = [pc EXCEPT ![w] = "reserve"]
  /\ UNCHANGED <<locals, remaining_block_space, total_block_size, ignored>>

(* Leaving operator(): the rest of the range is not looked at.             *)
Return(w, left) ==
  /\ pc' = [pc EXCEPT ![w] = "idle"]
  /\ range' = [range EXCEPT ![w] = {}]
  /\ ignored' = ignored + left

(* Mutant: the value after the subtraction is taken for the one before it. *)
ReserveWithSubFetch(w) ==
  /\ pc[w] = "reserve"
  /\ LET c == Min(range[w])
         after == remaining_block_space - ChunkSize[c] IN
       /\ range' = [range EXCEPT ![w] = @ \ {c}]
       /\ chunk_sz' = [chunk_sz EXCEPT ![w] = ChunkSize[c]]
       /\ remaining_space' = [remaining_space EXCEPT ![w] = after]
       /\ remaining_block_space' = after
       /\ pc' = [pc EXCEPT ![w] = IF after < ChunkSize[c]
                                  THEN "shrink" ELSE "process"]
  /\ UNCHANGED <<unassigned, elts_added_to_block, total_block_size, ignored>>

(* remaining_block_space.fetch_sub(chunk_sz)                               *)
ReserveSpace(w) ==
  /\ pc[w] = "reserve"
  /\ LET c == Min(range[w]) IN
       /\ range' = [range EXCEPT ![w] = @ \ {c}]
       /\ chunk_sz' = [chunk_sz EXCEPT ![w] = ChunkSize[c]]
       /\ remaining_space' = [remaining_space EXCEPT ![w] = remaining_block_space]
       /\ remaining_block_space' = remaining_block_space - ChunkSize[c]
       /\ pc' = [pc EXCEPT ![w] = IF remaining_block_space < ChunkSize[c]
                                  THEN "shrink" ELSE "process"]
  /\ UNCHANGED <<unassigned, elts_added_to_block, total_block_size, ignored>>

(* Mutant: the slots that were not there are not given up.                 *)
KeepFullChunk(w) ==
  /\ pc[w] = "shrink"
  /\ pc' = [pc EXCEPT ![w] = "process"]
  /\ UNCHANGED <<unassigned, range, locals, remaining_block_space,
                 total_block_size, ignored>>

(* Mutant: a body that finds the block full waits for space.               *)
WaitForSpace(w) ==
  /\ pc[w] = "shrink"
  /\ IF remaining_space[w] =< 0
     THEN /\ remaining_space' =
               [remaining_space EXCEPT ![w] = remaining_block_space + chunk_sz[w]]
          /\ UNCHANGED <<chunk_sz, ignored, pc, remaining_block_space>>
     ELSE /\ chunk_sz' = [chunk_sz EXCEPT ![w] = remaining_space[w]]
          /\ remaining_block_space' =
               remaining_block_space + (chunk_sz[w] - remaining_space[w])
          /\ ignored' = ignored + (chunk_sz[w] - remaining_space[w])
          /\ pc' = [pc EXCEPT ![w] = "process"]
          /\ UNCHANGED remaining_space
  /\ UNCHANGED <<unassigned, range, elts_added_to_block, total_block_size>>

(* Too little was left: fetch_add(chunk_sz - remaining_space), continue    *)
(* with chunk_sz = remaining_space, or return when that is not positive.   *)
ShrinkReservation(w) ==
  /\ pc[w] = "shrink"
  /\ remaining_block_space' =
       remaining_block_space + (chunk_sz[w] - remaining_space[w])
  /\ IF remaining_space[w] =< 0
     THEN /\ Return(w, chunk_sz[w] + SizeOf(range[w]))
          /\ UNCHANGED chunk_sz
     ELSE /\ chunk_sz' = [chunk_sz EXCEPT ![w] = remaining_space[w]]
          /\ ignored' = ignored + (chunk_sz[w] - remaining_space[w])
          /\ pc' = [pc EXCEPT ![w] = "process"]
          /\ UNCHANGED range
  /\ UNCHANGED <<unassigned, remaining_space, elts_added_to_block,
                 total_block_size>>

(* process_transaction on the first chunk_sz transactions of the chunk.    *)
ProcessChunk(w) ==
  /\ pc[w] = "process"
  /\ \E n \in 0 .. chunk_sz[w] :
       elts_added_to_block' = [elts_added_to_block EXCEPT ![w] = n]
  /\ pc' = [pc EXCEPT ![w] = "giveback"]
  /\ UNCHANGED <<unassigned, range, chunk_sz, remaining_space,
                 remaining_block_space, total_block_size, ignored>>

(* fetch_add(chunk_sz - elts_added_to_block); the value before it is       *)
(* post_check, kept in remaining_space.                                    *)
GiveBack(w) ==
  /\ pc[w] = "giveback"
  /\ remaining_space' = [remaining_space EXCEPT ![w] = remaining_block_space]
  /\ remaining_block_space' =
       remaining_block_space + (chunk_sz[w] - elts_added_to_block[w])
  /\ pc' = [pc EXCEPT ![w] = "account"]
  /\ UNCHANGED <<unassigned, range, chunk_sz, elts_added_to_block,
                 total_block_size, ignored>>

(* Mutant: the body stops as soon as the block is nearly full.             *)
AccountAndStopEarly(w) ==
  /\ pc[w] = "account"
  /\ total_block_size' = total_block_size + elts_added_to_block[w]
  /\ IF remaining_space[w] =< chunk_sz[w] \/ range[w] = {}
     THEN Return(w, SizeOf(range[w]))
     ELSE pc' = [pc EXCEPT ![w] = "reserve"] /\ UNCHANGED <<range, ignored>>
  /\ UNCHANGED <<unassigned, locals, remaining_block_space>>

(* Mutant: the block size is moved by what was given back.                 *)
AccountFailures(w) ==
  /\ pc[w] = "account"
  /\ total_block_size' = total_block_size + (elts_added_to_block[w] - chunk_sz[w])
  /\ IF remaining_space[w] =< 0 \/ range[w] = {}
     THEN Return(w, SizeOf(range[w]))
     ELSE pc' = [pc EXCEPT ![w] = "reserve"] /\ UNCHANGED <<range, ignored>>
  /\ UNCHANGED <<unassigned, locals, remaining_block_space>>

(* total_block_size.fetch_add, then return if post_check =< 0 or the range *)
(* is exhausted.                                                           *)
AccountChunk(w) ==
  /\ pc[w] = "account"
  /\ total_block_size' = total_block_size + elts_added_to_block[w]
  /\ IF remaining_space[w] =< 0 \/ range[w] = {}
     THEN Return(w, SizeOf(range[w]))
     ELSE pc' = [pc EXCEPT ![w] = "reserve"] /\ UNCHANGED <<range, ignored>>
  /\ UNCHANGED <<unassigned, locals, remaining_block_space>>

(* parallel_reduce has returned; build_block reads total_block_size.       *)
AllReturned == unassigned = {} /\ \A w \in Workers : pc[w] = "idle"

Done == AllReturned /\ UNCHANGED vars

Body(w) ==
  /\ w \in bodies
  /\ \/ StartRange(w) \/ ReserveSpace(w) \/ ShrinkReservation(w)
     \/ ProcessChunk(w) \/ GiveBack(w) \/ AccountChunk(w)
  /\ UNCHANGED <<bodies, max_block_size>>

Next == (\E w \in Workers : Body(w)) \/ Done

Spec == Init /\ [][Next]_vars

(* The scheduler runs every ready body: parallel_reduce returns only when  *)
(* all of them have.                                                       *)
FairSpec == Spec /\ \A w \in Workers : WF_vars(Body(w))
-----------------------------------------------------------------------------
(* Type correctness of the shared counters and of each body's locals: a    *)
(* chunk size is never negative although the space it comes from may be.   *)
TypeOK ==
  /\ bodies \subseteq Workers /\ max_block_size \in Nat
  /\ unassigned \subseteq Chunks
  /\ range \in [Workers -> SUBSET Chunks]
  /\ pc \in [Workers -> {"idle", "reserve", "shrink", "process", "giveback", "account"}]
  /\ chunk_sz \in [Workers -> Nat]
  /\ remaining_space \in [Workers -> Int]
  /\ elts_added_to_block \in [Workers -> Nat]
  /\ remaining_block_space \in Int
  /\ total_block_size \in Nat
  /\ ignored \in Nat

(* "We'll guarantee that we don't exceed a block limit": the transactions  *)
(* added to the block never exceed max_block_size.                         *)
WithinBlockLimit == total_block_size =< max_block_size

(* A mempool that fits into the block is looked at completely: no body     *)
(* gives up chunks because of what the other bodies have reserved and not  *)
(* yet given back.                                                         *)
NothingIgnoredIfItFits == SizeOf(Chunks) =< max_block_size => ignored = 0

(* When the reduction has returned, the slots that are left are those that *)
(* no transaction of the block takes.                                      *)
SpaceAccountedFor ==
  AllReturned => remaining_block_space = max_block_size - total_block_size

(* The reduction ends.                                                     *)
ReductionEnds == <>AllReturned
=============================================================================
