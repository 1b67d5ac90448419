---------------------------- MODULE MCBlockSpace ----------------------------
EXTENDS BlockSpace

CONSTANTS w1, w2

(* Chunks of different sizes, one of them empty: cleaning the mempool      *)
(* removes transactions, not chunks.                                       *)
MCChunkSize == <<1, 2, 3, 0, 2>>

Call(threads, limit) == [bodies |-> threads, max_block_size |-> limit]

(* One body and a mempool twice the size of the block, or two and one that *)
(* exactly fits.                                                           *)
MCInstances == {Call({w1}, 4), Call({w1, w2}, 8)}

(* Two bodies and a mempool that does not fit.                             *)
MCRace == {Call({w1, w2}, 2)}
=============================================================================
