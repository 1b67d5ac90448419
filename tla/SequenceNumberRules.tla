------------------------- MODULE SequenceNumberRules -------------------------
(***************************************************************************)
(* The arithmetic of a UserAccount's sequence numbers (user_account.cc):   *)
(* which bit of the 64-bit vector a number takes, when a reservation is    *)
(* refused, when a release throws, and how far a commit moves on.          *)
(*                                                                         *)
(* check_tx_format_parameters rejects a sequence number whose low 8 bits   *)
(* are set, and last_committed_id starts at 0 and only grows by multiples  *)
(* of MAX_OPS_PER_TX.  Both are therefore counted in units of              *)
(* MAX_OPS_PER_TX: s stands for sequence number s * MAX_OPS_PER_TX.        *)
(***************************************************************************)
EXTENDS Integers

CONSTANTS
  VectorBits,     \* bits of sequence_number_vec (64)
  OffsetModulus   \* values of the uint8_t that holds an offset (256)

ASSUME WidthAssumption ==
  /\ VectorBits \in Nat \ {0}
  /\ OffsetModulus \in Nat \ {0}
  /\ VectorBits =< OffsetModulus

Bits == 0 .. VectorBits - 1
-----------------------------------------------------------------------------
(* get_seq_num_offset: the quotient is returned as a uint8_t.              *)
get_seq_num_offset(s, last) == ((s - last) - 1) % OffsetModulus

(* Mutant: the increment is the index of the highest bit.                  *)
increment_off_by_one(bv) ==
  IF bv = {} THEN 0 ELSE CHOOSE b \in bv : \A c \in bv : c =< b

(* get_seq_num_increment: 64 - clz(bv), one above the highest bit that is  *)
(* set, and 0 for the empty vector.                                        *)
get_seq_num_increment(bv) ==
  IF bv = {} THEN 0 ELSE (CHOOSE b \in bv : \A c \in bv : c =< b) + 1

(* Mutant: the bit that fetch_or found set is not looked at.               *)
reserve_status_unchecked(s, last, bv) ==
  CASE s =< last                                  -> "SEQ_NUM_TOO_LOW"
    [] s > last /\ get_seq_num_offset(s, last) >= VectorBits
                                                  -> "SEQ_NUM_TOO_HIGH"
    [] OTHER                                      -> "SUCCESS"

(* Mutant: no check that the offset is one of the vector.                  *)
reserve_status_unbounded(s, last, bv) ==
  CASE s =< last                                    -> "SEQ_NUM_TOO_LOW"
    [] s > last /\ get_seq_num_offset(s, last) \in bv
                                                    -> "SEQ_NUM_TEMP_IN_USE"
    [] OTHER                                        -> "SUCCESS"

(* The outcome of UserAccount::reserve_sequence_number on a vector bv.     *)
reserve_status(s, last, bv) ==
  CASE s =< last                                    -> "SEQ_NUM_TOO_LOW"
    [] s > last /\ get_seq_num_offset(s, last) >= VectorBits
                                                    -> "SEQ_NUM_TOO_HIGH"
    [] s > last /\ get_seq_num_offset(s, last) \in bv
                                                    -> "SEQ_NUM_TEMP_IN_USE"
    [] OTHER                                        -> "SUCCESS"

(* The two conditions under which release_sequence_number throws.          *)
release_throws(s, last) ==
  \/ s =< last
  \/ get_seq_num_offset(s, last) >= VectorBits
=============================================================================
