----------------------- MODULE SequenceNumbersProofs -----------------------
(***************************************************************************)
(* Proofs about SequenceNumbers, for every number of threads, every set of *)
(* submitted numbers and every width of the vector.                        *)
(***************************************************************************)
EXTENDS SequenceNumbers, Counting

(* An offset is a natural number below the modulus of its type.            *)
LEMMA OffsetType ==
  ASSUME NEW s \in Nat, NEW last \in Nat
  PROVE  /\ get_seq_num_offset(s, last) \in Nat
         /\ get_seq_num_offset(s, last) < OffsetModulus
  BY WidthAssumption DEF get_seq_num_offset

(* The increment is above every bit of the vector.                         *)
LEMMA IncrementBounds ==
  ASSUME NEW bv \in SUBSET Bits
  PROVE  /\ get_seq_num_increment(bv) \in Nat
         /\ \A b \in bv : b < get_seq_num_increment(bv)
<1>1. CASE bv = {}
  BY <1>1 DEF get_seq_num_increment
<1>2. CASE bv # {}
  <2> DEFINE top == CHOOSE b \in bv : \A c \in bv : c =< b
  <2>1. top \in bv /\ \A c \in bv : c =< top
    BY <1>2, HighestElement, WidthAssumption DEF Bits
  <2>2. get_seq_num_increment(bv) = top + 1
    BY <1>2 DEF get_seq_num_increment
  <2>3. \A c \in bv : c \in Nat
    BY WidthAssumption DEF Bits
  <2> HIDE DEF top
  <2> QED BY <2>1, <2>2, <2>3
<1> QED BY <1>1, <1>2

(* Type correctness, for every interleaving of the threads.                *)
THEOREM TypeCorrect == Spec => []TypeOK
<1>1. Init => TypeOK
  BY DEF Init, TypeOK
<1>2. TypeOK /\ [Next]_vars => TypeOK'
  <2> SUFFICES ASSUME TypeOK, [Next]_vars PROVE TypeOK'
    OBVIOUS
  <2> USE ConstantsAssumption, WidthAssumption DEF TypeOK
  <2>1. ASSUME NEW t \in Threads, NEW s \in SeqNums, reserve_sequence_number(t, s)
        PROVE  TypeOK'
    BY <2>1, OffsetType DEF reserve_sequence_number, reserve_status, Bits
  <2>2. ASSUME NEW t \in Threads, release_sequence_number(t)
        PROVE  TypeOK'
    BY <2>2 DEF release_sequence_number
  <2>3. ASSUME NEW t \in Threads, commit_sequence_number(t)
        PROVE  TypeOK'
    BY <2>3 DEF commit_sequence_number
  <2>4. CASE commit
    BY <2>4, IncrementBounds DEF commit
  <2>5. CASE rollback
    BY <2>5 DEF rollback
  <2>6. CASE UNCHANGED vars
    BY <2>6 DEF vars
  <2> QED BY <2>1, <2>2, <2>3, <2>4, <2>5, <2>6 DEF Next
<1> QED BY <1>1, <1>2, PTL DEF Spec

(* The ownership of the slots is inductive: a reservation takes a slot that *)
(* nobody has, a release returns only the thread's own, and commit and      *)
(* rollback find no transaction in flight.                                  *)
THEOREM SlotsAreOwned == Spec => []SlotsOwned
<1>1. Init => SlotsOwned
  BY DEF Init, SlotsOwned
<1>2. TypeOK /\ SlotsOwned /\ [Next]_vars => SlotsOwned'
  <2> SUFFICES ASSUME TypeOK, SlotsOwned, [Next]_vars PROVE SlotsOwned'
    OBVIOUS
  <2> DEFINE slot(s) == get_seq_num_offset(s, last_committed_id)
  <2>1. ASSUME NEW t \in Threads, NEW s \in SeqNums, reserve_sequence_number(t, s)
        PROVE  SlotsOwned'
    <3>1. /\ s > last_committed_id
          /\ slot(s) \notin sequence_number_vec
          /\ sequence_number_vec' = sequence_number_vec \union {slot(s)}
          /\ held' = [held EXCEPT ![t] = s]
          /\ UNCHANGED <<last_committed_id, confirmed>>
      BY <2>1, ConstantsAssumption, WidthAssumption
      DEF reserve_sequence_number, reserve_status, TypeOK
    <3> QED BY <3>1 DEF SlotsOwned, TypeOK
  <2>2. ASSUME NEW t \in Threads, release_sequence_number(t)
        PROVE  SlotsOwned'
    BY <2>2 DEF release_sequence_number, SlotsOwned, TypeOK
  <2>3. ASSUME NEW t \in Threads, commit_sequence_number(t)
        PROVE  SlotsOwned'
    BY <2>3 DEF commit_sequence_number, SlotsOwned, TypeOK
  <2>4. CASE commit
    BY <2>4 DEF commit, ProcessingStopped, SlotsOwned
  <2>5. CASE rollback
    BY <2>5 DEF rollback, ProcessingStopped, SlotsOwned
  <2>6. CASE UNCHANGED vars
    BY <2>6 DEF vars, SlotsOwned
  <2> QED BY <2>1, <2>2, <2>3, <2>4, <2>5, <2>6 DEF Next
<1> QED BY <1>1, <1>2, TypeCorrect, PTL DEF Spec

(* No sequence number is used twice in a block, whatever the numbers that   *)
(* are submitted (those that wrap around the uint8_t included).             *)
THEOREM NoDoubleUseHolds == Spec => []NoDoubleUse
<1>1. TypeOK /\ SlotsOwned => NoDoubleUse
  <2> SUFFICES ASSUME TypeOK, SlotsOwned PROVE NoDoubleUse
    OBVIOUS
  <2>1. None \notin confirmed
    BY ConstantsAssumption, WidthAssumption DEF TypeOK
  <2>2. \A t \in Threads : held[t] # None => held[t] \notin confirmed
    BY DEF SlotsOwned
  <2> QED BY <2>1, <2>2 DEF SlotsOwned, NoDoubleUse
<1> QED BY <1>1, TypeCorrect, SlotsAreOwned, PTL

(* A transaction that fails can always return its number: neither exception *)
(* of release_sequence_number is reachable.                                 *)
THEOREM ReleaseNeverThrowsHolds == Spec => []ReleaseNeverThrows
<1>1. TypeOK /\ SlotsOwned => ReleaseNeverThrows
  <2> SUFFICES ASSUME TypeOK, SlotsOwned, NEW t \in Threads, held[t] # None
               PROVE  ~ release_throws(held[t], last_committed_id)
    BY DEF ReleaseNeverThrows
  <2>1. /\ held[t] \in Nat
        /\ held[t] > last_committed_id
        /\ get_seq_num_offset(held[t], last_committed_id) \in Bits
    BY ConstantsAssumption, WidthAssumption DEF TypeOK, SlotsOwned
  <2> QED BY <2>1, ConstantsAssumption, WidthAssumption DEF release_throws, TypeOK, Bits
<1> QED BY <1>1, TypeCorrect, SlotsAreOwned, PTL

(* Replay protection holds as long as no block accepts a number that is a  *)
(* full turn of the uint8_t offset ahead of last_committed_id: then an     *)
(* offset is the true distance, and the increment of commit passes every   *)
(* number the block used.                                                  *)
THEOREM NoReplayHolds == Spec /\ []NumbersInReach => []NoReplay
<1>1. Init => SpentBelowLast
  BY DEF Init, SpentBelowLast
<1>2. TypeOK /\ SlotsOwned /\ SpentBelowLast /\ NumbersInReach /\ [Next]_vars => SpentBelowLast'
  <2> SUFFICES ASSUME TypeOK, SlotsOwned, SpentBelowLast, NumbersInReach, [Next]_vars
               PROVE  SpentBelowLast'
    OBVIOUS
  <2>1. ASSUME NEW t \in Threads, NEW s \in SeqNums, reserve_sequence_number(t, s)
        PROVE  SpentBelowLast'
    BY <2>1 DEF reserve_sequence_number, SpentBelowLast
  <2>2. ASSUME NEW t \in Threads, release_sequence_number(t)
        PROVE  SpentBelowLast'
    BY <2>2 DEF release_sequence_number, SpentBelowLast
  <2>3. ASSUME NEW t \in Threads, commit_sequence_number(t)
        PROVE  SpentBelowLast'
    BY <2>3 DEF commit_sequence_number, SpentBelowLast
  <2>4. CASE commit
    <3> DEFINE inc == get_seq_num_increment(sequence_number_vec)
    <3>1. /\ inc \in Nat
          /\ \A b \in sequence_number_vec : b < inc
      BY IncrementBounds DEF TypeOK
    <3>2. ASSUME NEW s \in confirmed
          PROVE  s =< last_committed_id + inc
      <4>1. s \in Nat /\ s =< last_committed_id + OffsetModulus /\ last_committed_id \in Nat
        BY ConstantsAssumption, WidthAssumption DEF TypeOK, NumbersInReach
      <4>2. /\ s > last_committed_id
            /\ get_seq_num_offset(s, last_committed_id) \in sequence_number_vec
        BY DEF SlotsOwned
      <4>3. get_seq_num_offset(s, last_committed_id) = (s - last_committed_id) - 1
        BY <4>1, <4>2, ConstantsAssumption, WidthAssumption DEF get_seq_num_offset
      <4>4. (s - last_committed_id) - 1 < inc
        BY <3>1, <4>2, <4>3
      <4> HIDE DEF inc
      <4> QED BY <4>1, <4>4, <3>1
    <3>3. ASSUME NEW s \in spent
          PROVE  s =< last_committed_id + inc
      <4>1. s \in Nat /\ last_committed_id \in Nat /\ s =< last_committed_id
        BY ConstantsAssumption, WidthAssumption DEF TypeOK, SpentBelowLast
      <4> HIDE DEF inc
      <4> QED BY <4>1, <3>1
    <3> QED BY <2>4, <3>2, <3>3 DEF commit, SpentBelowLast
  <2>5. CASE rollback
    BY <2>5 DEF rollback, SpentBelowLast
  <2>6. CASE UNCHANGED vars
    BY <2>6 DEF vars, SpentBelowLast
  <2> QED BY <2>1, <2>2, <2>3, <2>4, <2>5, <2>6 DEF Next
<1>3. TypeOK /\ SlotsOwned /\ SpentBelowLast => NoReplay
  <2> SUFFICES ASSUME TypeOK, SlotsOwned, SpentBelowLast PROVE NoReplay
    OBVIOUS
  <2>1. \A s \in spent : s \in Nat /\ s =< last_committed_id /\ s # None
    BY ConstantsAssumption, WidthAssumption DEF TypeOK, SpentBelowLast
  <2>2. \A s \in confirmed : s \in Nat /\ s > last_committed_id
    BY ConstantsAssumption, WidthAssumption DEF TypeOK, SlotsOwned
  <2>3. \A t \in Threads : held[t] = None \/ (held[t] \in Nat /\ held[t] > last_committed_id)
    BY ConstantsAssumption, WidthAssumption DEF TypeOK, SlotsOwned
  <2>4. last_committed_id \in Nat
    BY DEF TypeOK
  <2>5. spent \intersect confirmed = {}
    BY <2>1, <2>2, <2>4
  <2>6. \A t \in Threads : held[t] \notin spent
    BY <2>1, <2>3, <2>4
  <2> QED BY <2>5, <2>6 DEF NoReplay
<1> QED BY <1>1, <1>2, <1>3, TypeCorrect, SlotsAreOwned, PTL DEF Spec
=============================================================================
