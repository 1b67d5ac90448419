------------------------- MODULE TxProcessorProofs -------------------------
(***************************************************************************)
(* Proofs about TxProcessor, for every number of threads, every database,  *)
(* every set of orderbooks and every set of submitted transactions.        *)
(*                                                                         *)
(* The first part proves the type invariant, that nothing is overdrawn and *)
(* that the views are consistent.  On top of its invariant the second part *)
(* proves what a block is: every sequence number is used once, every       *)
(* change is in the modification log, every account is created once, and   *)
(* the orderbooks and the balances hold exactly what the block's           *)
(* transactions did to them.  Each of these has an inductive invariant of  *)
(* its own.                                                                *)
(***************************************************************************)
EXTENDS TxProcessor, Counting

(* An offset is a natural number below the modulus of its type.            *)
LEMMA OffsetType ==
  ASSUME NEW s \in Nat, NEW last \in Nat
  PROVE  /\ get_seq_num_offset(s, last) \in Nat
         /\ get_seq_num_offset(s, last) < OffsetModulus
  BY WidthAssumption DEF get_seq_num_offset

(* The increment is above every bit of the vector.                         *)
LEMMA IncrementBounds ==
  ASSUME NEW bv \in SUBSET Bits
  PROVE  /\ get_seq_num_increment(bv) \in Nat
         /\ \A b \in bv : b < get_seq_num_increment(bv)
<1>1. CASE bv = {}
  BY <1>1 DEF get_seq_num_increment
<1>2. CASE bv # {}
  <2> DEFINE top == CHOOSE b \in bv : \A c \in bv : c =< b
  <2>1. top \in bv /\ \A c \in bv : c =< top
    BY <1>2, HighestElement, WidthAssumption DEF Bits
  <2>2. get_seq_num_increment(bv) = top + 1
    BY <1>2 DEF get_seq_num_increment
  <2>3. \A c \in bv : c \in Nat
    BY WidthAssumption DEF Bits
  <2> HIDE DEF top
  <2> QED BY <2>1, <2>2, <2>3
<1> QED BY <1>1, <1>2

(* The inductive invariant.  NoOverdraft is not inductive by itself: that  *)
(* a commit or an unwind adds and never subtracts, and that the value a    *)
(* compare-and-swap writes was tested, are facts about the threads.        *)
Inv == TypeOK /\ NoOverdraft /\ ViewsConsistent

(* What the constants say about a transaction and its operations.          *)
LEMMA TxFacts ==
  ASSUME NEW t \in Txs
  PROVE  /\ t.source \in AccountIDs
         /\ t.seq \in Nat \ {0}
         /\ t.ops \in Seq(Operation)
         /\ \A i \in DOMAIN t.ops :
              /\ i \in Nat
              /\ t.ops[i] \in Operation
              /\ t.ops[i].account \in AccountIDs
              /\ t.ops[i].asset \in Assets
              /\ t.ops[i].amount \in Nat
<1>1. t \in Transaction
  BY ConstantsAssumption
<1>2. t.source \in AccountIDs /\ t.seq \in Nat \ {0} /\ t.ops \in Seq(Operation)
  BY <1>1 DEF Transaction
<1>3. ASSUME NEW i \in DOMAIN t.ops
      PROVE  i \in Nat /\ t.ops[i] \in Operation
  BY <1>2
<1>4. \A op \in Operation : op.account \in AccountIDs /\ op.asset \in Assets /\ op.amount \in Nat
  BY DEF Operation
<1> QED BY <1>2, <1>3, <1>4

(* A key is an account and an asset.                                       *)
LEMMA KeyFacts == \A k \in Keys : k[1] \in AccountIDs /\ k[2] \in Assets
  BY DEF Keys

(* A thread that a step leaves alone stays consistent.                     *)
LEMMA OthersConsistent ==
  ASSUME NEW v \in Workers, ThreadConsistent(v), tried \subseteq tried',
         pc'[v] = pc[v], tx'[v] = tx[v], op_idx'[v] = op_idx[v],
         available_buffer'[v] = available_buffer[v],
         available_side_effects'[v] = available_side_effects[v],
         new_accounts'[v] = new_accounts[v],
         current_available'[v] = current_available[v], todo'[v] = todo[v]
  PROVE  ThreadConsistent(v)'
  BY DEF ThreadConsistent, new_buffer, DebitKey, Op

(* A thread that is not idle runs a transaction of Txs.                    *)
LEMMA Running ==
  ASSUME Inv, NEW w \in Workers, pc[w] # "idle"
  PROVE  ThreadConsistent(w) /\ tx[w] \in Txs /\ op_idx[w] \in Nat \ {0}
<1>1. ThreadConsistent(w)
  BY DEF Inv, ViewsConsistent
<1>2. tx[w] \in tried /\ op_idx[w] >= 1
  BY <1>1 DEF ThreadConsistent
<1>3. op_idx[w] \in Nat
  BY DEF Inv, TypeOK, ThreadTypeOK
<1>4. tried \subseteq Txs
  BY DEF Inv, TypeOK, BlockTypeOK
<1> QED BY <1>1, <1>2, <1>3, <1>4

(* The operation a running thread is at, and the balance it debits.        *)
LEMMA CurrentOp ==
  ASSUME Inv, NEW w \in Workers, pc[w] # "idle", op_idx[w] =< Len(tx[w].ops)
  PROVE  /\ op_idx[w] \in DOMAIN tx[w].ops
         /\ Op(w).amount \in Nat
         /\ Op(w).account \in AccountIDs
         /\ <<tx[w].source, Op(w).asset>> \in Keys
         /\ <<Op(w).account, Op(w).asset>> \in Keys
         /\ <<Op(w).account, NATIVE_ASSET>> \in Keys
         /\ DebitKey(w) \in Keys
         /\ new_buffer(w) \in Int
<1>1. tx[w] \in Txs /\ op_idx[w] \in Nat \ {0}
  BY Running
<1>2. op_idx[w] \in DOMAIN tx[w].ops
  BY <1>1, TxFacts
<1>3. /\ Op(w).amount \in Nat
      /\ Op(w).account \in AccountIDs
      /\ Op(w).asset \in Assets
      /\ tx[w].source \in AccountIDs
  BY <1>1, <1>2, TxFacts DEF Op
<1>4. NATIVE_ASSET \in Assets
  BY ConstantsAssumption
<1>5. /\ <<tx[w].source, Op(w).asset>> \in Keys
      /\ <<Op(w).account, Op(w).asset>> \in Keys
      /\ <<Op(w).account, NATIVE_ASSET>> \in Keys
      /\ <<tx[w].source, NATIVE_ASSET>> \in Keys
  BY <1>3, <1>4 DEF Keys
<1>6. DebitKey(w) \in Keys
  BY <1>5 DEF DebitKey
<1>7. new_buffer(w) \in Int
  BY <1>3, <1>6 DEF new_buffer, Inv, TypeOK, ThreadTypeOK
<1> QED BY <1>2, <1>3, <1>5, <1>6, <1>7

(* Crediting the recipient keeps the buffers natural numbers.              *)
LEMMA CreditType ==
  ASSUME Inv, NEW w \in Workers, pc[w] # "idle", op_idx[w] =< Len(tx[w].ops),
         NEW buf \in [Keys -> Nat]
  PROVE  CreditAfterDebit(w, buf) \in [Keys -> Nat]
<1>1. /\ Op(w).amount \in Nat
      /\ <<Op(w).account, Op(w).asset>> \in Keys
      /\ <<Op(w).account, NATIVE_ASSET>> \in Keys
  BY CurrentOp
<1> QED BY <1>1 DEF CreditAfterDebit

(* A consistent view, in terms of types.                                   *)
LEMMA ViewTypes ==
  ASSUME Inv, NEW w \in Workers
  PROVE  /\ available_buffer[w] \in [Keys -> Nat]
         /\ available_side_effects[w] \in [Keys -> Int]
         /\ \A k \in Keys : available_side_effects[w][k] =< 0
  BY DEF Inv, TypeOK, ThreadTypeOK, ViewsConsistent, ThreadConsistent

(* A credit adds to one buffer of one view.                                *)
LEMMA CreditTypes ==
  ASSUME Inv, NEW w \in Workers, NEW k \in Keys, NEW a \in Nat, Credit(w, k, a)
  PROVE  /\ available_buffer' \in [Workers -> [Keys -> Int]]
         /\ available_buffer'[w] \in [Keys -> Nat]
         /\ \A v \in Workers : v # w => available_buffer'[v] = available_buffer[v]
<1> DEFINE new == [available_buffer[w] EXCEPT ![k] = @ + a]
<1>1. new \in [Keys -> Nat]
  BY ViewTypes
<1>2. available_buffer' = [available_buffer EXCEPT ![w] = new]
  BY DEF Credit
<1> HIDE DEF new
<1> QED BY <1>1, <1>2 DEF Inv, TypeOK, ThreadTypeOK

(* The database, the orderbooks and the idle threads that Init describes   *)
(* satisfy the inductive invariant.                                        *)
THEOREM Initially == Init => Inv
<1> SUFFICES ASSUME Init PROVE Inv
  OBVIOUS
<1>1. db_size \in Nat
  BY ConstantsAssumption, FS_CardinalityType DEF Init
<1>2. available \in [Keys -> Nat] /\ committed_available \in [Keys -> Nat]
  <2>0. InitialBalance \in [InitialIDs -> [Assets -> Nat]]
    BY ConstantsAssumption
  <2>1. \A k \in Keys : k[1] \in InitialIDs => InitialBalance[k[1]][k[2]] \in Nat
    BY <2>0, KeyFacts
  <2> QED BY <2>1 DEF Init
<1>3. TypeOK
  <2>1. DbTypeOK
    BY <1>1, <1>2, ConstantsAssumption DEF Init, DbTypeOK
  <2>2. BookTypeOK
    BY ConstantsAssumption DEF Init, BookTypeOK
  <2>3. BlockTypeOK
    BY ConstantsAssumption DEF Init, BlockTypeOK
  <2>4. ThreadTypeOK
    BY DEF Init, ThreadTypeOK, PcValues, Zero
  <2> QED BY <2>1, <2>2, <2>3, <2>4 DEF TypeOK
<1>4. NoOverdraft
  BY <1>2 DEF Init, NoOverdraft
<1>5. ViewsConsistent
  BY DEF Init, ViewsConsistent, ThreadConsistent, Zero
<1> QED BY <1>3, <1>4, <1>5 DEF Inv

(* Creating an account takes a reservation and no money.                   *)
LEMMA process_create_account_Preserves ==
  ASSUME Inv, NEW w \in Workers, process_create_account(w)
  PROVE  Inv'
<1> USE DEF process_create_account, SetPc, dbVars, bookVars, blockVars, viewVars, OpReady, Fail, OutsideOp
<1>0. ThreadConsistent(w) /\ tx[w] \in Txs /\ op_idx[w] \in Nat \ {0}
  BY Running
<1>00. pc[w] = "op" /\ op_idx[w] =< Len(tx[w].ops)
  OBVIOUS
<1>0a. /\ op_idx[w] \in DOMAIN tx[w].ops
       /\ Op(w).amount \in Nat
       /\ Op(w).account \in AccountIDs
       /\ <<tx[w].source, Op(w).asset>> \in Keys
       /\ DebitKey(w) \in Keys
       /\ new_buffer(w) \in Int
  BY <1>00, CurrentOp
<1>0b. /\ available_buffer[w] \in [Keys -> Nat]
       /\ available_side_effects[w] \in [Keys -> Int]
       /\ \A k \in Keys : available_side_effects[w][k] =< 0
  BY ViewTypes
<1>1. DbTypeOK'
  BY <1>0a DEF Inv, TypeOK, DbTypeOK
<1>2. BookTypeOK'
  BY DEF Inv, TypeOK, BookTypeOK
<1>3. BlockTypeOK'
  BY DEF Inv, TypeOK, BlockTypeOK
<1>4. ThreadTypeOK'
  <2>1. Append(new_accounts[w], Op(w).account) \in Seq(AccountIDs)
    BY <1>0a DEF Inv, TypeOK, ThreadTypeOK
  <2>2. \/ new_accounts' = new_accounts
        \/ new_accounts' = [new_accounts EXCEPT ![w] = Append(new_accounts[w], Op(w).account)]
    OBVIOUS
  <2>3. new_accounts' \in [Workers -> Seq(AccountIDs)]
    BY <2>1, <2>2 DEF Inv, TypeOK, ThreadTypeOK
  <2> QED BY <2>3 DEF Inv, TypeOK, ThreadTypeOK, PcValues
<1>5. NoOverdraft'
  BY DEF Inv, NoOverdraft
<1>6. ThreadConsistent(w)'
  BY <1>0, <1>00, <1>0a DEF ThreadConsistent, Inv, TypeOK, ThreadTypeOK
<1>7. ASSUME NEW v \in Workers, v # w
      PROVE  ThreadConsistent(v)'
  BY <1>7, OthersConsistent DEF Inv, ViewsConsistent, TypeOK, ThreadTypeOK
<1> QED BY <1>1, <1>2, <1>3, <1>4, <1>5, <1>6, <1>7 DEF Inv, TypeOK, ViewsConsistent

(* A new offer is well formed.                                             *)
LEMMA process_create_sell_offer_Preserves ==
  ASSUME Inv, NEW w \in Workers, process_create_sell_offer(w)
  PROVE  Inv'
<1> USE DEF process_create_sell_offer, SetPc, dbVars, bookVars, blockVars, viewVars, OpReady, Fail, OutsideOp
<1>0. ThreadConsistent(w) /\ tx[w] \in Txs /\ op_idx[w] \in Nat \ {0}
  BY Running
<1>00. pc[w] = "op" /\ op_idx[w] =< Len(tx[w].ops)
  OBVIOUS
<1>0a. /\ op_idx[w] \in DOMAIN tx[w].ops
       /\ Op(w).amount \in Nat
       /\ Op(w).account \in AccountIDs
       /\ <<tx[w].source, Op(w).asset>> \in Keys
       /\ DebitKey(w) \in Keys
       /\ new_buffer(w) \in Int
  BY <1>00, CurrentOp
<1>0b. /\ available_buffer[w] \in [Keys -> Nat]
       /\ available_side_effects[w] \in [Keys -> Int]
       /\ \A k \in Keys : available_side_effects[w][k] =< 0
  BY ViewTypes
<1>1. DbTypeOK'
  BY DEF Inv, TypeOK, DbTypeOK
<1>2. BookTypeOK'
  <2>1. OfferMade(tx[w], op_idx[w]) \in Offer
    BY <1>0, <1>0a, TxFacts DEF OfferMade, Offer, Op
  <2> QED BY <2>1 DEF Inv, TypeOK, BookTypeOK
<1>3. BlockTypeOK'
  BY DEF Inv, TypeOK, BlockTypeOK
<1>4. ThreadTypeOK'
  BY DEF Inv, TypeOK, ThreadTypeOK, PcValues
<1>5. NoOverdraft'
  BY DEF Inv, NoOverdraft
<1>6. ThreadConsistent(w)'
  BY <1>0, <1>00, <1>0a DEF ThreadConsistent, Inv, TypeOK, ThreadTypeOK
<1>7. ASSUME NEW v \in Workers, v # w
      PROVE  ThreadConsistent(v)'
  BY <1>7, OthersConsistent DEF Inv, ViewsConsistent, TypeOK, ThreadTypeOK
<1> QED BY <1>1, <1>2, <1>3, <1>4, <1>5, <1>6, <1>7 DEF Inv, TypeOK, ViewsConsistent

(* Cancelling adds the amount of a well-formed offer to the buffer.        *)
LEMMA process_cancel_sell_offer_Preserves ==
  ASSUME Inv, NEW w \in Workers, process_cancel_sell_offer(w)
  PROVE  Inv'
<1> USE DEF process_cancel_sell_offer, SetPc, dbVars, bookVars, blockVars, viewVars, OpReady, Fail, OutsideOp, NextOp
<1>0. ThreadConsistent(w) /\ tx[w] \in Txs /\ op_idx[w] \in Nat \ {0}
  BY Running
<1>00. pc[w] = "op" /\ op_idx[w] =< Len(tx[w].ops)
  OBVIOUS
<1>0a. /\ op_idx[w] \in DOMAIN tx[w].ops
       /\ Op(w).amount \in Nat
       /\ Op(w).account \in AccountIDs
       /\ <<tx[w].source, Op(w).asset>> \in Keys
       /\ DebitKey(w) \in Keys
       /\ new_buffer(w) \in Int
  BY <1>00, CurrentOp
<1>0b. /\ available_buffer[w] \in [Keys -> Nat]
       /\ available_side_effects[w] \in [Keys -> Int]
       /\ \A k \in Keys : available_side_effects[w][k] =< 0
  BY ViewTypes
<1>0c. ASSUME NEW o \in OfferNamed(tx[w], op_idx[w])
       PROVE  /\ o \in committed_offers
              /\ o.amount \in Nat
              /\ <<tx[w].source, o.asset>> \in Keys
  <2>1. o \in committed_offers /\ o \in Offer
    BY DEF OfferNamed, Inv, TypeOK, BookTypeOK
  <2>2. o.amount \in Nat /\ o.asset \in Assets /\ tx[w].source \in AccountIDs
    BY <2>1, <1>0, TxFacts DEF Offer
  <2> QED BY <2>1, <2>2 DEF Keys
<1>0d. /\ available_buffer' \in [Workers -> [Keys -> Int]]
       /\ available_buffer'[w] \in [Keys -> Nat]
       /\ \A v \in Workers : v # w => available_buffer'[v] = available_buffer[v]
  <2>1. CASE UNCHANGED available_buffer
    BY <2>1, <1>0b DEF Inv, TypeOK, ThreadTypeOK
  <2>2. ASSUME NEW o \in OfferNamed(tx[w], op_idx[w]),
               Credit(w, <<tx[w].source, o.asset>>, o.amount)
        PROVE  /\ available_buffer' \in [Workers -> [Keys -> Int]]
               /\ available_buffer'[w] \in [Keys -> Nat]
               /\ \A v \in Workers : v # w => available_buffer'[v] = available_buffer[v]
    BY <2>2, <1>0c, CreditTypes
  <2> QED BY <2>1, <2>2
<1>1. DbTypeOK'
  BY DEF Inv, TypeOK, DbTypeOK
<1>2. BookTypeOK'
  BY <1>0c DEF Inv, TypeOK, BookTypeOK
<1>3. BlockTypeOK'
  BY DEF Inv, TypeOK, BlockTypeOK
<1>4. ThreadTypeOK'
  <2>1. op_idx' \in [Workers -> Nat]
    BY <1>0 DEF Inv, TypeOK, ThreadTypeOK
  <2>2. pc' \in [Workers -> PcValues]
    BY DEF Inv, TypeOK, ThreadTypeOK, PcValues
  <2>3. UNCHANGED <<tx, available_side_effects, new_accounts, current_available, todo>>
    OBVIOUS
  <2> QED BY <1>0d, <2>1, <2>2, <2>3 DEF Inv, TypeOK, ThreadTypeOK
<1>5. NoOverdraft'
  BY DEF Inv, NoOverdraft
<1>6. ThreadConsistent(w)'
  BY <1>0, <1>00, <1>0d DEF ThreadConsistent, Inv, TypeOK, ThreadTypeOK
<1>7. ASSUME NEW v \in Workers, v # w
      PROVE  ThreadConsistent(v)'
  BY <1>7, OthersConsistent, <1>0d DEF Inv, ViewsConsistent, TypeOK, ThreadTypeOK
<1> QED BY <1>1, <1>2, <1>3, <1>4, <1>5, <1>6, <1>7 DEF Inv, TypeOK, ViewsConsistent

(* A payment only looks its receiver up before the debit.                  *)
LEMMA process_payment_Preserves ==
  ASSUME Inv, NEW w \in Workers, process_payment(w)
  PROVE  Inv'
<1> USE DEF process_payment, SetPc, dbVars, bookVars, blockVars, viewVars, OpReady, Fail, OutsideOp
<1>0. ThreadConsistent(w) /\ tx[w] \in Txs /\ op_idx[w] \in Nat \ {0}
  BY Running
<1>00. pc[w] = "op" /\ op_idx[w] =< Len(tx[w].ops)
  OBVIOUS
<1>0a. /\ op_idx[w] \in DOMAIN tx[w].ops
       /\ Op(w).amount \in Nat
       /\ Op(w).account \in AccountIDs
       /\ <<tx[w].source, Op(w).asset>> \in Keys
       /\ DebitKey(w) \in Keys
       /\ new_buffer(w) \in Int
  BY <1>00, CurrentOp
<1>0b. /\ available_buffer[w] \in [Keys -> Nat]
       /\ available_side_effects[w] \in [Keys -> Int]
       /\ \A k \in Keys : available_side_effects[w][k] =< 0
  BY ViewTypes
<1>1. DbTypeOK'
  BY DEF Inv, TypeOK, DbTypeOK
<1>2. BookTypeOK'
  BY DEF Inv, TypeOK, BookTypeOK
<1>3. BlockTypeOK'
  BY DEF Inv, TypeOK, BlockTypeOK
<1>4. ThreadTypeOK'
  BY DEF Inv, TypeOK, ThreadTypeOK, PcValues
<1>5. NoOverdraft'
  BY DEF Inv, NoOverdraft
<1>6. ThreadConsistent(w)'
  BY <1>0, <1>00, <1>0a DEF ThreadConsistent, Inv, TypeOK, ThreadTypeOK
<1>7. ASSUME NEW v \in Workers, v # w
      PROVE  ThreadConsistent(v)'
  BY <1>7, OthersConsistent DEF Inv, ViewsConsistent, TypeOK, ThreadTypeOK
<1> QED BY <1>1, <1>2, <1>3, <1>4, <1>5, <1>6, <1>7 DEF Inv, TypeOK, ViewsConsistent

(* Printing adds to the buffer.                                            *)
LEMMA process_money_printer_Preserves ==
  ASSUME Inv, NEW w \in Workers, process_money_printer(w)
  PROVE  Inv'
<1> USE DEF process_money_printer, SetPc, dbVars, bookVars, blockVars, viewVars, OpReady, OutsideOp, NextOp
<1>0. ThreadConsistent(w) /\ tx[w] \in Txs /\ op_idx[w] \in Nat \ {0}
  BY Running
<1>00. pc[w] = "op" /\ op_idx[w] =< Len(tx[w].ops)
  OBVIOUS
<1>0a. /\ op_idx[w] \in DOMAIN tx[w].ops
       /\ Op(w).amount \in Nat
       /\ Op(w).account \in AccountIDs
       /\ <<tx[w].source, Op(w).asset>> \in Keys
       /\ DebitKey(w) \in Keys
       /\ new_buffer(w) \in Int
  BY <1>00, CurrentOp
<1>0b. /\ available_buffer[w] \in [Keys -> Nat]
       /\ available_side_effects[w] \in [Keys -> Int]
       /\ \A k \in Keys : available_side_effects[w][k] =< 0
  BY ViewTypes
<1>0d. /\ available_buffer' \in [Workers -> [Keys -> Int]]
       /\ available_buffer'[w] \in [Keys -> Nat]
       /\ \A v \in Workers : v # w => available_buffer'[v] = available_buffer[v]
  BY <1>0a, CreditTypes
<1>1. DbTypeOK'
  BY DEF Inv, TypeOK, DbTypeOK
<1>2. BookTypeOK'
  BY DEF Inv, TypeOK, BookTypeOK
<1>3. BlockTypeOK'
  BY DEF Inv, TypeOK, BlockTypeOK
<1>4. ThreadTypeOK'
  <2>1. op_idx' \in [Workers -> Nat]
    BY <1>0 DEF Inv, TypeOK, ThreadTypeOK
  <2>2. pc' \in [Workers -> PcValues]
    BY DEF Inv, TypeOK, ThreadTypeOK, PcValues
  <2>3. UNCHANGED <<tx, available_side_effects, new_accounts, current_available, todo>>
    OBVIOUS
  <2> QED BY <1>0d, <2>1, <2>2, <2>3 DEF Inv, TypeOK, ThreadTypeOK
<1>5. NoOverdraft'
  BY DEF Inv, NoOverdraft
<1>6. ThreadConsistent(w)'
  BY <1>0, <1>00, <1>0d DEF ThreadConsistent, Inv, TypeOK, ThreadTypeOK
<1>7. ASSUME NEW v \in Workers, v # w
      PROVE  ThreadConsistent(v)'
  BY <1>7, OthersConsistent, <1>0d DEF Inv, ViewsConsistent, TypeOK, ThreadTypeOK
<1> QED BY <1>1, <1>2, <1>3, <1>4, <1>5, <1>6, <1>7 DEF Inv, TypeOK, ViewsConsistent

(* A debit that the buffer covers leaves the buffer non-negative.          *)
LEMMA DebitFromBuffer_Preserves ==
  ASSUME Inv, NEW w \in Workers, DebitFromBuffer(w)
  PROVE  Inv'
<1> USE DEF DebitFromBuffer, SetPc, dbVars, bookVars, blockVars, viewVars, OutsideOp, NextOp
<1>0. ThreadConsistent(w) /\ tx[w] \in Txs /\ op_idx[w] \in Nat \ {0}
  BY Running
<1>00. pc[w] = "debit" /\ op_idx[w] =< Len(tx[w].ops)
  BY Running, TxFacts DEF ThreadConsistent
<1>0a. /\ op_idx[w] \in DOMAIN tx[w].ops
       /\ Op(w).amount \in Nat
       /\ Op(w).account \in AccountIDs
       /\ <<tx[w].source, Op(w).asset>> \in Keys
       /\ DebitKey(w) \in Keys
       /\ new_buffer(w) \in Int
  BY <1>00, CurrentOp
<1>0b. /\ available_buffer[w] \in [Keys -> Nat]
       /\ available_side_effects[w] \in [Keys -> Int]
       /\ \A k \in Keys : available_side_effects[w][k] =< 0
  BY ViewTypes
<1>0c. DebitedBuffer(w, new_buffer(w)) \in [Keys -> Nat]
  <2>1. [available_buffer[w] EXCEPT ![DebitKey(w)] = new_buffer(w)] \in [Keys -> Nat]
    BY <1>0a, <1>0b
  <2> QED BY <2>1, <1>00, CreditType DEF DebitedBuffer
<1>0d. /\ available_buffer' \in [Workers -> [Keys -> Int]]
       /\ available_buffer'[w] \in [Keys -> Nat]
       /\ \A v \in Workers : v # w => available_buffer'[v] = available_buffer[v]
  BY <1>0c DEF Inv, TypeOK, ThreadTypeOK
<1>1. DbTypeOK'
  BY DEF Inv, TypeOK, DbTypeOK
<1>2. BookTypeOK'
  BY DEF Inv, TypeOK, BookTypeOK
<1>3. BlockTypeOK'
  BY DEF Inv, TypeOK, BlockTypeOK
<1>4. ThreadTypeOK'
  <2>1. op_idx' \in [Workers -> Nat]
    BY <1>0 DEF Inv, TypeOK, ThreadTypeOK
  <2>2. pc' \in [Workers -> PcValues]
    BY DEF Inv, TypeOK, ThreadTypeOK, PcValues
  <2>3. UNCHANGED <<tx, available_side_effects, new_accounts, current_available, todo>>
    OBVIOUS
  <2> QED BY <1>0d, <2>1, <2>2, <2>3 DEF Inv, TypeOK, ThreadTypeOK
<1>5. NoOverdraft'
  BY DEF Inv, NoOverdraft
<1>6. ThreadConsistent(w)'
  BY <1>0, <1>00, <1>0d DEF ThreadConsistent, Inv, TypeOK, ThreadTypeOK
<1>7. ASSUME NEW v \in Workers, v # w
      PROVE  ThreadConsistent(v)'
  BY <1>7, OthersConsistent, <1>0d DEF Inv, ViewsConsistent, TypeOK, ThreadTypeOK
<1> QED BY <1>1, <1>2, <1>3, <1>4, <1>5, <1>6, <1>7 DEF Inv, TypeOK, ViewsConsistent

(* The tentative value is tested before the thread goes on to write it.    *)
LEMMA LoadBalance_Preserves ==
  ASSUME Inv, NEW w \in Workers, LoadBalance(w)
  PROVE  Inv'
<1> USE DEF LoadBalance, SetPc, dbVars, bookVars, blockVars, viewVars, Fail
<1>0. ThreadConsistent(w) /\ tx[w] \in Txs /\ op_idx[w] \in Nat \ {0}
  BY Running
<1>00. pc[w] = "debit" /\ op_idx[w] =< Len(tx[w].ops)
  BY Running, TxFacts DEF ThreadConsistent
<1>0a. /\ op_idx[w] \in DOMAIN tx[w].ops
       /\ Op(w).amount \in Nat
       /\ Op(w).account \in AccountIDs
       /\ <<tx[w].source, Op(w).asset>> \in Keys
       /\ DebitKey(w) \in Keys
       /\ new_buffer(w) \in Int
  BY <1>00, CurrentOp
<1>0b. /\ available_buffer[w] \in [Keys -> Nat]
       /\ available_side_effects[w] \in [Keys -> Int]
       /\ \A k \in Keys : available_side_effects[w][k] =< 0
  BY ViewTypes
<1>0c. available[DebitKey(w)] \in Int
  BY <1>0a DEF Inv, TypeOK, DbTypeOK
<1>1. DbTypeOK'
  BY DEF Inv, TypeOK, DbTypeOK
<1>2. BookTypeOK'
  BY DEF Inv, TypeOK, BookTypeOK
<1>3. BlockTypeOK'
  BY DEF Inv, TypeOK, BlockTypeOK
<1>4. ThreadTypeOK'
  BY <1>0c DEF Inv, TypeOK, ThreadTypeOK, PcValues
<1>5. NoOverdraft'
  BY DEF Inv, NoOverdraft
<1>6. ThreadConsistent(w)'
  <2>1. new_buffer(w)' = new_buffer(w)
    BY DEF new_buffer, DebitKey, Op
  <2>2. current_available'[w] = available[DebitKey(w)]
    BY DEF Inv, TypeOK, ThreadTypeOK
  <2>3. pc'[w] = "cas" => available[DebitKey(w)] + new_buffer(w) >= 0
    BY <1>0a, <1>0c DEF Inv, TypeOK, ThreadTypeOK
  <2>4. pc'[w] \in {"cas", "unwind"}
    BY DEF Inv, TypeOK, ThreadTypeOK
  <2> QED BY <1>0, <1>00, <1>0a, <2>1, <2>2, <2>3, <2>4
          DEF ThreadConsistent
<1>7. ASSUME NEW v \in Workers, v # w
      PROVE  ThreadConsistent(v)'
  BY <1>7, OthersConsistent DEF Inv, ViewsConsistent, TypeOK, ThreadTypeOK
<1> QED BY <1>1, <1>2, <1>3, <1>4, <1>5, <1>6, <1>7 DEF Inv, TypeOK, ViewsConsistent

(* The swap writes the value that was tested, or nothing.                  *)
LEMMA CompareExchange_Preserves ==
  ASSUME Inv, NEW w \in Workers, CompareExchange(w)
  PROVE  Inv'
<1> USE DEF CompareExchange, SetPc, dbVars, bookVars, blockVars, viewVars, NextOp
<1>0. ThreadConsistent(w) /\ tx[w] \in Txs /\ op_idx[w] \in Nat \ {0}
  BY Running
<1>00. pc[w] = "cas" /\ op_idx[w] =< Len(tx[w].ops)
  BY Running, TxFacts DEF ThreadConsistent
<1>0a. /\ op_idx[w] \in DOMAIN tx[w].ops
       /\ Op(w).amount \in Nat
       /\ Op(w).account \in AccountIDs
       /\ <<tx[w].source, Op(w).asset>> \in Keys
       /\ DebitKey(w) \in Keys
       /\ new_buffer(w) \in Int
  BY <1>00, CurrentOp
<1>0b. /\ available_buffer[w] \in [Keys -> Nat]
       /\ available_side_effects[w] \in [Keys -> Int]
       /\ \A k \in Keys : available_side_effects[w][k] =< 0
  BY ViewTypes
<1>0c. DebitedBuffer(w, 0) \in [Keys -> Nat]
  <2>1. [available_buffer[w] EXCEPT ![DebitKey(w)] = 0] \in [Keys -> Nat]
    BY <1>0a, <1>0b
  <2> QED BY <2>1, <1>00, CreditType DEF DebitedBuffer
<1>0d. new_buffer(w) < 0 /\ current_available[w] + new_buffer(w) >= 0 /\ current_available[w] \in Int
  BY <1>0, <1>00 DEF ThreadConsistent, Inv, TypeOK, ThreadTypeOK
<1> DEFINE se == [available_side_effects[w] EXCEPT ![DebitKey(w)] = @ + new_buffer(w)]
<1>0e. \/ /\ available' = [available EXCEPT ![DebitKey(w)] = current_available[w] + new_buffer(w)]
          /\ available_side_effects' = [available_side_effects EXCEPT ![w] = se]
          /\ available_buffer' = [available_buffer EXCEPT ![w] = DebitedBuffer(w, 0)]
       \/ UNCHANGED <<available, available_side_effects, available_buffer>>
  OBVIOUS
<1>0k. se \in [Keys -> Int] /\ \A k \in Keys : se[k] =< 0
  BY <1>0a, <1>0b, <1>0d
<1>0l. current_available[w] + new_buffer(w) \in Nat /\ available \in [Keys -> Nat]
  BY <1>0a, <1>0d DEF Inv, TypeOK, DbTypeOK, NoOverdraft
<1> HIDE DEF se, CompareExchange
<1>0f. /\ available_buffer' \in [Workers -> [Keys -> Int]]
       /\ available_buffer'[w] \in [Keys -> Nat]
       /\ \A v \in Workers : v # w => available_buffer'[v] = available_buffer[v]
  <2>1. CASE UNCHANGED available_buffer
    BY <2>1, <1>0b DEF Inv, TypeOK, ThreadTypeOK
  <2>2. CASE available_buffer' = [available_buffer EXCEPT ![w] = DebitedBuffer(w, 0)]
    BY <2>2, <1>0c DEF Inv, TypeOK, ThreadTypeOK
  <2> QED BY <1>0e, <2>1, <2>2
<1>0g. /\ available_side_effects' \in [Workers -> [Keys -> Int]]
       /\ \A k \in Keys : available_side_effects'[w][k] =< 0
       /\ \A v \in Workers : v # w => available_side_effects'[v] = available_side_effects[v]
  BY <1>0k, <1>0b, <1>0e DEF Inv, TypeOK, ThreadTypeOK
<1>0h. /\ available' \in [Keys -> Int]
       /\ \A k \in Keys : available'[k] >= 0
  BY <1>0a, <1>0l, <1>0e
<1> USE DEF CompareExchange
<1>0i. pc'[w] \in {"op", "debit"} /\ op_idx'[w] \in Nat /\ op_idx'[w] >= 1
  BY <1>0 DEF Inv, TypeOK, ThreadTypeOK
<1>0j. pc'[w] = "debit" => op_idx'[w] = op_idx[w]
  BY DEF Inv, TypeOK, ThreadTypeOK
<1>1. DbTypeOK'
  BY <1>0h DEF Inv, TypeOK, DbTypeOK
<1>2. BookTypeOK'
  BY DEF Inv, TypeOK, BookTypeOK
<1>3. BlockTypeOK'
  BY DEF Inv, TypeOK, BlockTypeOK
<1>4. ThreadTypeOK'
  <2>0. op_idx' = op_idx \/ op_idx' = [op_idx EXCEPT ![w] = @ + 1]
    OBVIOUS
  <2>1. op_idx' \in [Workers -> Nat]
    <3>1. op_idx \in [Workers -> Nat] /\ op_idx[w] + 1 \in Nat
      BY <1>0 DEF Inv, TypeOK, ThreadTypeOK
    <3> HIDE DEF CompareExchange, NextOp
    <3> QED BY <2>0, <3>1
  <2>2. pc' \in [Workers -> PcValues]
    BY DEF Inv, TypeOK, ThreadTypeOK, PcValues
  <2>3. UNCHANGED <<tx, new_accounts, current_available, todo>>
    OBVIOUS
  <2> QED BY <1>0f, <1>0g, <2>1, <2>2, <2>3 DEF Inv, TypeOK, ThreadTypeOK
<1>5. NoOverdraft'
  BY <1>0h DEF Inv, NoOverdraft
<1>6. ThreadConsistent(w)'
  BY <1>0, <1>00, <1>0a, <1>0f, <1>0g, <1>0i, <1>0j DEF ThreadConsistent
<1>7. ASSUME NEW v \in Workers, v # w
      PROVE  ThreadConsistent(v)'
  BY <1>7, OthersConsistent, <1>0f, <1>0g DEF Inv, ViewsConsistent, TypeOK, ThreadTypeOK
<1> QED BY <1>1, <1>2, <1>3, <1>4, <1>5, <1>6, <1>7 DEF Inv, TypeOK, ViewsConsistent

(* The decision to commit touches nothing shared.                          *)
LEMMA BeginCommit_Preserves ==
  ASSUME Inv, NEW w \in Workers, BeginCommit(w)
  PROVE  Inv'
<1> USE DEF BeginCommit, SetPc, dbVars, bookVars, blockVars, viewVars, OutsideCommit
<1>0. ThreadConsistent(w) /\ tx[w] \in Txs /\ op_idx[w] \in Nat \ {0}
  BY Running
<1>1. DbTypeOK'
  BY DEF Inv, TypeOK, DbTypeOK
<1>2. BookTypeOK'
  BY DEF Inv, TypeOK, BookTypeOK
<1>3. BlockTypeOK'
  BY DEF Inv, TypeOK, BlockTypeOK
<1>4. ThreadTypeOK'
  BY DEF Inv, TypeOK, ThreadTypeOK, PcValues
<1>5. NoOverdraft'
  BY DEF Inv, NoOverdraft
<1>6. ThreadConsistent(w)'
  BY <1>0 DEF ThreadConsistent, Inv, TypeOK, ThreadTypeOK
<1>7. ASSUME NEW v \in Workers, v # w
      PROVE  ThreadConsistent(v)'
  BY <1>7, OthersConsistent DEF Inv, ViewsConsistent, TypeOK, ThreadTypeOK
<1> QED BY <1>1, <1>2, <1>3, <1>4, <1>5, <1>6, <1>7 DEF Inv, TypeOK, ViewsConsistent

(* A commit adds non-negative buffers.                                     *)
LEMMA CommitCredit_Preserves ==
  ASSUME Inv, NEW w \in Workers, CommitCredit(w)
  PROVE  Inv'
<1> USE DEF CommitCredit, SetPc, dbVars, bookVars, blockVars, viewVars, OutsideCommit
<1>0. ThreadConsistent(w) /\ tx[w] \in Txs /\ op_idx[w] \in Nat \ {0}
  BY Running
<1>0a. available' \in [Keys -> Int] /\ \A k \in Keys : available'[k] >= 0
  <2>1. PICK k \in todo[w] : available' = [available EXCEPT ![k] = @ + available_buffer[w][k]]
    OBVIOUS
  <2>2. CASE k \in Keys
    <3>1. available \in [Keys -> Nat]
      BY DEF Inv, TypeOK, DbTypeOK, NoOverdraft
    <3> DEFINE sum == available[k] + available_buffer[w][k]
    <3>2. sum \in Nat
      BY <2>2, <3>1, ViewTypes
    <3>3. available' = [available EXCEPT ![k] = sum]
      BY <2>1
    <3> HIDE DEF sum
    <3>4. available' \in [Keys -> Nat]
      BY <2>2, <3>1, <3>2, <3>3
    <3> QED BY <3>4
  <2>3. CASE k \notin Keys
    BY <2>1, <2>3 DEF Inv, TypeOK, DbTypeOK, NoOverdraft
  <2> QED BY <2>2, <2>3
<1>1. DbTypeOK'
  BY <1>0a DEF Inv, TypeOK, DbTypeOK
<1>2. BookTypeOK'
  BY DEF Inv, TypeOK, BookTypeOK
<1>3. BlockTypeOK'
  BY DEF Inv, TypeOK, BlockTypeOK
<1>4. ThreadTypeOK'
  BY DEF Inv, TypeOK, ThreadTypeOK, PcValues
<1>5. NoOverdraft'
  BY <1>0a DEF Inv, NoOverdraft
<1>6. ThreadConsistent(w)'
  BY <1>0 DEF ThreadConsistent, Inv, TypeOK, ThreadTypeOK
<1>7. ASSUME NEW v \in Workers, v # w
      PROVE  ThreadConsistent(v)'
  BY <1>7, OthersConsistent DEF Inv, ViewsConsistent, TypeOK, ThreadTypeOK
<1> QED BY <1>1, <1>2, <1>3, <1>4, <1>5, <1>6, <1>7 DEF Inv, TypeOK, ViewsConsistent

(* The new accounts are committed after the credits.                       *)
LEMMA BeginCreation_Preserves ==
  ASSUME Inv, NEW w \in Workers, BeginCreation(w)
  PROVE  Inv'
<1> USE DEF BeginCreation, SetPc, dbVars, bookVars, blockVars, viewVars, OutsideCommit
<1>0. ThreadConsistent(w) /\ tx[w] \in Txs /\ op_idx[w] \in Nat \ {0}
  BY Running
<1>1. DbTypeOK'
  BY DEF Inv, TypeOK, DbTypeOK
<1>2. BookTypeOK'
  BY DEF Inv, TypeOK, BookTypeOK
<1>3. BlockTypeOK'
  BY DEF Inv, TypeOK, BlockTypeOK
<1>4. ThreadTypeOK'
  BY DEF Inv, TypeOK, ThreadTypeOK, PcValues
<1>5. NoOverdraft'
  BY DEF Inv, NoOverdraft
<1>6. ThreadConsistent(w)'
  BY <1>0 DEF ThreadConsistent, Inv, TypeOK, ThreadTypeOK
<1>7. ASSUME NEW v \in Workers, v # w
      PROVE  ThreadConsistent(v)'
  BY <1>7, OthersConsistent DEF Inv, ViewsConsistent, TypeOK, ThreadTypeOK
<1> QED BY <1>1, <1>2, <1>3, <1>4, <1>5, <1>6, <1>7 DEF Inv, TypeOK, ViewsConsistent

(* A new account enters the database with the content of its buffer.       *)
LEMMA commit_account_creation_Preserves ==
  ASSUME Inv, NEW w \in Workers, commit_account_creation(w)
  PROVE  Inv'
<1> USE DEF commit_account_creation, SetPc, dbVars, bookVars, blockVars, viewVars, OutsideCommit
<1>0. ThreadConsistent(w) /\ tx[w] \in Txs /\ op_idx[w] \in Nat \ {0}
  BY Running
<1>0a. PICK n \in todo[w] : uncommitted_db' = Append(uncommitted_db,
            [owner   |-> new_accounts[w][n],
             balance |-> [x \in Assets |-> available_buffer[w][<<new_accounts[w][n], x>>]]])
  OBVIOUS
<1>0b. new_accounts[w][n] \in AccountIDs
  BY <1>0 DEF ThreadConsistent, Inv, TypeOK, ThreadTypeOK
<1> DEFINE bal == [x \in Assets |-> available_buffer[w][<<new_accounts[w][n], x>>]]
           entry == [owner |-> new_accounts[w][n], balance |-> bal]
<1>0c. bal \in [Assets -> Nat]
  <2>1. \A x \in Assets : <<new_accounts[w][n], x>> \in Keys
    BY <1>0b DEF Keys
  <2> QED BY <2>1, ViewTypes
<1> HIDE DEF bal
<1>0d. /\ uncommitted_db' = Append(uncommitted_db, entry)
       /\ entry \in [owner : AccountIDs, balance : [Assets -> Int]]
       /\ \A x \in Assets : entry.balance[x] >= 0
  BY <1>0a, <1>0b, <1>0c DEF bal
<1> HIDE DEF entry
<1>1. DbTypeOK'
  BY <1>0d DEF Inv, TypeOK, DbTypeOK
<1>2. BookTypeOK'
  BY DEF Inv, TypeOK, BookTypeOK
<1>3. BlockTypeOK'
  BY DEF Inv, TypeOK, BlockTypeOK
<1>4. ThreadTypeOK'
  BY DEF Inv, TypeOK, ThreadTypeOK, PcValues
<1>5. NoOverdraft'
  <2>1. uncommitted_db \in Seq([owner : AccountIDs, balance : [Assets -> Int]])
    BY DEF Inv, TypeOK, DbTypeOK
  <2>2. ASSUME NEW m \in DOMAIN uncommitted_db', NEW x \in Assets
        PROVE  uncommitted_db'[m].balance[x] >= 0
    BY <1>0d, <2>1 DEF Inv, NoOverdraft
  <2> QED BY <2>2 DEF Inv, NoOverdraft
<1>6. ThreadConsistent(w)'
  BY <1>0 DEF ThreadConsistent, Inv, TypeOK, ThreadTypeOK
<1>7. ASSUME NEW v \in Workers, v # w
      PROVE  ThreadConsistent(v)'
  BY <1>7, OthersConsistent DEF Inv, ViewsConsistent, TypeOK, ThreadTypeOK
<1> QED BY <1>1, <1>2, <1>3, <1>4, <1>5, <1>6, <1>7 DEF Inv, TypeOK, ViewsConsistent

(* A transaction that succeeds leaves its thread idle.                     *)
LEMMA FinishTransaction_Preserves ==
  ASSUME Inv, NEW w \in Workers, FinishTransaction(w)
  PROVE  Inv'
<1> USE DEF FinishTransaction, SetPc, dbVars, bookVars, blockVars, viewVars
<1>0. ThreadConsistent(w) /\ tx[w] \in Txs /\ op_idx[w] \in Nat \ {0}
  BY Running
<1>0b. /\ pc'[w] = "idle"
       /\ available_buffer'[w] = Zero /\ available_side_effects'[w] = Zero
  BY DEF Return, Inv, TypeOK, ThreadTypeOK
<1>1. DbTypeOK'
  BY DEF Inv, TypeOK, DbTypeOK
<1>2. BookTypeOK'
  BY DEF Inv, TypeOK, BookTypeOK
<1>3. BlockTypeOK'
  <2>1. tx[w] \in tried
    BY <1>0 DEF ThreadConsistent
  <2>2. log_modified_accounts(tx[w]) \subseteq AccountIDs
    BY <1>0, TxFacts DEF log_modified_accounts
  <2> QED BY <2>1, <2>2 DEF Inv, TypeOK, BlockTypeOK
<1>4. ThreadTypeOK'
  BY DEF Return, Inv, TypeOK, ThreadTypeOK, PcValues, Zero
<1>5. NoOverdraft'
  BY DEF Inv, NoOverdraft
<1>6. ThreadConsistent(w)'
  BY <1>0b DEF ThreadConsistent, Zero
<1>7. ASSUME NEW v \in Workers, v # w
      PROVE  ThreadConsistent(v)'
  BY <1>7, OthersConsistent DEF Return, Inv, ViewsConsistent, TypeOK, ThreadTypeOK
<1> QED BY <1>1, <1>2, <1>3, <1>4, <1>5, <1>6, <1>7 DEF Inv, TypeOK, ViewsConsistent

(* Taking back an operation never touches a balance.                       *)
LEMMA unwind_operation_Preserves ==
  ASSUME Inv, NEW w \in Workers, unwind_operation(w)
  PROVE  Inv'
<1> USE DEF unwind_operation, SetPc, dbVars, bookVars, blockVars, viewVars, OutsideUnwind, undelete_offer
<1>0. ThreadConsistent(w) /\ tx[w] \in Txs /\ op_idx[w] \in Nat \ {0}
  BY Running
<1>1. DbTypeOK'
  BY DEF Inv, TypeOK, DbTypeOK
<1>2. BookTypeOK'
  <2> DEFINE i == op_idx[w] - 1
  <2>1. marked' \subseteq marked
    OBVIOUS
  <2>2. \/ new_offers' = new_offers
        \/ new_offers' = [new_offers EXCEPT ![w] = @ \ {OfferMade(tx[w], i)}]
        \/ new_offers' = [new_offers EXCEPT ![w] = @]
    OBVIOUS
  <2> QED BY <2>1, <2>2 DEF Inv, TypeOK, BookTypeOK
<1>3. BlockTypeOK'
  BY DEF Inv, TypeOK, BlockTypeOK
<1>4. ThreadTypeOK'
  <2>1. op_idx[w] - 1 \in Nat
    BY <1>0
  <2>2. op_idx' = op_idx \/ op_idx' = [op_idx EXCEPT ![w] = op_idx[w] - 1]
    OBVIOUS
  <2>3. op_idx' \in [Workers -> Nat]
    BY <2>1, <2>2 DEF Inv, TypeOK, ThreadTypeOK
  <2> QED BY <2>3 DEF Inv, TypeOK, ThreadTypeOK, PcValues
<1>5. NoOverdraft'
  BY DEF Inv, NoOverdraft
<1>6. ThreadConsistent(w)'
  BY <1>0 DEF ThreadConsistent, Inv, TypeOK, ThreadTypeOK
<1>7. ASSUME NEW v \in Workers, v # w
      PROVE  ThreadConsistent(v)'
  BY <1>7, OthersConsistent DEF Inv, ViewsConsistent, TypeOK, ThreadTypeOK
<1> QED BY <1>1, <1>2, <1>3, <1>4, <1>5, <1>6, <1>7 DEF Inv, TypeOK, ViewsConsistent

(* The side effects to give back are those of the view.                    *)
LEMMA BeginReturn_Preserves ==
  ASSUME Inv, NEW w \in Workers, BeginReturn(w)
  PROVE  Inv'
<1> USE DEF BeginReturn, SetPc, dbVars, bookVars, blockVars, viewVars, OutsideUnwind
<1>0. ThreadConsistent(w) /\ tx[w] \in Txs /\ op_idx[w] \in Nat \ {0}
  BY Running
<1>1. DbTypeOK'
  BY DEF Inv, TypeOK, DbTypeOK
<1>2. BookTypeOK'
  BY DEF Inv, TypeOK, BookTypeOK
<1>3. BlockTypeOK'
  BY DEF Inv, TypeOK, BlockTypeOK
<1>4. ThreadTypeOK'
  BY DEF Inv, TypeOK, ThreadTypeOK, PcValues
<1>5. NoOverdraft'
  BY DEF Inv, NoOverdraft
<1>6. ThreadConsistent(w)'
  BY <1>0 DEF ThreadConsistent, Inv, TypeOK, ThreadTypeOK
<1>7. ASSUME NEW v \in Workers, v # w
      PROVE  ThreadConsistent(v)'
  BY <1>7, OthersConsistent DEF Inv, ViewsConsistent, TypeOK, ThreadTypeOK
<1> QED BY <1>1, <1>2, <1>3, <1>4, <1>5, <1>6, <1>7 DEF Inv, TypeOK, ViewsConsistent

(* An unwind gives back: it subtracts side effects that are not positive.  *)
LEMMA ReturnDebit_Preserves ==
  ASSUME Inv, NEW w \in Workers, ReturnDebit(w)
  PROVE  Inv'
<1> USE DEF ReturnDebit, SetPc, dbVars, bookVars, blockVars, viewVars, OutsideUnwind
<1>0. ThreadConsistent(w) /\ tx[w] \in Txs /\ op_idx[w] \in Nat \ {0}
  BY Running
<1>0a. available' \in [Keys -> Int] /\ \A k \in Keys : available'[k] >= 0
  <2>1. PICK k \in todo[w] : available' = [available EXCEPT ![k] = @ - available_side_effects[w][k]]
    OBVIOUS
  <2>2. CASE k \in Keys
    <3>1. available \in [Keys -> Nat]
      BY DEF Inv, TypeOK, DbTypeOK, NoOverdraft
    <3> DEFINE sum == available[k] - available_side_effects[w][k]
    <3>2. sum \in Nat
      BY <2>2, <3>1, ViewTypes
    <3>3. available' = [available EXCEPT ![k] = sum]
      BY <2>1
    <3> HIDE DEF sum
    <3>4. available' \in [Keys -> Nat]
      BY <2>2, <3>1, <3>2, <3>3
    <3> QED BY <3>4
  <2>3. CASE k \notin Keys
    BY <2>1, <2>3 DEF Inv, TypeOK, DbTypeOK, NoOverdraft
  <2> QED BY <2>2, <2>3
<1>1. DbTypeOK'
  BY <1>0a DEF Inv, TypeOK, DbTypeOK
<1>2. BookTypeOK'
  BY DEF Inv, TypeOK, BookTypeOK
<1>3. BlockTypeOK'
  BY DEF Inv, TypeOK, BlockTypeOK
<1>4. ThreadTypeOK'
  BY DEF Inv, TypeOK, ThreadTypeOK, PcValues
<1>5. NoOverdraft'
  BY <1>0a DEF Inv, NoOverdraft
<1>6. ThreadConsistent(w)'
  BY <1>0 DEF ThreadConsistent, Inv, TypeOK, ThreadTypeOK
<1>7. ASSUME NEW v \in Workers, v # w
      PROVE  ThreadConsistent(v)'
  BY <1>7, OthersConsistent DEF Inv, ViewsConsistent, TypeOK, ThreadTypeOK
<1> QED BY <1>1, <1>2, <1>3, <1>4, <1>5, <1>6, <1>7 DEF Inv, TypeOK, ViewsConsistent

(* The keys of new_accounts are indices of the database.                   *)
LEMMA BeginRelease_Preserves ==
  ASSUME Inv, NEW w \in Workers, BeginRelease(w)
  PROVE  Inv'
<1> USE DEF BeginRelease, SetPc, dbVars, bookVars, blockVars, viewVars, OutsideUnwind
<1>0. ThreadConsistent(w) /\ tx[w] \in Txs /\ op_idx[w] \in Nat \ {0}
  BY Running
<1>1. DbTypeOK'
  BY DEF Inv, TypeOK, DbTypeOK
<1>2. BookTypeOK'
  BY DEF Inv, TypeOK, BookTypeOK
<1>3. BlockTypeOK'
  BY DEF Inv, TypeOK, BlockTypeOK
<1>4. ThreadTypeOK'
  <2>1. \A n \in DOMAIN new_accounts[w] : db_size + n - 1 \in Nat
    BY DEF Inv, TypeOK, ThreadTypeOK, DbTypeOK
  <2> QED BY <2>1 DEF Inv, TypeOK, ThreadTypeOK, PcValues
<1>5. NoOverdraft'
  BY DEF Inv, NoOverdraft
<1>6. ThreadConsistent(w)'
  BY <1>0 DEF ThreadConsistent, Inv, TypeOK, ThreadTypeOK
<1>7. ASSUME NEW v \in Workers, v # w
      PROVE  ThreadConsistent(v)'
  BY <1>7, OthersConsistent DEF Inv, ViewsConsistent, TypeOK, ThreadTypeOK
<1> QED BY <1>1, <1>2, <1>3, <1>4, <1>5, <1>6, <1>7 DEF Inv, TypeOK, ViewsConsistent

(* A release only shrinks the set of reserved ids.                         *)
LEMMA release_account_creation_Preserves ==
  ASSUME Inv, NEW w \in Workers, release_account_creation(w)
  PROVE  Inv'
<1> USE DEF release_account_creation, SetPc, dbVars, bookVars, blockVars, viewVars, OutsideUnwind
<1>0. ThreadConsistent(w) /\ tx[w] \in Txs /\ op_idx[w] \in Nat \ {0}
  BY Running
<1>1. DbTypeOK'
  <2>1. misreleased' \subseteq AccountIDs
    <3>1. HeldIDs \subseteq AccountIDs
      <4>1. \A v \in Workers : NewAccountIDs(v) \subseteq AccountIDs
        BY DEF NewAccountIDs, Inv, TypeOK, ThreadTypeOK
      <4>2. \A n \in DOMAIN uncommitted_db : uncommitted_db[n].owner \in AccountIDs
        <5> DEFINE Entry == [owner : AccountIDs, balance : [Assets -> Int]]
        <5>1. uncommitted_db \in Seq(Entry)
          BY DEF Inv, TypeOK, DbTypeOK
        <5>2. \A n \in DOMAIN uncommitted_db : uncommitted_db[n] \in Entry
          <6> HIDE DEF Entry
          <6> QED BY <5>1
        <5> QED BY <5>2
      <4> QED BY <4>1, <4>2 DEF HeldIDs
    <3>2. misreleased' \subseteq misreleased \union HeldIDs
      OBVIOUS
    <3> QED BY <3>1, <3>2 DEF Inv, TypeOK, DbTypeOK
  <2> QED BY <2>1 DEF Inv, TypeOK, DbTypeOK
<1>2. BookTypeOK'
  BY DEF Inv, TypeOK, BookTypeOK
<1>3. BlockTypeOK'
  BY DEF Inv, TypeOK, BlockTypeOK
<1>4. ThreadTypeOK'
  BY DEF Inv, TypeOK, ThreadTypeOK, PcValues
<1>5. NoOverdraft'
  BY DEF Inv, NoOverdraft
<1>6. ThreadConsistent(w)'
  BY <1>0 DEF ThreadConsistent, Inv, TypeOK, ThreadTypeOK
<1>7. ASSUME NEW v \in Workers, v # w
      PROVE  ThreadConsistent(v)'
  BY <1>7, OthersConsistent DEF Inv, ViewsConsistent, TypeOK, ThreadTypeOK
<1> QED BY <1>1, <1>2, <1>3, <1>4, <1>5, <1>6, <1>7 DEF Inv, TypeOK, ViewsConsistent

(* A transaction that fails leaves its thread idle, or ends the process.   *)
LEMMA AbortTransaction_Preserves ==
  ASSUME Inv, NEW w \in Workers, AbortTransaction(w)
  PROVE  Inv'
<1> USE DEF AbortTransaction, SetPc, dbVars, bookVars, blockVars, viewVars
<1>0. ThreadConsistent(w) /\ tx[w] \in Txs /\ op_idx[w] \in Nat \ {0}
  BY Running
<1>1. CASE release_throws(tx[w].seq, last_committed_id[tx[w].source])
  <2>1. /\ pc' = [pc EXCEPT ![w] = "threw"]
        /\ UNCHANGED <<dbVars, available, sequence_number_vec, reserved_account_ids,
                       uncommitted_db, bookVars, blockVars, tx, op_idx, viewVars,
                       current_available, todo>>
    BY <1>1
  <2>2. DbTypeOK' /\ BookTypeOK'
    BY <2>1 DEF Inv, TypeOK, DbTypeOK, BookTypeOK
  <2>3. BlockTypeOK' /\ ThreadTypeOK'
    BY <2>1 DEF Inv, TypeOK, BlockTypeOK, ThreadTypeOK, PcValues
  <2>4. NoOverdraft'
    BY <2>1 DEF Inv, NoOverdraft
  <2>5. ThreadConsistent(w)'
    BY <2>1, <1>0 DEF ThreadConsistent, Inv, TypeOK, ThreadTypeOK
  <2>6. ASSUME NEW v \in Workers, v # w
        PROVE  ThreadConsistent(v)'
    BY <2>1, <2>6, OthersConsistent DEF Inv, ViewsConsistent, TypeOK, ThreadTypeOK
  <2> QED BY <2>2, <2>3, <2>4, <2>5, <2>6 DEF Inv, TypeOK, ViewsConsistent
<1>2. CASE ~ release_throws(tx[w].seq, last_committed_id[tx[w].source])
  <2> DEFINE src == tx[w].source
             bit == get_seq_num_offset(tx[w].seq, last_committed_id[src])
  <2>1. /\ sequence_number_vec' = [sequence_number_vec EXCEPT ![src] = @ \ {bit}]
        /\ to_remove' \subseteq to_remove \union {tx[w]}
        /\ Return(w)
        /\ UNCHANGED <<dbVars, available, uncommitted_db, reserved_account_ids,
                       bookVars, account_log, mempool, tried, confirmed, block, todo>>
    BY <1>2
  <2> HIDE DEF src, bit, AbortTransaction
  <2>2. DbTypeOK' /\ BookTypeOK'
    BY <2>1 DEF Inv, TypeOK, DbTypeOK, BookTypeOK
  <2>3. BlockTypeOK'
    BY <2>1, <1>0 DEF Inv, TypeOK, BlockTypeOK, ThreadConsistent, AbortTransaction
  <2>4. ThreadTypeOK'
    BY <2>1 DEF Return, Inv, TypeOK, ThreadTypeOK, PcValues, Zero
  <2>5. NoOverdraft'
    BY <2>1 DEF Inv, NoOverdraft
  <2>6. ThreadConsistent(w)'
    <3>1. /\ pc'[w] = "idle"
          /\ available_buffer'[w] = Zero /\ available_side_effects'[w] = Zero
      BY <2>1 DEF Return, Inv, TypeOK, ThreadTypeOK
    <3> QED BY <3>1 DEF ThreadConsistent, Zero
  <2>7. ASSUME NEW v \in Workers, v # w
        PROVE  ThreadConsistent(v)'
    BY <2>1, <2>7, OthersConsistent DEF Return, Inv, ViewsConsistent, TypeOK, ThreadTypeOK
  <2> QED BY <2>2, <2>3, <2>4, <2>5, <2>6, <2>7 DEF Inv, TypeOK, ViewsConsistent
<1> QED BY <1>1, <1>2

(* Looking at a transaction reserves a bit of the vector.                  *)
LEMMA process_transaction_begin_Preserves ==
  ASSUME Inv, NEW w \in Workers, NEW t \in Txs, process_transaction_begin(w, t)
  PROVE  Inv'
<1> USE DEF process_transaction_begin, SetPc, dbVars, bookVars, viewVars
<1> DEFINE last == last_committed_id[t.source]
           bv == sequence_number_vec[t.source]
           bit == get_seq_num_offset(t.seq, last)
<1>0. /\ t.source \in AccountIDs /\ t.seq \in Nat
      /\ last \in Nat /\ bit \in Nat
  BY TxFacts, OffsetType DEF Inv, TypeOK, DbTypeOK
<1>1. \/ /\ reserve_status(t.seq, last, bv) = "SUCCESS"
         /\ sequence_number_vec' = [sequence_number_vec EXCEPT ![t.source] = @ \union {bit}]
         /\ tx' = [tx EXCEPT ![w] = t]
         /\ op_idx' = [op_idx EXCEPT ![w] = 1]
         /\ pc' = [pc EXCEPT ![w] = "op"]
         /\ UNCHANGED to_remove
      \/ /\ to_remove' \in {to_remove, to_remove \union {t}}
         /\ UNCHANGED <<sequence_number_vec, tx, op_idx, pc>>
  OBVIOUS
<1>2. reserve_status(t.seq, last, bv) = "SUCCESS" => bit \in Bits
  BY <1>0, WidthAssumption DEF reserve_status, Bits
<1> HIDE DEF last, bv, bit
<1>3. /\ t \in mempool /\ tried' = tried \union {t}
      /\ UNCHANGED <<dbVars, available, reserved_account_ids, uncommitted_db,
                     bookVars, account_log, mempool, confirmed, block,
                     viewVars, current_available, todo>>
  OBVIOUS
<1> HIDE DEF process_transaction_begin
<1>4. sequence_number_vec' \in [AccountIDs -> SUBSET Bits]
  <2>1. CASE UNCHANGED sequence_number_vec
    BY <2>1 DEF Inv, TypeOK, DbTypeOK
  <2>2. CASE /\ bit \in Bits
             /\ sequence_number_vec' = [sequence_number_vec EXCEPT ![t.source] = @ \union {bit}]
    BY <2>2, <1>0 DEF Inv, TypeOK, DbTypeOK
  <2> QED BY <1>1, <1>2, <2>1, <2>2
<1>5. DbTypeOK' /\ BookTypeOK'
  BY <1>3, <1>4 DEF Inv, TypeOK, DbTypeOK, BookTypeOK
<1>6. BlockTypeOK'
  BY <1>1, <1>3 DEF Inv, TypeOK, BlockTypeOK
<1>7. ThreadTypeOK'
  <2>1. CASE UNCHANGED <<tx, op_idx, pc>>
    BY <2>1, <1>3 DEF Inv, TypeOK, ThreadTypeOK
  <2>2. CASE /\ tx' = [tx EXCEPT ![w] = t]
             /\ op_idx' = [op_idx EXCEPT ![w] = 1]
             /\ pc' = [pc EXCEPT ![w] = "op"]
    BY <2>2, <1>3 DEF Inv, TypeOK, ThreadTypeOK, PcValues
  <2> QED BY <1>1, <2>1, <2>2
<1>8. NoOverdraft'
  BY <1>3 DEF Inv, NoOverdraft
<1>9. ThreadConsistent(w)'
  <2>1. CASE pc' = [pc EXCEPT ![w] = "op"] /\ tx' = [tx EXCEPT ![w] = t]
               /\ op_idx' = [op_idx EXCEPT ![w] = 1]
    <3>1. pc'[w] = "op" /\ tx'[w] = t /\ op_idx'[w] = 1
      BY <2>1 DEF Inv, TypeOK, ThreadTypeOK
    <3>2. \A k \in Keys : available_buffer'[w][k] >= 0 /\ available_side_effects'[w][k] =< 0
      BY <1>3 DEF Inv, ViewsConsistent, ThreadConsistent
    <3> QED BY <1>3, <3>1, <3>2 DEF ThreadConsistent
  <2>2. CASE UNCHANGED <<tx, op_idx, pc>>
    BY <1>3, <2>2, OthersConsistent DEF Inv, ViewsConsistent
  <2> QED BY <1>1, <2>1, <2>2
<1>10. ASSUME NEW v \in Workers, v # w
       PROVE  ThreadConsistent(v)'
  BY <1>1, <1>3, <1>10, OthersConsistent DEF Inv, ViewsConsistent, TypeOK, ThreadTypeOK
<1> QED BY <1>5, <1>6, <1>7, <1>8, <1>9, <1>10 DEF Inv, TypeOK, ViewsConsistent

(* The commit of a block copies balances that are not negative.            *)
LEMMA CommitBlock_Preserves ==
  ASSUME Inv, CommitBlock
  PROVE  Inv'
<1>1. ASSUME NEW n \in DOMAIN uncommitted_db
      PROVE  /\ uncommitted_db[n].owner \in AccountIDs
             /\ \A x \in Assets : uncommitted_db[n].balance[x] \in Nat
  <2> DEFINE Entry == [owner : AccountIDs, balance : [Assets -> Int]]
  <2>1. uncommitted_db \in Seq(Entry)
    BY DEF Inv, TypeOK, DbTypeOK
  <2>2. uncommitted_db[n] \in Entry
    <3> HIDE DEF Entry
    <3> QED BY <2>1
  <2> QED BY <2>2 DEF Inv, NoOverdraft
<1> USE DEF CommitBlock, viewVars
<1>2. commit_new_accounts \in [Keys -> Nat]
  <2>1. \A k \in Keys : available[k] \in Nat
    BY DEF Inv, TypeOK, DbTypeOK, NoOverdraft
  <2>2. ASSUME NEW k \in Keys, \E n \in FirstEntries : uncommitted_db[n].owner = k[1]
        PROVE  LET n == CHOOSE m \in FirstEntries : uncommitted_db[m].owner = k[1]
               IN  uncommitted_db[n].balance[k[2]] \in Nat
    <3>1. (CHOOSE m \in FirstEntries : uncommitted_db[m].owner = k[1]) \in DOMAIN uncommitted_db
      BY <2>2 DEF FirstEntries
    <3> QED BY <3>1, <1>1, KeyFacts
  <2> QED BY <2>1, <2>2 DEF commit_new_accounts
<1>3. DbTypeOK'
  <2>1. user_ids' \subseteq AccountIDs
    BY <1>1 DEF FirstEntries, Inv, TypeOK, DbTypeOK
  <2>2. db_size' \in Nat
    BY DEF Inv, TypeOK, DbTypeOK
  <2>3. available' \in [Keys -> Int] /\ committed_available' \in [Keys -> Int]
    BY <1>2 DEF Inv, TypeOK, DbTypeOK
  <2>4. last_committed_id' \in [AccountIDs -> Nat]
    <3>1. \A a \in AccountIDs : get_seq_num_increment(sequence_number_vec[a]) \in Nat
      BY IncrementBounds DEF Inv, TypeOK, DbTypeOK
    <3> QED BY <3>1 DEF Inv, TypeOK, DbTypeOK
  <2>5. sequence_number_vec' \in [AccountIDs -> SUBSET Bits]
    BY DEF Inv, TypeOK, DbTypeOK
  <2>6. reserved_account_ids' \subseteq AccountIDs /\ uncommitted_db' = << >>
    OBVIOUS
  <2> QED BY <2>1, <2>2, <2>3, <2>4, <2>5, <2>6 DEF DbTypeOK
<1>4. BookTypeOK'
  BY DEF Inv, TypeOK, BookTypeOK
<1>5. BlockTypeOK'
  BY ConstantsAssumption DEF Inv, TypeOK, BlockTypeOK
<1>6. ThreadTypeOK'
  BY DEF Inv, TypeOK, ThreadTypeOK
<1>7. NoOverdraft'
  BY <1>2 DEF Inv, NoOverdraft
<1>8. ViewsConsistent'
  BY DEF Quiescent, Inv, ViewsConsistent, ThreadConsistent, TypeOK, ThreadTypeOK
<1> QED BY <1>3, <1>4, <1>5, <1>6, <1>7, <1>8 DEF Inv, TypeOK

(* Inv is inductive.                                                       *)
THEOREM InvInductive == Inv /\ [Next]_vars => Inv'
<1> SUFFICES ASSUME Inv, [Next]_vars PROVE Inv'
  OBVIOUS
<1>1. ASSUME NEW w \in Workers, Step(w) PROVE Inv'
  BY <1>1, process_transaction_begin_Preserves, process_create_account_Preserves,
     process_create_sell_offer_Preserves, process_cancel_sell_offer_Preserves,
     process_payment_Preserves, process_money_printer_Preserves,
     DebitFromBuffer_Preserves, LoadBalance_Preserves, CompareExchange_Preserves,
     BeginCommit_Preserves, CommitCredit_Preserves, BeginCreation_Preserves,
     commit_account_creation_Preserves, FinishTransaction_Preserves,
     unwind_operation_Preserves, BeginReturn_Preserves, ReturnDebit_Preserves,
     BeginRelease_Preserves, release_account_creation_Preserves,
     AbortTransaction_Preserves
  DEF Step
<1>2. CASE CommitBlock
  BY <1>2, CommitBlock_Preserves
<1>3. CASE UNCHANGED vars
  <2>1. TypeOK'
    BY <1>3 DEF vars, dbVars, bookVars, blockVars, viewVars, Inv, TypeOK, DbTypeOK,
                BookTypeOK, BlockTypeOK, ThreadTypeOK
  <2>2. NoOverdraft'
    BY <1>3 DEF vars, dbVars, Inv, NoOverdraft
  <2>3. ViewsConsistent'
    BY <1>3, OthersConsistent DEF vars, blockVars, viewVars, Inv, ViewsConsistent
  <2> QED BY <2>1, <2>2, <2>3 DEF Inv
<1> QED BY <1>1, <1>2, <1>3 DEF Next, Done

(* Type correctness of block production.                                   *)
THEOREM TypeCorrect == Spec => []TypeOK
<1>1. Inv => TypeOK
  BY DEF Inv
<1> QED BY <1>1, Initially, InvInductive, PTL DEF Spec

(* No interleaving of any number of threads ever overdraws an account: the *)
(* compare-and-swap loop tests the value it replaces, everything else adds.*)
THEOREM NoOverdraftHolds == Spec => []NoOverdraft
<1>1. Inv => NoOverdraft
  BY DEF Inv
<1> QED BY <1>1, Initially, InvInductive, PTL DEF Spec

(* What the comments of UserAccountView promise of buffers and side        *)
(* effects holds in every view, at every step.                             *)
THEOREM ViewsConsistentHolds == Spec => []ViewsConsistent
<1>1. Inv => ViewsConsistent
  BY DEF Inv
<1> QED BY <1>1, Initially, InvInductive, PTL DEF Spec

-----------------------------------------------------------------------------
(* Sequence numbers.  A transaction that runs or is in the block holds a   *)
(* bit of its source's vector, and every bit that is set is held so.       *)

Busy == {w \in Workers : pc[w] # "idle"}

Slot(t) == <<t.source, get_seq_num_offset(t.seq, last_committed_id[t.source])>>

HoldsSlot(t) ==
  /\ t.source \in user_ids
  /\ t.seq > last_committed_id[t.source]
  /\ Slot(t)[2] \in sequence_number_vec[t.source]

SlotsHeld ==
  /\ \A w \in Busy : HoldsSlot(tx[w])
  /\ \A t \in confirmed : HoldsSlot(t) /\ t.source \in account_log

SlotsExclusive ==
  /\ \A v, w \in Busy : v # w => Slot(tx[v]) # Slot(tx[w])
  /\ \A w \in Busy : \A t \in confirmed : Slot(tx[w]) # Slot(t)
  /\ \A t, u \in confirmed : t # u => Slot(t) # Slot(u)

BitsHeld ==
  \A a \in AccountIDs : \A b \in sequence_number_vec[a] :
    \/ \E w \in Busy : Slot(tx[w]) = <<a, b>>
    \/ \E t \in confirmed : Slot(t) = <<a, b>>

SlotsInv == SlotsHeld /\ SlotsExclusive /\ BitsHeld

-----------------------------------------------------------------------------
(* A step between the reservation of the sequence number and the return of *)
(* process_transaction.                                                    *)
Middle(w) ==
  /\ pc[w] # "idle" /\ pc'[w] # "idle"
  /\ \A v \in Workers \ {w} : pc'[v] = pc[v]
  /\ UNCHANGED <<user_ids, committed_available, last_committed_id, sequence_number_vec,
                 tx, account_log, confirmed, spent>>

(* Every step of a thread begins a transaction, ends one or is in the      *)
(* middle of one.                                                          *)
LEMMA StepKinds ==
  ASSUME Inv, NEW w \in Workers, Step(w)
  PROVE  \/ Middle(w) \/ FinishTransaction(w) \/ AbortTransaction(w)
         \/ \E t \in Txs : process_transaction_begin(w, t)
<1> USE DEF Middle, Inv, TypeOK, ThreadTypeOK, SetPc, dbVars, blockVars, OutsideOp, OutsideCommit, OutsideUnwind,
            OpReady, Fail, NextOp
<1>1. CASE process_create_account(w)
  BY <1>1 DEF process_create_account
<1>2. CASE process_create_sell_offer(w)
  BY <1>2 DEF process_create_sell_offer
<1>3. CASE process_cancel_sell_offer(w)
  BY <1>3 DEF process_cancel_sell_offer
<1>4. CASE process_payment(w)
  BY <1>4 DEF process_payment
<1>5. CASE process_money_printer(w)
  BY <1>5 DEF process_money_printer
<1>6. CASE DebitFromBuffer(w)
  BY <1>6 DEF DebitFromBuffer
<1>7. CASE LoadBalance(w)
  BY <1>7 DEF LoadBalance
<1>8. CASE CompareExchange(w)
  BY <1>8 DEF CompareExchange
<1>9. CASE BeginCommit(w)
  BY <1>9 DEF BeginCommit
<1>10. CASE CommitCredit(w)
  BY <1>10 DEF CommitCredit
<1>11. CASE BeginCreation(w)
  BY <1>11 DEF BeginCreation
<1>12. CASE commit_account_creation(w)
  BY <1>12 DEF commit_account_creation
<1>13. CASE unwind_operation(w)
  BY <1>13 DEF unwind_operation
<1>14. CASE BeginReturn(w)
  BY <1>14 DEF BeginReturn
<1>15. CASE ReturnDebit(w)
  BY <1>15 DEF ReturnDebit
<1>16. CASE BeginRelease(w)
  BY <1>16 DEF BeginRelease
<1>17. CASE release_account_creation(w)
  BY <1>17 DEF release_account_creation
<1> QED BY <1>1, <1>2, <1>3, <1>4, <1>5, <1>6, <1>7, <1>8, <1>9, <1>10, <1>11, <1>12, <1>13, <1>14, <1>15, <1>16, <1>17 DEF Step

(* A slot is a key of one of the vectors.                                  *)
LEMMA SlotFacts ==
  ASSUME Inv, NEW t \in Txs
  PROVE  /\ Slot(t)[1] = t.source
         /\ Slot(t)[2] = get_seq_num_offset(t.seq, last_committed_id[t.source])
         /\ t.source \in AccountIDs /\ t.seq \in Nat /\ last_committed_id[t.source] \in Nat
  BY TxFacts DEF Slot, Inv, TypeOK, DbTypeOK

(* Nothing about the slots changes in the middle of a transaction.         *)
LEMMA Middle_SlotsInv ==
  ASSUME Inv, SlotsInv, NEW w \in Workers, Middle(w)
  PROVE  SlotsInv'
<1>1. Busy' = Busy
  BY DEF Busy, Middle
<1>2. \A t : Slot(t)' = Slot(t)
  BY DEF Middle, Slot
<1>3. \A t : HoldsSlot(t)' = HoldsSlot(t)
  BY <1>2 DEF HoldsSlot, Middle
<1>4. SlotsHeld'
  BY <1>1, <1>3 DEF SlotsInv, SlotsHeld, Middle
<1>5. SlotsExclusive'
  BY <1>1, <1>2 DEF SlotsInv, SlotsExclusive, Middle
<1>6. BitsHeld'
  BY <1>1, <1>2 DEF SlotsInv, BitsHeld, Middle
<1> QED BY <1>4, <1>5, <1>6 DEF SlotsInv

(* A transaction begins with a bit that nobody holds, or not at all.       *)
LEMMA Begin_SlotsInv ==
  ASSUME Inv, SlotsInv, NEW w \in Workers, NEW t \in Txs, process_transaction_begin(w, t)
  PROVE  SlotsInv'
<1> DEFINE a == t.source
           bit == get_seq_num_offset(t.seq, last_committed_id[a])
<1>1. /\ pc[w] = "idle"
      /\ UNCHANGED <<user_ids, last_committed_id, account_log, confirmed>>
      /\ \/ UNCHANGED <<sequence_number_vec, tx, pc>>
         \/ /\ a \in user_ids
            /\ reserve_status(t.seq, last_committed_id[a], sequence_number_vec[a]) = "SUCCESS"
            /\ sequence_number_vec' = [sequence_number_vec EXCEPT ![a] = @ \union {bit}]
            /\ tx' = [tx EXCEPT ![w] = t] /\ pc' = [pc EXCEPT ![w] = "op"]
  BY DEF process_transaction_begin, dbVars, SetPc
<1>2. \A u : Slot(u)' = Slot(u)
  BY <1>1 DEF Slot
<1>3. CASE UNCHANGED <<sequence_number_vec, tx, pc>>
  <2>1. Busy' = Busy /\ \A u : HoldsSlot(u)' = HoldsSlot(u)
    BY <1>1, <1>2, <1>3 DEF Busy, HoldsSlot
  <2>2. SlotsHeld' /\ SlotsExclusive' /\ BitsHeld'
    BY <1>1, <1>2, <1>3, <2>1 DEF SlotsInv, SlotsHeld, SlotsExclusive, BitsHeld
  <2> QED BY <2>2 DEF SlotsInv
<1>4. CASE /\ a \in user_ids
           /\ reserve_status(t.seq, last_committed_id[a], sequence_number_vec[a]) = "SUCCESS"
           /\ sequence_number_vec' = [sequence_number_vec EXCEPT ![a] = @ \union {bit}]
           /\ tx' = [tx EXCEPT ![w] = t] /\ pc' = [pc EXCEPT ![w] = "op"]
  <2>1. a \in AccountIDs /\ t.seq \in Nat /\ last_committed_id[a] \in Nat /\ bit \in Nat
    BY SlotFacts, OffsetType
  <2>2. t.seq > last_committed_id[a] /\ bit \notin sequence_number_vec[a]
    BY <1>4, <2>1, WidthAssumption DEF reserve_status
  <2>3. /\ Busy' = Busy \union {w} /\ w \notin Busy /\ tx'[w] = t
        /\ \A v \in Busy : tx'[v] = tx[v]
    BY <1>1, <1>4 DEF Busy, Inv, TypeOK, ThreadTypeOK
  <2>4. /\ \A c \in AccountIDs : sequence_number_vec[c] \subseteq sequence_number_vec'[c]
        /\ sequence_number_vec'[a] = sequence_number_vec[a] \union {bit}
        /\ \A c \in AccountIDs \ {a} : sequence_number_vec'[c] = sequence_number_vec[c]
    BY <1>4, <2>1 DEF Inv, TypeOK, DbTypeOK
  <2>5. Slot(t) = <<a, bit>>
    BY DEF Slot
  <2> HIDE DEF a, bit
  <2>6. \A u : HoldsSlot(u) => HoldsSlot(u)' /\ Slot(u) # <<a, bit>>
    <3> SUFFICES ASSUME NEW u, HoldsSlot(u)
                 PROVE  HoldsSlot(u)' /\ Slot(u) # <<a, bit>>
      OBVIOUS
    <3>1. /\ u.source \in user_ids /\ u.seq > last_committed_id[u.source]
          /\ Slot(u)[2] \in sequence_number_vec[u.source] /\ Slot(u)[1] = u.source
      BY DEF HoldsSlot, Slot
    <3>2. u.source \in AccountIDs
      BY <3>1 DEF Inv, TypeOK, DbTypeOK
    <3>3. HoldsSlot(u)'
      BY <1>1, <1>2, <2>4, <3>1, <3>2 DEF HoldsSlot
    <3>4. Slot(u) # <<a, bit>>
      BY <2>2, <3>1
    <3> QED BY <3>3, <3>4
  <2>7. HoldsSlot(t)'
    BY <1>1, <1>2, <1>4, <2>2, <2>4, <2>5 DEF HoldsSlot, a
  <2>8. SlotsHeld'
    BY <1>1, <2>3, <2>6, <2>7 DEF SlotsInv, SlotsHeld
  <2>9. SlotsExclusive'
    <3>1. \A v \in Busy : Slot(tx[v]) # Slot(t)
      BY <2>5, <2>6 DEF SlotsInv, SlotsHeld
    <3>2. \A u \in confirmed : Slot(u) # Slot(t)
      BY <2>5, <2>6 DEF SlotsInv, SlotsHeld
    <3> QED BY <1>1, <1>2, <2>3, <3>1, <3>2 DEF SlotsInv, SlotsExclusive
  <2>10. BitsHeld'
    <3> SUFFICES ASSUME NEW c \in AccountIDs, NEW b \in sequence_number_vec'[c]
                 PROVE  \/ \E v \in Busy' : Slot(tx'[v]) = <<c, b>>
                        \/ \E u \in confirmed : Slot(u) = <<c, b>>
      BY <1>1, <1>2 DEF BitsHeld
    <3>1. CASE b \in sequence_number_vec[c]
      BY <2>3, <3>1 DEF SlotsInv, BitsHeld
    <3>2. CASE c = a /\ b = bit
      BY <2>3, <2>5, <3>2
    <3> QED BY <2>4, <3>1, <3>2
  <2> QED BY <2>8, <2>9, <2>10 DEF SlotsInv
<1> QED BY <1>1, <1>3, <1>4

(* What Return does to the threads.                                        *)
LEMMA Returned ==
  ASSUME Inv, NEW w \in Workers, Return(w)
  PROVE  /\ pc'[w] = "idle" /\ Busy' = Busy \ {w}
         /\ \A v \in Workers \ {w} :
              /\ pc'[v] = pc[v] /\ tx'[v] = tx[v] /\ op_idx'[v] = op_idx[v]
              /\ available_buffer'[v] = available_buffer[v]
              /\ available_side_effects'[v] = available_side_effects[v]
              /\ new_accounts'[v] = new_accounts[v]
         /\ tx'[w] = NoTx
         /\ available_buffer'[w] = Zero /\ available_side_effects'[w] = Zero
         /\ new_accounts'[w] = << >>
  BY DEF Return, SetPc, Busy, Inv, TypeOK, ThreadTypeOK

(* A transaction that succeeds keeps its bit, now for the block.           *)
LEMMA Finish_SlotsInv ==
  ASSUME Inv, SlotsInv, NEW w \in Workers, FinishTransaction(w)
  PROVE  SlotsInv'
<1>1. /\ UNCHANGED <<user_ids, last_committed_id, sequence_number_vec>>
      /\ confirmed' = confirmed \union {tx[w]} /\ w \in Busy
      /\ account_log \subseteq account_log' /\ tx[w].source \in account_log'
  BY DEF FinishTransaction, dbVars, Busy, log_modified_accounts
<1>2. Busy' = Busy \ {w} /\ \A v \in Workers \ {w} : tx'[v] = tx[v]
  BY Returned DEF FinishTransaction
<1>3. \A u : Slot(u)' = Slot(u)
  BY <1>1 DEF Slot
<1>4. \A u : HoldsSlot(u)' = HoldsSlot(u)
  BY <1>1, <1>3 DEF HoldsSlot
<1>5. Busy \subseteq Workers
  BY DEF Busy
<1>6. SlotsHeld'
  BY <1>1, <1>2, <1>4, <1>5 DEF SlotsInv, SlotsHeld
<1>7. SlotsExclusive'
  BY <1>1, <1>2, <1>3, <1>5 DEF SlotsInv, SlotsExclusive
<1>8. BitsHeld'
  BY <1>1, <1>2, <1>3, <1>5 DEF SlotsInv, BitsHeld
<1> QED BY <1>6, <1>7, <1>8 DEF SlotsInv

(* A transaction that fails gives back its own bit, and no other.          *)
LEMMA Abort_SlotsInv ==
  ASSUME Inv, SlotsInv, NEW w \in Workers, AbortTransaction(w)
  PROVE  SlotsInv'
<1>0. w \in Busy /\ tx[w] \in Txs
  BY Running DEF AbortTransaction, Busy
<1>1. CASE release_throws(tx[w].seq, last_committed_id[tx[w].source])
  <2>1. Middle(w)
    BY <1>1 DEF AbortTransaction, Middle, SetPc, dbVars, Inv, TypeOK, ThreadTypeOK
  <2> QED BY <2>1, Middle_SlotsInv
<1>2. CASE ~ release_throws(tx[w].seq, last_committed_id[tx[w].source])
  <2> DEFINE a == tx[w].source
             bit == get_seq_num_offset(tx[w].seq, last_committed_id[a])
  <2>1. /\ sequence_number_vec' = [sequence_number_vec EXCEPT ![a] = @ \ {bit}]
        /\ Return(w)
        /\ UNCHANGED <<user_ids, last_committed_id, account_log, confirmed>>
    BY <1>2 DEF AbortTransaction, dbVars
  <2>2. Busy' = Busy \ {w} /\ \A v \in Workers \ {w} : tx'[v] = tx[v]
    BY <2>1, Returned
  <2>3. \A u : Slot(u)' = Slot(u)
    BY <2>1 DEF Slot
  <2>4. Slot(tx[w]) = <<a, bit>> /\ a \in AccountIDs
    BY <1>0, SlotFacts DEF Slot
  <2>5. /\ sequence_number_vec'[a] = sequence_number_vec[a] \ {bit}
        /\ \A c \in AccountIDs \ {a} : sequence_number_vec'[c] = sequence_number_vec[c]
    BY <2>1, <2>4 DEF Inv, TypeOK, DbTypeOK
  <2> HIDE DEF a, bit
  <2>6. \A u : HoldsSlot(u) /\ Slot(u) # <<a, bit>> => HoldsSlot(u)'
    <3> SUFFICES ASSUME NEW u, HoldsSlot(u), Slot(u) # <<a, bit>>
                 PROVE  HoldsSlot(u)'
      OBVIOUS
    <3>1. /\ u.source \in user_ids /\ u.seq > last_committed_id[u.source]
          /\ Slot(u)[2] \in sequence_number_vec[u.source] /\ Slot(u) = <<u.source, Slot(u)[2]>>
      BY DEF HoldsSlot, Slot
    <3>2. u.source \in AccountIDs
      BY <3>1 DEF Inv, TypeOK, DbTypeOK
    <3>3. Slot(u)[2] \in sequence_number_vec'[u.source]
      BY <2>5, <3>1, <3>2
    <3> QED BY <2>1, <2>3, <3>1, <3>3 DEF HoldsSlot
  <2>7. Busy \subseteq Workers
    BY DEF Busy
  <2>8. SlotsHeld'
    BY <1>0, <2>1, <2>2, <2>4, <2>6, <2>7 DEF SlotsInv, SlotsHeld, SlotsExclusive
  <2>9. SlotsExclusive'
    BY <2>1, <2>2, <2>3, <2>7 DEF SlotsInv, SlotsExclusive
  <2>10. BitsHeld'
    <3> SUFFICES ASSUME NEW c \in AccountIDs, NEW b \in sequence_number_vec'[c]
                 PROVE  \/ \E v \in Busy' : Slot(tx'[v]) = <<c, b>>
                        \/ \E u \in confirmed : Slot(u) = <<c, b>>
      BY <2>1, <2>3 DEF BitsHeld
    <3>1. b \in sequence_number_vec[c] /\ <<c, b>> # <<a, bit>>
      BY <2>4, <2>5
    <3>2. \/ \E v \in Busy : Slot(tx[v]) = <<c, b>>
          \/ \E u \in confirmed : Slot(u) = <<c, b>>
      BY <3>1 DEF SlotsInv, BitsHeld
    <3> QED BY <2>2, <2>4, <2>7, <3>1, <3>2
  <2> QED BY <2>8, <2>9, <2>10 DEF SlotsInv
<1> QED BY <1>1, <1>2

(* Every bit is cleared by the commit of the block.                        *)
LEMMA Commit_SlotsInv ==
  ASSUME Inv, SlotsInv, CommitBlock
  PROVE  SlotsInv'
<1>1. Busy = {} /\ Busy' = {} /\ confirmed' = {}
  BY DEF CommitBlock, Quiescent, Busy
<1>2. \A a \in AccountIDs : sequence_number_vec'[a] = {}
  <2> SUFFICES ASSUME NEW a \in AccountIDs, NEW b \in sequence_number_vec[a]
               PROVE  a \in account_log /\ a \in user_ids
    BY DEF CommitBlock
  <2>1. PICK t \in confirmed : Slot(t) = <<a, b>>
    BY <1>1 DEF SlotsInv, BitsHeld
  <2>2. t.source = a
    BY <2>1 DEF Slot
  <2> QED BY <2>2 DEF SlotsInv, SlotsHeld, HoldsSlot
<1> QED BY <1>1, <1>2 DEF SlotsInv, SlotsHeld, SlotsExclusive, BitsHeld

(* Every bit is held by one transaction, in every reachable state.         *)
LEMMA SlotsInvHolds == Spec => []SlotsInv
<1>1. Init => SlotsInv
  BY DEF Init, SlotsInv, SlotsHeld, SlotsExclusive, BitsHeld, Busy
<1>2. Inv /\ SlotsInv /\ [Next]_vars => SlotsInv'
  <2> SUFFICES ASSUME Inv, SlotsInv, [Next]_vars PROVE SlotsInv'
    OBVIOUS
  <2>1. ASSUME NEW w \in Workers, Step(w) PROVE SlotsInv'
    BY <2>1, StepKinds, Middle_SlotsInv, Begin_SlotsInv, Finish_SlotsInv, Abort_SlotsInv
  <2>2. CASE UNCHANGED vars
    <3>1. UNCHANGED <<user_ids, last_committed_id, sequence_number_vec, pc, tx, account_log, confirmed>>
      BY <2>2 DEF vars, dbVars, blockVars
    <3>2. Busy' = Busy /\ \A u : Slot(u)' = Slot(u)
      BY <3>1 DEF Busy, Slot
    <3>3. \A u : HoldsSlot(u)' = HoldsSlot(u)
      BY <3>1, <3>2 DEF HoldsSlot
    <3> QED BY <3>1, <3>2, <3>3 DEF SlotsInv, SlotsHeld, SlotsExclusive, BitsHeld
  <2> QED BY <2>1, <2>2, Commit_SlotsInv DEF Next, Done
<1> QED BY <1>1, <1>2, Initially, InvInductive, PTL DEF Spec

(* Two transactions of a block never have the same source and sequence     *)
(* number, whatever numbers are submitted (the first half of ExecutedOnce).*)
THEOREM OnceInBlock ==
  Spec => [](\A t, u \in confirmed : t # u => <<t.source, t.seq>> # <<u.source, u.seq>>)
<1>1. SlotsInv => \A t, u \in confirmed : t # u => <<t.source, t.seq>> # <<u.source, u.seq>>
  <2> SUFFICES ASSUME SlotsInv, NEW t \in confirmed, NEW u \in confirmed, t # u,
                      t.source = u.source, t.seq = u.seq
               PROVE  FALSE
    OBVIOUS
  <2>1. Slot(t) = Slot(u)
    BY DEF Slot
  <2> QED BY <2>1 DEF SlotsInv, SlotsExclusive
<1> QED BY <1>1, SlotsInvHolds, PTL

(* No transaction that runs has a sequence number a full turn of the       *)
(* uint8_t offset ahead of its account's.                                  *)
NumbersInReach ==
  \A w \in Busy : tx[w].seq - last_committed_id[tx[w].source] =< OffsetModulus

(* What was executed lies below last_committed_id, and what the block has  *)
(* executed is in reach of the increment.                                  *)
SpentBelowLast ==
  /\ \A t \in confirmed : t.seq - last_committed_id[t.source] =< OffsetModulus
  /\ spent \subseteq AccountIDs \X Nat
  /\ \A p \in spent : p[2] =< last_committed_id[p[1]]

(* The commit of a block moves last_committed_id past all of its numbers.  *)
LEMMA Commit_SpentBelowLast ==
  ASSUME Inv, SlotsInv, SpentBelowLast, CommitBlock
  PROVE  SpentBelowLast'
<1> DEFINE inc(a) == get_seq_num_increment(sequence_number_vec[a])
<1>1. \A a \in AccountIDs :
        /\ last_committed_id[a] \in Nat /\ inc(a) \in Nat
        /\ \A b \in sequence_number_vec[a] : b < inc(a)
  BY IncrementBounds DEF Inv, TypeOK, DbTypeOK
<1>2. \A a \in AccountIDs : last_committed_id'[a] \in {last_committed_id[a], last_committed_id[a] + inc(a)}
  BY DEF CommitBlock
<1>3. \A a \in AccountIDs : a \in account_log /\ a \in user_ids =>
        last_committed_id'[a] = last_committed_id[a] + inc(a)
  BY DEF CommitBlock
<1> HIDE DEF inc
<1>4. \A a \in AccountIDs : last_committed_id[a] =< last_committed_id'[a]
  BY <1>1, <1>2
<1>5. ASSUME NEW t \in confirmed
      PROVE  /\ t.source \in AccountIDs /\ t.seq \in Nat
             /\ t.seq =< last_committed_id'[t.source]
  <2>1. t \in Txs
    BY DEF Inv, TypeOK, BlockTypeOK
  <2>2. t.source \in AccountIDs /\ t.seq \in Nat
    BY <2>1, SlotFacts
  <2> DEFINE last == last_committed_id[t.source]
             bit == get_seq_num_offset(t.seq, last)
  <2>3. /\ t.source \in user_ids /\ t.source \in account_log
        /\ t.seq > last /\ bit \in sequence_number_vec[t.source]
    BY DEF SlotsInv, SlotsHeld, HoldsSlot, Slot
  <2>4. t.seq - last =< OffsetModulus /\ last \in Nat
    BY <1>1, <2>2 DEF SpentBelowLast
  <2>5. bit = (t.seq - last) - 1
    BY <2>2, <2>3, <2>4, WidthAssumption DEF get_seq_num_offset
  <2>6. bit < inc(t.source) /\ inc(t.source) \in Nat
    BY <1>1, <2>2, <2>3
  <2>7. last_committed_id'[t.source] = last + inc(t.source)
    BY <1>3, <2>2, <2>3
  <2> HIDE DEF last, bit
  <2> QED BY <2>2, <2>4, <2>5, <2>6, <2>7
<1>6. spent' = spent \union {<<t.source, t.seq>> : t \in confirmed} /\ confirmed' = {}
  BY DEF CommitBlock
<1>7. ASSUME NEW p \in spent'
      PROVE  p \in AccountIDs \X Nat /\ p[2] =< last_committed_id'[p[1]]
  <2>1. CASE p \in spent
    <3>1. p \in AccountIDs \X Nat /\ p[2] =< last_committed_id[p[1]]
      BY <2>1 DEF SpentBelowLast
    <3>2. p[1] \in AccountIDs /\ p[2] \in Nat
      BY <3>1
    <3>3. last_committed_id[p[1]] =< last_committed_id'[p[1]] /\ last_committed_id[p[1]] \in Nat
          /\ last_committed_id'[p[1]] \in Nat
      BY <1>1, <1>2, <1>4, <3>2
    <3> QED BY <3>1, <3>2, <3>3
  <2>2. ASSUME NEW t \in confirmed, p = <<t.source, t.seq>>
        PROVE  p \in AccountIDs \X Nat /\ p[2] =< last_committed_id'[p[1]]
    BY <1>5, <2>2
  <2> QED BY <1>6, <2>1, <2>2
<1> QED BY <1>6, <1>7 DEF SpentBelowLast

(* Numbers in reach are never left behind.                                 *)
LEMMA SpentBelowLastHolds == Spec /\ []NumbersInReach => []SpentBelowLast
<1>1. Init => SpentBelowLast
  BY DEF Init, SpentBelowLast
<1>2. Inv /\ SlotsInv /\ NumbersInReach /\ SpentBelowLast /\ [Next]_vars => SpentBelowLast'
  <2> SUFFICES ASSUME Inv, SlotsInv, NumbersInReach, SpentBelowLast, [Next]_vars
               PROVE  SpentBelowLast'
    OBVIOUS
  <2>1. ASSUME NEW w \in Workers, Step(w) PROVE SpentBelowLast'
    <3>1. UNCHANGED <<last_committed_id, spent>>
          /\ (confirmed' = confirmed \/ (confirmed' = confirmed \union {tx[w]} /\ w \in Busy))
      BY <2>1, StepKinds DEF Middle, FinishTransaction, AbortTransaction,
         process_transaction_begin, dbVars, Busy
    <3> QED BY <3>1 DEF SpentBelowLast, NumbersInReach
  <2>2. CASE UNCHANGED vars
    BY <2>2 DEF vars, dbVars, blockVars, SpentBelowLast
  <2> QED BY <2>1, <2>2, Commit_SpentBelowLast DEF Next, Done
<1> QED BY <1>1, <1>2, Initially, InvInductive, SlotsInvHolds, PTL DEF Spec

(* A <<source, sequence number>> pair executes at most once, in a block    *)
(* and across blocks, as long as no number is a full turn of the uint8_t   *)
(* offset ahead (without that, a number can be executed in two blocks).    *)
THEOREM ExecutedOnceHolds == Spec /\ []NumbersInReach => []ExecutedOnce
<1>1. Inv /\ SlotsInv /\ SpentBelowLast => \A t \in confirmed : <<t.source, t.seq>> \notin spent
  <2> SUFFICES ASSUME Inv, SlotsInv, SpentBelowLast, NEW t \in confirmed,
                      <<t.source, t.seq>> \in spent
               PROVE  FALSE
    OBVIOUS
  <2>1. t \in Txs
    BY DEF Inv, TypeOK, BlockTypeOK
  <2>2. t.seq \in Nat /\ last_committed_id[t.source] \in Nat
    BY <2>1, SlotFacts
  <2>3. t.seq > last_committed_id[t.source] /\ t.seq =< last_committed_id[t.source]
    BY DEF SlotsInv, SlotsHeld, HoldsSlot, SpentBelowLast
  <2> QED BY <2>2, <2>3
<1>2. (\A t, u \in confirmed : t # u => <<t.source, t.seq>> # <<u.source, u.seq>>)
        /\ (\A t \in confirmed : <<t.source, t.seq>> \notin spent) => ExecutedOnce
  BY DEF ExecutedOnce
<1> QED BY <1>1, <1>2, Initially, InvInductive, SlotsInvHolds, SpentBelowLastHolds, OnceInBlock, PTL DEF Spec

-----------------------------------------------------------------------------
(* Money.                                                                  *)

(* The accounts in the log, or of a transaction that is being committed.   *)
Touched == account_log
  \union UNION {log_modified_accounts(tx[w]) : w \in {v \in Workers : pc[v] \in {"commit", "create"}}}

(* What w has taken from the shared balance k and would return if its      *)
(* transaction failed.                                                     *)
Owed(w, k) ==
  IF \/ pc[w] \in {"op", "debit", "cas", "unwind"}
     \/ pc[w] = "return" /\ k \in todo[w]
  THEN - available_side_effects[w][k] ELSE 0
owed(k) == [w \in Workers |-> Owed(w, k)]

(* A view holds money only of accounts that its transaction would log, has *)
(* spent only money of the source, and commits only what it holds.         *)
ViewOK(w) ==
  \A k \in Keys :
    /\ pc[w] = "idle" => available_buffer[w][k] = 0 /\ available_side_effects[w][k] = 0
    /\ available_buffer[w][k] # 0 => k[1] \in log_modified_accounts(tx[w])
    /\ available_side_effects[w][k] # 0 => k[1] = tx[w].source
    /\ pc[w] = "commit" /\ k \in todo[w] => available_buffer[w][k] # 0

Views == \A w \in Workers : ViewOK(w)

(* An account that nothing has touched has its committed balance, less     *)
(* what the running transactions owe it.                                   *)
Untouched ==
  ~ threw => \A k \in Keys : k[1] \in user_ids \ Touched =>
               available[k] = committed_available[k] - Cardinality(Cells(Workers, owed(k)))

(* A step of a thread leaves the others' locals alone.                     *)
OtherThreads(w) ==
  \A v \in Workers \ {w} :
    /\ pc'[v] = pc[v] /\ tx'[v] = tx[v] /\ op_idx'[v] = op_idx[v]
    /\ available_buffer'[v] = available_buffer[v]
    /\ available_side_effects'[v] = available_side_effects[v]
    /\ new_accounts'[v] = new_accounts[v] /\ new_offers'[v] = new_offers[v]
    /\ todo'[v] = todo[v]

(* Nor does a thread's step change who exists or what is committed, a      *)
(* thread that threw takes none, and misreleased only grows.               *)
LEMMA StepIsLocal ==
  ASSUME Inv, NEW w \in Workers, Step(w)
  PROVE  /\ OtherThreads(w) /\ UNCHANGED <<user_ids, committed_available>> /\ pc[w] # "threw"
         /\ misreleased \subseteq misreleased'
<1> USE DEF OtherThreads, Inv, TypeOK, ThreadTypeOK, BookTypeOK, SetPc, dbVars, bookVars, blockVars, viewVars,
            OutsideOp, OutsideCommit, OutsideUnwind, OpReady, Fail, NextOp, Credit, Return
<1>1. CASE \E t \in Txs : process_transaction_begin(w, t)
  BY <1>1 DEF process_transaction_begin
<1>2. CASE process_create_account(w)
  BY <1>2 DEF process_create_account
<1>3. CASE process_create_sell_offer(w)
  BY <1>3 DEF process_create_sell_offer
<1>4. CASE process_cancel_sell_offer(w)
  BY <1>4 DEF process_cancel_sell_offer
<1>5. CASE process_payment(w)
  BY <1>5 DEF process_payment
<1>6. CASE process_money_printer(w)
  BY <1>6 DEF process_money_printer
<1>7. CASE DebitFromBuffer(w)
  BY <1>7 DEF DebitFromBuffer
<1>8. CASE LoadBalance(w)
  BY <1>8 DEF LoadBalance
<1>9. CASE CompareExchange(w)
  BY <1>9 DEF CompareExchange
<1>10. CASE BeginCommit(w)
  BY <1>10 DEF BeginCommit
<1>11. CASE CommitCredit(w)
  BY <1>11 DEF CommitCredit
<1>12. CASE BeginCreation(w)
  BY <1>12 DEF BeginCreation
<1>13. CASE commit_account_creation(w)
  BY <1>13 DEF commit_account_creation
<1>14. CASE unwind_operation(w)
  BY <1>14 DEF unwind_operation
<1>15. CASE BeginReturn(w)
  BY <1>15 DEF BeginReturn
<1>16. CASE ReturnDebit(w)
  BY <1>16 DEF ReturnDebit
<1>17. CASE BeginRelease(w)
  BY <1>17 DEF BeginRelease
<1>18. CASE release_account_creation(w)
  BY <1>18 DEF release_account_creation
<1>19. CASE AbortTransaction(w)
  BY <1>19 DEF AbortTransaction
<1>20. CASE FinishTransaction(w)
  BY <1>20 DEF FinishTransaction
<1> QED BY <1>1, <1>2, <1>3, <1>4, <1>5, <1>6, <1>7, <1>8, <1>9, <1>10, <1>11, <1>12, <1>13, <1>14, <1>15, <1>16, <1>17, <1>18, <1>19, <1>20 DEF Step

(* The steps that touch neither the buffers nor the side effects.          *)
BufferlessStep(w) ==
  \/ process_create_account(w) \/ process_create_sell_offer(w) \/ process_payment(w)
  \/ LoadBalance(w) \/ BeginCreation(w) \/ commit_account_creation(w)
  \/ unwind_operation(w) \/ BeginReturn(w) \/ ReturnDebit(w) \/ BeginRelease(w)
  \/ release_account_creation(w)

(* They do not begin, commit or end a transaction either.                  *)
LEMMA BufferlessFacts ==
  ASSUME Inv, NEW w \in Workers, BufferlessStep(w)
  PROVE  /\ UNCHANGED <<tx, available_buffer, available_side_effects, account_log>>
         /\ pc[w] # "idle" /\ pc'[w] \notin {"idle", "commit"}
<1> USE DEF Inv, TypeOK, ThreadTypeOK, SetPc, blockVars, viewVars, OutsideOp, OutsideCommit, OutsideUnwind,
            OpReady, Fail
<1>1. CASE process_create_account(w)
  BY <1>1 DEF process_create_account
<1>2. CASE process_create_sell_offer(w)
  BY <1>2 DEF process_create_sell_offer
<1>3. CASE process_payment(w)
  BY <1>3 DEF process_payment
<1>4. CASE LoadBalance(w)
  BY <1>4 DEF LoadBalance
<1>5. CASE BeginCreation(w)
  BY <1>5 DEF BeginCreation
<1>6. CASE commit_account_creation(w)
  BY <1>6 DEF commit_account_creation
<1>7. CASE unwind_operation(w)
  BY <1>7 DEF unwind_operation
<1>8. CASE BeginReturn(w)
  BY <1>8 DEF BeginReturn
<1>9. CASE ReturnDebit(w)
  BY <1>9 DEF ReturnDebit
<1>10. CASE BeginRelease(w)
  BY <1>10 DEF BeginRelease
<1>11. CASE release_account_creation(w)
  BY <1>11 DEF release_account_creation
<1> QED BY <1>1, <1>2, <1>3, <1>4, <1>5, <1>6, <1>7, <1>8, <1>9, <1>10, <1>11 DEF BufferlessStep

(* A view after an operation that has changed its buffers.                 *)
LEMMA ViewOK_Op ==
  ASSUME Inv, NEW w \in Workers, ViewOK(w), tx'[w] = tx[w], pc'[w] \notin {"idle", "commit"},
         \A k \in Keys : available_buffer'[w][k] # 0 =>
            available_buffer[w][k] # 0 \/ k[1] \in log_modified_accounts(tx[w]),
         \A k \in Keys : available_side_effects'[w][k] # 0 =>
            available_side_effects[w][k] # 0 \/ k[1] = tx[w].source
  PROVE  ViewOK(w)'
<1>1. log_modified_accounts(tx[w])' = log_modified_accounts(tx[w])
  BY DEF log_modified_accounts
<1> QED BY <1>1 DEF ViewOK

(* The accounts that an operation credits or debits are logged.            *)
LEMMA LoggedAccounts ==
  ASSUME Inv, NEW w \in Workers, pc[w] # "idle", op_idx[w] =< Len(tx[w].ops)
  PROVE  /\ tx[w].source \in log_modified_accounts(tx[w])
         /\ Op(w).type \in {"CREATE_ACCOUNT", "PAYMENT"} =>
              Op(w).account \in log_modified_accounts(tx[w])
         /\ DebitKey(w)[1] = tx[w].source
<1>1. op_idx[w] \in DOMAIN tx[w].ops
  BY CurrentOp
<1> QED BY <1>1 DEF log_modified_accounts, Op, DebitKey

(* What a debit leaves in the buffers.                                     *)
LEMMA DebitedKeys ==
  ASSUME Inv, NEW w \in Workers, pc[w] # "idle", op_idx[w] =< Len(tx[w].ops), NEW v \in Nat
  PROVE  \A k \in Keys : DebitedBuffer(w, v)[k] # 0 =>
            available_buffer[w][k] # 0 \/ k[1] \in log_modified_accounts(tx[w])
<1> DEFINE buf == [available_buffer[w] EXCEPT ![DebitKey(w)] = v]
<1>1. /\ tx[w].source \in log_modified_accounts(tx[w])
      /\ Op(w).type \in {"CREATE_ACCOUNT", "PAYMENT"} =>
           Op(w).account \in log_modified_accounts(tx[w])
      /\ DebitKey(w)[1] = tx[w].source
  BY LoggedAccounts
<1>2. available_buffer[w] \in [Keys -> Nat]
  BY ViewTypes
<1>3. \A k \in Keys : k # DebitKey(w) => buf[k] = available_buffer[w][k]
  BY <1>2
<1>4. buf \in [Keys -> Nat]
  BY <1>2
<1> HIDE DEF buf
<1>5. ASSUME NEW k \in Keys, k[1] \notin log_modified_accounts(tx[w])
      PROVE  CreditAfterDebit(w, buf)[k] = buf[k]
  BY <1>1, <1>4, <1>5 DEF CreditAfterDebit
<1> QED BY <1>1, <1>3, <1>5 DEF DebitedBuffer, buf

(* A credit to the source of the transaction.                              *)
LEMMA CreditToSource ==
  ASSUME Inv, NEW w \in Workers, ViewOK(w), NEW x \in Assets, NEW n \in Nat,
         tx[w] \in Txs, Credit(w, <<tx[w].source, x>>, n),
         UNCHANGED <<tx, available_side_effects>>, pc'[w] \notin {"idle", "commit"}
  PROVE  ViewOK(w)'
<1> DEFINE k0 == <<tx[w].source, x>>
<1>1. k0 \in Keys
  BY TxFacts DEF Keys
<1>2. \A k \in Keys : k # k0 => available_buffer'[w][k] = available_buffer[w][k]
  BY <1>1 DEF Credit, Inv, TypeOK, ThreadTypeOK
<1>3. k0[1] \in log_modified_accounts(tx[w])
  BY DEF log_modified_accounts
<1> HIDE DEF k0
<1> QED BY <1>2, <1>3, ViewOK_Op

(* Buffers and side effects stay with the accounts of the transaction.     *)
LEMMA Step_Views ==
  ASSUME Inv, Views, NEW w \in Workers, Step(w)
  PROVE  Views'
<1>1. OtherThreads(w)
  BY StepIsLocal
<1>2. \A v \in Workers \ {w} : ViewOK(v)'
  <2> SUFFICES ASSUME NEW v \in Workers \ {w} PROVE ViewOK(v)'
    OBVIOUS
  <2>1. log_modified_accounts(tx[v])' = log_modified_accounts(tx[v])
    BY <1>1 DEF OtherThreads, log_modified_accounts
  <2> QED BY <1>1, <2>1 DEF OtherThreads, Views, ViewOK
<1>3. ViewOK(w)
  BY DEF Views
<1> SUFFICES ViewOK(w)'
  BY <1>2 DEF Views
<1>4. CASE \E t \in Txs : process_transaction_begin(w, t)
  <2>1. /\ pc[w] = "idle" /\ UNCHANGED <<available_buffer, available_side_effects>>
        /\ pc'[w] \in {"idle", "op"}
    BY <1>4 DEF process_transaction_begin, SetPc, viewVars, Inv, TypeOK, ThreadTypeOK
  <2>2. \A k \in Keys : available_buffer'[w][k] = 0 /\ available_side_effects'[w][k] = 0
    BY <1>3, <2>1 DEF ViewOK
  <2> QED BY <2>1, <2>2 DEF ViewOK
<1>5. CASE BufferlessStep(w)
  BY <1>3, <1>5, BufferlessFacts, ViewOK_Op
<1>6. CASE process_cancel_sell_offer(w)
  <2>1. CASE UNCHANGED available_buffer
    <3>1. UNCHANGED <<tx, available_side_effects>> /\ pc'[w] \notin {"idle", "commit"}
      BY <1>6 DEF process_cancel_sell_offer, OutsideOp, Fail, NextOp, SetPc, Inv, TypeOK, ThreadTypeOK
    <3> QED BY <1>3, <2>1, <3>1, ViewOK_Op
  <2>2. ASSUME NEW o \in OfferNamed(tx[w], op_idx[w]), Credit(w, <<tx[w].source, o.asset>>, o.amount)
        PROVE  ViewOK(w)'
    <3>1. UNCHANGED <<tx, available_side_effects>> /\ pc'[w] \notin {"idle", "commit"}
      BY <1>6 DEF process_cancel_sell_offer, OutsideOp, Fail, NextOp, SetPc, Inv, TypeOK, ThreadTypeOK
    <3>2. o \in Offer
      BY DEF OfferNamed, Inv, TypeOK, BookTypeOK
    <3>3. o.asset \in Assets /\ o.amount \in Nat
      BY <3>2 DEF Offer
    <3>4. tx[w] \in Txs
      BY <1>6, Running DEF process_cancel_sell_offer, OpReady
    <3> QED BY <1>3, <2>2, <3>1, <3>3, <3>4, CreditToSource
  <2> QED BY <1>6, <2>1, <2>2 DEF process_cancel_sell_offer
<1>7. CASE process_money_printer(w)
  <2>1. /\ UNCHANGED <<tx, available_side_effects>> /\ pc'[w] \notin {"idle", "commit"}
        /\ pc[w] = "op" /\ op_idx[w] =< Len(tx[w].ops)
        /\ Credit(w, <<tx[w].source, Op(w).asset>>, Op(w).amount)
    BY <1>7 DEF process_money_printer, OpReady, OutsideOp, NextOp, SetPc, Inv, TypeOK, ThreadTypeOK
  <2>2. tx[w] \in Txs /\ op_idx[w] \in DOMAIN tx[w].ops
    BY <2>1, Running, CurrentOp
  <2>3. Op(w).asset \in Assets /\ Op(w).amount \in Nat
    BY <2>2, TxFacts DEF Op
  <2> QED BY <1>3, <2>1, <2>2, <2>3, CreditToSource
<1>8. CASE DebitFromBuffer(w) \/ CompareExchange(w)
  <2>1. /\ UNCHANGED tx /\ pc[w] \in {"debit", "cas"} /\ pc'[w] \notin {"idle", "commit"}
        /\ \/ UNCHANGED <<available_buffer, available_side_effects>>
           \/ /\ \E v \in Int : v >= 0 /\ available_buffer' =
                   [available_buffer EXCEPT ![w] = DebitedBuffer(w, v)]
              /\ \/ UNCHANGED available_side_effects
                 \/ available_side_effects' =
                      [available_side_effects EXCEPT ![w][DebitKey(w)] = @ + new_buffer(w)]
    <3>1. CASE CompareExchange(w)
      <4>1. /\ UNCHANGED tx /\ pc[w] = "cas"
            /\ \/ UNCHANGED <<available_buffer, available_side_effects>>
               \/ /\ available_buffer' = [available_buffer EXCEPT ![w] = DebitedBuffer(w, 0)]
                  /\ available_side_effects' =
                       [available_side_effects EXCEPT ![w][DebitKey(w)] = @ + new_buffer(w)]
        BY <3>1 DEF CompareExchange
      <4>2. pc'[w] \in {"op", "debit"}
        BY <3>1 DEF CompareExchange, NextOp, SetPc, Inv, TypeOK, ThreadTypeOK
      <4>3. 0 \in Int /\ 0 >= 0
        OBVIOUS
      <4> QED BY <4>1, <4>2, <4>3
    <3>2. CASE DebitFromBuffer(w)
      <4>1. pc[w] = "debit"
        BY <3>2 DEF DebitFromBuffer
      <4>2. op_idx[w] =< Len(tx[w].ops)
        <5>1. op_idx[w] \in DOMAIN tx[w].ops /\ tx[w] \in Txs
          BY <4>1, Running DEF ThreadConsistent
        <5> QED BY <5>1, TxFacts
      <4>3. new_buffer(w) \in Int
        BY <4>1, <4>2, CurrentOp
      <4> QED BY <3>2, <4>1, <4>3 DEF DebitFromBuffer, OutsideOp, NextOp, SetPc, Inv, TypeOK, ThreadTypeOK
    <3> QED BY <1>8, <3>1, <3>2
  <2>2. op_idx[w] =< Len(tx[w].ops)
    <3>1. op_idx[w] \in DOMAIN tx[w].ops /\ tx[w] \in Txs
      BY <2>1, Running DEF ThreadConsistent
    <3> QED BY <3>1, TxFacts
  <2>3. \A k \in Keys : available_buffer'[w][k] # 0 =>
            available_buffer[w][k] # 0 \/ k[1] \in log_modified_accounts(tx[w])
    <3>1. CASE UNCHANGED available_buffer
      BY <3>1
    <3>2. ASSUME NEW v \in Nat,
                 available_buffer' = [available_buffer EXCEPT ![w] = DebitedBuffer(w, v)]
          PROVE  \A k \in Keys : available_buffer'[w][k] # 0 =>
                    available_buffer[w][k] # 0 \/ k[1] \in log_modified_accounts(tx[w])
      <4>1. available_buffer'[w] = DebitedBuffer(w, v)
        BY <3>2 DEF Inv, TypeOK, ThreadTypeOK
      <4> QED BY <2>1, <2>2, <4>1, DebitedKeys
    <3> QED BY <2>1, <3>1, <3>2
  <2>4. \A k \in Keys : available_side_effects'[w][k] # 0 =>
            available_side_effects[w][k] # 0 \/ k[1] = tx[w].source
    <3>1. DebitKey(w)[1] = tx[w].source /\ DebitKey(w) \in Keys
      BY <2>1, <2>2, LoggedAccounts, CurrentOp
    <3>2. \A k \in Keys \ {DebitKey(w)} : available_side_effects'[w][k] = available_side_effects[w][k]
      BY <2>1, <3>1 DEF Inv, TypeOK, ThreadTypeOK
    <3> QED BY <3>1, <3>2
  <2> QED BY <1>3, <2>1, <2>3, <2>4, ViewOK_Op
<1>9. CASE BeginCommit(w) \/ CommitCredit(w)
  <2>1. /\ UNCHANGED <<tx, available_buffer, available_side_effects>> /\ pc'[w] = "commit"
        /\ todo'[w] \subseteq {k \in Keys : available_buffer[w][k] # 0} \union todo[w]
        /\ pc[w] # "commit" => todo'[w] \subseteq {k \in Keys : available_buffer[w][k] # 0}
        /\ pc[w] # "idle"
    BY <1>9 DEF BeginCommit, CommitCredit, OutsideCommit, viewVars, SetPc, Inv, TypeOK, ThreadTypeOK
  <2>2. log_modified_accounts(tx[w])' = log_modified_accounts(tx[w])
    BY <2>1 DEF log_modified_accounts
  <2> QED BY <1>3, <2>1, <2>2 DEF ViewOK
<1>10. ASSUME Return(w) PROVE ViewOK(w)'
  <2>1. /\ pc'[w] = "idle"
        /\ available_buffer'[w] = Zero /\ available_side_effects'[w] = Zero
    BY <1>10, Returned
  <2> QED BY <2>1 DEF ViewOK, Zero
<1>11. CASE FinishTransaction(w)
  BY <1>10, <1>11 DEF FinishTransaction
<1>12. CASE AbortTransaction(w)
  <2>1. CASE Return(w)
    BY <1>10, <2>1
  <2>2. CASE ~ Return(w)
    <3>1. UNCHANGED <<tx, available_buffer, available_side_effects>> /\ pc'[w] = "threw"
      BY <1>12, <2>2 DEF AbortTransaction, viewVars, SetPc, Inv, TypeOK, ThreadTypeOK
    <3> QED BY <1>3, <3>1, ViewOK_Op
  <2> QED BY <2>1, <2>2
<1> QED BY <1>4, <1>5, <1>6, <1>7, <1>8, <1>9, <1>11, <1>12 DEF Step, BufferlessStep

(* What a thread owes is a natural number.                                 *)
LEMMA OwedType ==
  ASSUME Inv, NEW k \in Keys
  PROVE  owed(k) \in [Workers -> Nat] /\ Cardinality(Cells(Workers, owed(k))) \in Nat
<1>1. \A w \in Workers : Owed(w, k) \in Nat
  BY ViewTypes DEF Owed
<1>2. owed(k) \in [Workers -> Nat]
  BY <1>1 DEF owed
<1>3. IsFiniteSet(Workers) /\ \A w \in Workers : owed(k)[w] \in Nat
  BY <1>2, ConstantsAssumption
<1> QED BY <1>2, <1>3, CellsFinite

(* What a step of a thread has to establish: what it takes, it owes.       *)
LEMMA UntouchedKept ==
  ASSUME Inv, Inv', Untouched, NEW w \in Workers, pc[w] # "threw", OtherThreads(w),
         UNCHANGED <<user_ids, committed_available>>, Touched \subseteq Touched',
         ASSUME NEW k \in Keys, k[1] \in user_ids \ Touched', ~ threw'
         PROVE  available'[k] + Owed(w, k)' = available[k] + Owed(w, k)
  PROVE  Untouched'
<1> SUFFICES ASSUME ~ threw', NEW k \in Keys, k[1] \in user_ids \ Touched'
             PROVE  (available[k] = committed_available[k] - Cardinality(Cells(Workers, owed(k))))'
  BY DEF Untouched
<1> DEFINE h == owed(k)
           g == owed(k)'
<1>1. ~ threw
  BY DEF threw, OtherThreads
<1>2. available[k] = committed_available[k] - Cardinality(Cells(Workers, h))
  BY <1>1 DEF Untouched
<1>3. h \in [Workers -> Nat] /\ h[w] = Owed(w, k) /\ Owed(w, k) \in Nat
  BY OwedType DEF owed
<1>4. g \in [Workers -> Nat] /\ g[w] = Owed(w, k)' /\ Owed(w, k)' \in Nat
  <2>1. \A v \in Workers : Owed(v, k)' \in Nat
    <3>1. \A v \in Workers : available_side_effects'[v][k] \in Int
      BY DEF Inv, TypeOK, ThreadTypeOK
    <3>2. \A v \in Workers : available_side_effects'[v][k] =< 0
      BY DEF Inv, ViewsConsistent, ThreadConsistent
    <3> QED BY <3>1, <3>2 DEF Owed
  <2>2. g = [v \in Workers |-> Owed(v, k)']
    BY DEF owed
  <2> QED BY <2>1, <2>2
<1>5. \A v \in Workers \ {w} : g[v] = h[v]
  BY DEF owed, Owed, OtherThreads
<1>6. Cardinality(Cells(Workers, owed(k)))' = Cardinality(Cells(Workers, g))
  BY DEF Cells
<1>7. IsFiniteSet(Workers)
  BY ConstantsAssumption
<1>8. available[k] \in Int /\ available'[k] \in Int /\ committed_available[k] \in Int
  BY DEF Inv, TypeOK, DbTypeOK
<1> HIDE DEF h, g
<1>9. /\ Cardinality(Cells(Workers, h)) \in Nat
      /\ Cardinality(Cells(Workers, g)) = Cardinality(Cells(Workers, h)) - h[w] + g[w]
  BY <1>3, <1>4, <1>5, <1>7, CellsUpdate
<1>10. available'[k] + g[w] = available[k] + h[w]
  BY <1>3, <1>4
<1> QED BY <1>2, <1>3, <1>4, <1>6, <1>8, <1>9, <1>10

(* An account stays touched until the block is committed.                  *)
LEMMA TouchedGrows ==
  ASSUME Inv, NEW w \in Workers, Step(w)
  PROVE  Touched \subseteq Touched'
<1>1. /\ account_log \subseteq account_log'
      /\ pc[w] \in {"commit", "create"} =>
           \/ tx'[w] = tx[w] /\ pc'[w] \in {"commit", "create"}
           \/ log_modified_accounts(tx[w]) \subseteq account_log'
  <2> USE DEF Inv, TypeOK, ThreadTypeOK, SetPc, blockVars, OutsideOp, OutsideCommit, OutsideUnwind, OpReady
  <2>1. CASE \E t \in Txs : process_transaction_begin(w, t)
    BY <2>1 DEF process_transaction_begin
  <2>2. CASE process_create_account(w)
    BY <2>2 DEF process_create_account
  <2>3. CASE process_create_sell_offer(w)
    BY <2>3 DEF process_create_sell_offer
  <2>4. CASE process_cancel_sell_offer(w)
    BY <2>4 DEF process_cancel_sell_offer
  <2>5. CASE process_payment(w)
    BY <2>5 DEF process_payment
  <2>6. CASE process_money_printer(w)
    BY <2>6 DEF process_money_printer
  <2>7. CASE DebitFromBuffer(w)
    BY <2>7 DEF DebitFromBuffer
  <2>8. CASE LoadBalance(w)
    BY <2>8 DEF LoadBalance
  <2>9. CASE CompareExchange(w)
    BY <2>9 DEF CompareExchange
  <2>10. CASE BeginCommit(w)
    BY <2>10 DEF BeginCommit
  <2>11. CASE CommitCredit(w)
    BY <2>11 DEF CommitCredit
  <2>12. CASE BeginCreation(w)
    BY <2>12 DEF BeginCreation
  <2>13. CASE commit_account_creation(w)
    BY <2>13 DEF commit_account_creation
  <2>14. CASE unwind_operation(w)
    BY <2>14 DEF unwind_operation
  <2>15. CASE BeginReturn(w)
    BY <2>15 DEF BeginReturn
  <2>16. CASE ReturnDebit(w)
    BY <2>16 DEF ReturnDebit
  <2>17. CASE BeginRelease(w)
    BY <2>17 DEF BeginRelease
  <2>18. CASE release_account_creation(w)
    BY <2>18 DEF release_account_creation
  <2>19. CASE AbortTransaction(w)
    BY <2>19 DEF AbortTransaction
  <2>20. CASE FinishTransaction(w)
    BY <2>20 DEF FinishTransaction
  <2> QED BY <2>1, <2>2, <2>3, <2>4, <2>5, <2>6, <2>7, <2>8, <2>9, <2>10, <2>11, <2>12, <2>13, <2>14, <2>15, <2>16, <2>17, <2>18, <2>19, <2>20 DEF Step
<1>2. \A v \in Workers \ {w} : pc'[v] = pc[v] /\ tx'[v] = tx[v]
  BY StepIsLocal DEF OtherThreads
<1>3. \A v \in Workers : tx'[v] = tx[v] => log_modified_accounts(tx[v])' = log_modified_accounts(tx[v])
  BY DEF log_modified_accounts
<1> QED BY <1>1, <1>2, <1>3 DEF Touched

(* While a transaction executes its operations or takes them back, what it *)
(* owes are its side effects.                                              *)
LEMMA OwesSideEffects ==
  ASSUME NEW w \in Workers, NEW k \in Keys,
         pc[w] \in {"op", "debit", "cas", "unwind"}, pc'[w] \in {"op", "debit", "cas", "unwind"}
  PROVE  /\ Owed(w, k) = - available_side_effects[w][k]
         /\ Owed(w, k)' = - available_side_effects'[w][k]
  BY DEF Owed

(* No step changes what an untouched account has and is owed.              *)
LEMMA Step_Untouched ==
  ASSUME Inv, Views, Untouched, NEW w \in Workers, Step(w)
  PROVE  Untouched'
<1>1. /\ OtherThreads(w) /\ UNCHANGED <<user_ids, committed_available>> /\ pc[w] # "threw"
      /\ Touched \subseteq Touched'
  BY StepIsLocal, TouchedGrows
<1>2. Inv'
  BY InvInductive DEF Next
<1> SUFFICES ASSUME NEW k \in Keys, k[1] \in user_ids \ Touched', ~ threw'
             PROVE  available'[k] + Owed(w, k)' = available[k] + Owed(w, k)
  BY <1>1, <1>2, UntouchedKept
<1>3. /\ available[k] \in Int /\ available_side_effects[w][k] \in Int
      /\ available \in [Keys -> Int] /\ available_side_effects \in [Workers -> [Keys -> Int]]
  BY DEF Inv, TypeOK, DbTypeOK, ThreadTypeOK
<1>4. ViewOK(w)
  BY DEF Views
<1> USE DEF SetPc, Inv, TypeOK, ThreadTypeOK
<1>5. CASE \E t \in Txs : process_transaction_begin(w, t)
  <2>1. /\ UNCHANGED <<available, available_side_effects>>
        /\ pc[w] = "idle" /\ pc'[w] \in {"idle", "op"}
    BY <1>5 DEF process_transaction_begin, viewVars
  <2>2. available_side_effects[w][k] = 0
    BY <1>4, <2>1 DEF ViewOK
  <2> QED BY <1>3, <2>1, <2>2 DEF Owed
<1>6. CASE \/ process_create_account(w) \/ process_create_sell_offer(w) \/ process_cancel_sell_offer(w)
           \/ process_payment(w) \/ process_money_printer(w) \/ DebitFromBuffer(w) \/ LoadBalance(w)
           \/ unwind_operation(w)
  <2> USE DEF OutsideOp, OutsideUnwind, viewVars, OpReady, Fail, NextOp
  <2>1. pc'[w] # "threw"
    BY DEF threw
  <2>2. /\ UNCHANGED <<available, available_side_effects>>
        /\ pc[w] \in {"op", "debit", "cas", "unwind"} /\ pc'[w] \in {"op", "debit", "cas", "unwind"}
    <3>1. CASE process_create_account(w)
      BY <3>1 DEF process_create_account
    <3>2. CASE process_create_sell_offer(w)
      BY <3>2 DEF process_create_sell_offer
    <3>3. CASE process_cancel_sell_offer(w)
      BY <3>3 DEF process_cancel_sell_offer
    <3>4. CASE process_payment(w)
      BY <3>4 DEF process_payment
    <3>5. CASE process_money_printer(w)
      BY <3>5 DEF process_money_printer
    <3>6. CASE DebitFromBuffer(w)
      BY <3>6 DEF DebitFromBuffer
    <3>7. CASE LoadBalance(w)
      BY <3>7 DEF LoadBalance
    <3>8. CASE unwind_operation(w)
      BY <2>1, <3>8 DEF unwind_operation
    <3> QED BY <1>6, <3>1, <3>2, <3>3, <3>4, <3>5, <3>6, <3>7, <3>8
  <2> QED BY <1>3, <2>2, OwesSideEffects
<1>7. CASE CompareExchange(w)
  <2>1. pc[w] = "cas" /\ pc'[w] \in {"op", "debit"}
    BY <1>7 DEF CompareExchange, NextOp
  <2>2. CASE UNCHANGED <<available, available_side_effects>>
    BY <1>3, <2>1, <2>2, OwesSideEffects
  <2>3. CASE ~ UNCHANGED <<available, available_side_effects>>
    <3>1. /\ available[DebitKey(w)] = current_available[w]
          /\ available' = [available EXCEPT ![DebitKey(w)] = current_available[w] + new_buffer(w)]
          /\ available_side_effects' =
               [available_side_effects EXCEPT ![w][DebitKey(w)] = @ + new_buffer(w)]
      BY <1>7, <2>3 DEF CompareExchange
    <3>2. op_idx[w] \in DOMAIN tx[w].ops /\ tx[w] \in Txs
      BY <2>1, Running DEF ThreadConsistent
    <3>3. op_idx[w] =< Len(tx[w].ops)
      BY <3>2, TxFacts
    <3>4. DebitKey(w) \in Keys /\ new_buffer(w) \in Int
      BY <2>1, <3>3, CurrentOp
    <3> DEFINE dk == DebitKey(w)
               nb == new_buffer(w)
    <3>5. /\ available'[k] = IF k = dk THEN available[k] + nb ELSE available[k]
          /\ available_side_effects'[w][k] = IF k = dk THEN available_side_effects[w][k] + nb
                                             ELSE available_side_effects[w][k]
      BY <1>3, <3>1, <3>4
    <3>6. nb \in Int
      BY <3>4
    <3> HIDE DEF dk, nb
    <3>7. /\ Owed(w, k) = - available_side_effects[w][k]
          /\ Owed(w, k)' = - available_side_effects'[w][k]
      BY <2>1, OwesSideEffects
    <3>8. CASE k = dk
      BY <1>3, <3>5, <3>6, <3>7, <3>8
    <3>9. CASE k # dk
      BY <1>3, <3>5, <3>7, <3>9
    <3> QED BY <3>8, <3>9
  <2> QED BY <2>2, <2>3
<1>8. CASE BeginCommit(w)
  <2>1. UNCHANGED <<available, available_side_effects, tx>> /\ pc[w] = "op" /\ pc'[w] = "commit"
    BY <1>8 DEF BeginCommit, OutsideCommit, viewVars
  <2>2. tx[w].source \in Touched'
    BY <2>1 DEF Touched, log_modified_accounts
  <2>3. available_side_effects[w][k] = 0
    BY <1>4, <2>2 DEF ViewOK
  <2> QED BY <1>3, <2>1, <2>3 DEF Owed
<1>9. CASE CommitCredit(w)
  <2>1. /\ pc[w] = "commit" /\ pc'[w] = "commit" /\ UNCHANGED tx
        /\ \E l \in todo[w] : available' = [available EXCEPT ![l] = @ + available_buffer[w][l]]
    BY <1>9 DEF CommitCredit, OutsideCommit
  <2>2. k \notin todo[w]
    <3>1. log_modified_accounts(tx[w]) \subseteq Touched'
      BY <2>1 DEF Touched, log_modified_accounts
    <3> QED BY <1>4, <2>1, <3>1 DEF ViewOK
  <2>3. available'[k] = available[k]
    BY <1>3, <2>1, <2>2
  <2> QED BY <1>3, <2>1, <2>3 DEF Owed
<1>10. CASE BeginCreation(w) \/ commit_account_creation(w) \/ BeginRelease(w) \/ release_account_creation(w)
  <2>1. /\ UNCHANGED available
        /\ pc[w] \in {"commit", "create", "release"} \/ (pc[w] = "return" /\ todo[w] = {})
        /\ pc'[w] \in {"create", "release"}
    BY <1>10 DEF BeginCreation, commit_account_creation, BeginRelease, release_account_creation
  <2> QED BY <1>3, <2>1 DEF Owed
<1>11. CASE BeginReturn(w)
  <2>1. /\ UNCHANGED <<available, available_side_effects>> /\ pc[w] = "unwind" /\ pc'[w] = "return"
        /\ todo'[w] = {l \in Keys : available_side_effects[w][l] # 0}
    BY <1>11 DEF BeginReturn, OutsideUnwind, viewVars
  <2>2. Owed(w, k) = - available_side_effects[w][k]
    BY <2>1 DEF Owed
  <2>3. Owed(w, k)' = - available_side_effects[w][k]
    BY <1>3, <2>1 DEF Owed
  <2> QED BY <1>3, <2>1, <2>2, <2>3
<1>12. CASE ReturnDebit(w)
  <2>1. PICK l \in todo[w] :
           /\ available' = [available EXCEPT ![l] = @ - available_side_effects[w][l]]
           /\ todo' = [todo EXCEPT ![w] = @ \ {l}]
    BY <1>12 DEF ReturnDebit
  <2>2. pc[w] = "return" /\ pc'[w] = "return" /\ UNCHANGED available_side_effects
    BY <1>12 DEF ReturnDebit, OutsideUnwind, viewVars
  <2>3. todo'[w] = todo[w] \ {l}
    BY <2>1
  <2>4. CASE k = l
    <3>1. Owed(w, k) = - available_side_effects[w][k] /\ Owed(w, k)' = 0
      BY <2>2, <2>3, <2>4 DEF Owed
    <3>2. available'[k] = available[k] - available_side_effects[w][k]
      BY <1>3, <2>1, <2>4
    <3> QED BY <1>3, <3>1, <3>2
  <2>5. CASE k # l
    <3>1. Owed(w, k)' = Owed(w, k)
      BY <2>2, <2>3, <2>5 DEF Owed
    <3>2. available'[k] = available[k]
      BY <1>3, <2>1, <2>5
    <3> QED BY <3>1, <3>2
  <2> QED BY <2>4, <2>5
<1>13. CASE FinishTransaction(w) \/ AbortTransaction(w)
  <2>1. UNCHANGED available /\ pc[w] \in {"create", "release"} /\ pc'[w] \in {"idle", "threw"}
    BY <1>13 DEF FinishTransaction, AbortTransaction, Return
  <2> QED BY <1>3, <2>1 DEF Owed
<1> QED BY <1>5, <1>6, <1>7, <1>8, <1>9, <1>10, <1>11, <1>12, <1>13 DEF Step

(* At the end of a block nobody owes anything, and what the block has      *)
(* touched gets a new committed balance.                                   *)
LEMMA Commit_Untouched ==
  ASSUME Inv, Untouched, CommitBlock
  PROVE  Untouched'
<1>1. /\ \A w \in Workers : pc[w] = "idle" /\ pc'[w] = "idle"
      /\ account_log' = {}
  BY DEF CommitBlock, Quiescent
<1>2. Touched = account_log /\ Touched' = {} /\ ~ threw
  BY <1>1 DEF Touched, threw
<1> SUFFICES ASSUME NEW k \in Keys, k[1] \in user_ids'
             PROVE  available'[k] = committed_available'[k] - Cardinality(Cells(Workers, owed(k)'))
  <2>1. \A k \in Keys : Cardinality(Cells(Workers, owed(k)))' = Cardinality(Cells(Workers, owed(k)'))
    BY DEF Cells
  <2> QED BY <2>1 DEF Untouched
<1>3. Cardinality(Cells(Workers, owed(k))) = 0 /\ Cardinality(Cells(Workers, owed(k)')) = 0
  <2>1. \A w \in Workers : owed(k)[w] = 0 /\ owed(k)'[w] = 0
    BY <1>1 DEF owed, Owed
  <2> QED BY <2>1, NoCells
<1> DEFINE created == {uncommitted_db[n].owner : n \in FirstEntries}
           dirty == account_log \intersect (user_ids \union created)
<1>4. /\ available' = commit_new_accounts /\ user_ids' = user_ids \union created
      /\ committed_available'[k] = IF k[1] \in dirty \union created THEN commit_new_accounts[k]
                                   ELSE committed_available[k]
  BY DEF CommitBlock
<1>5. available'[k] \in Int
  BY CommitBlock_Preserves DEF Inv, TypeOK, DbTypeOK
<1>6. CASE k[1] \in dirty \union created
  BY <1>3, <1>4, <1>5, <1>6
<1>7. CASE k[1] \notin dirty \union created
  <2>1. k[1] \in user_ids \ account_log
    BY <1>4, <1>7
  <2>2. available[k] = committed_available[k] - 0
    BY <1>2, <1>3, <2>1 DEF Untouched
  <2>3. available'[k] = available[k]
    BY <1>4, <1>7 DEF commit_new_accounts
  <2>4. committed_available[k] \in Int
    BY DEF Inv, TypeOK, DbTypeOK
  <2> QED BY <1>3, <1>4, <1>7, <2>2, <2>3, <2>4
<1> QED BY <1>6, <1>7

(* The threads return what they took, in every reachable state.            *)
LEMMA UntouchedHolds == Spec => [](Views /\ Untouched)
<1>1. Init => Views /\ Untouched
  <2> SUFFICES ASSUME Init PROVE Views /\ Untouched
    OBVIOUS
  <2>1. Views
    BY DEF Init, Views, ViewOK, Zero
  <2>2. ASSUME NEW k \in Keys
        PROVE  available[k] = committed_available[k] - Cardinality(Cells(Workers, owed(k)))
    <3>1. \A w \in Workers : owed(k)[w] = 0
      BY DEF Init, owed, Owed
    <3>2. Cardinality(Cells(Workers, owed(k))) = 0
      BY <3>1, NoCells
    <3>3. available[k] = committed_available[k] /\ available[k] \in Int
      BY Initially DEF Init, Inv, TypeOK, DbTypeOK
    <3> QED BY <3>2, <3>3
  <2> QED BY <2>1, <2>2 DEF Untouched
<1>2. Inv /\ Views /\ Untouched /\ [Next]_vars => Views' /\ Untouched'
  <2> SUFFICES ASSUME Inv, Views, Untouched, [Next]_vars PROVE Views' /\ Untouched'
    OBVIOUS
  <2>1. ASSUME NEW w \in Workers, Step(w) PROVE Views' /\ Untouched'
    BY <2>1, Step_Views, Step_Untouched
  <2>2. CASE CommitBlock
    <3>1. UNCHANGED <<pc, tx, available_buffer, available_side_effects, todo>>
      BY <2>2 DEF CommitBlock, viewVars
    <3>2. Views'
      BY <3>1 DEF Views, ViewOK, log_modified_accounts
    <3> QED BY <2>2, <3>2, Commit_Untouched
  <2>3. CASE UNCHANGED vars
    <3>1. UNCHANGED <<pc, tx, available_buffer, available_side_effects, todo, account_log,
                      user_ids, available, committed_available>>
      BY <2>3 DEF vars, dbVars, blockVars, viewVars
    <3>2. Views'
      BY <3>1 DEF Views, ViewOK, log_modified_accounts
    <3>3. Untouched'
      BY <3>1 DEF Untouched, Touched, log_modified_accounts, threw, Cells, owed, Owed
    <3> QED BY <3>2, <3>3
  <2> QED BY <2>1, <2>2, <2>3 DEF Next, Done
<1> QED BY <1>1, <1>2, Initially, InvInductive, PTL DEF Spec

(* Every account whose balance or sequence numbers the block has changed   *)
(* is in the modification log when the threads have returned: a            *)
(* transaction that failed has returned all it took.                       *)
THEOREM LogCoversChangesHolds == Spec => []LogCoversChanges
<1>1. Inv /\ SlotsInv /\ Untouched => LogCoversChanges
  <2> SUFFICES ASSUME Inv, SlotsInv, Untouched, Quiescent, NEW a \in user_ids \ account_log
               PROVE  /\ sequence_number_vec[a] = {}
                      /\ \A x \in Assets : available[<<a, x>>] = committed_available[<<a, x>>]
    BY DEF LogCoversChanges
  <2>1. a \in AccountIDs /\ Busy = {} /\ Touched = account_log /\ ~ threw
    BY DEF Inv, TypeOK, DbTypeOK, Quiescent, Busy, Touched, threw
  <2>2. sequence_number_vec[a] = {}
    <3> SUFFICES ASSUME NEW b \in sequence_number_vec[a] PROVE FALSE
      OBVIOUS
    <3>1. PICK t \in confirmed : Slot(t) = <<a, b>>
      BY <2>1 DEF SlotsInv, BitsHeld
    <3>2. t.source = a /\ t.source \in account_log
      BY <3>1 DEF Slot, SlotsInv, SlotsHeld
    <3> QED BY <3>2
  <2>3. ASSUME NEW x \in Assets
        PROVE  available[<<a, x>>] = committed_available[<<a, x>>]
    <3> DEFINE k == <<a, x>>
    <3>1. k \in Keys /\ k[1] = a
      BY <2>1 DEF Keys
    <3> HIDE DEF k
    <3>2. \A w \in Workers : owed(k)[w] = 0
      BY DEF owed, Owed, Quiescent
    <3>3. Cardinality(Cells(Workers, owed(k))) = 0
      BY <3>2, NoCells
    <3>4. available[k] = committed_available[k] - 0 /\ committed_available[k] \in Int
      BY <2>1, <3>1, <3>3 DEF Untouched, Inv, TypeOK, DbTypeOK
    <3> QED BY <3>4 DEF k
  <2> QED BY <2>2, <2>3
<1> QED BY <1>1, Initially, InvInductive, SlotsInvHolds, UntouchedHolds, PTL DEF Spec

-----------------------------------------------------------------------------
(* Account creation: the accounts of w's view that are still to be handed  *)
(* to the database, and the owners of those that have been.                *)
Pending(w) == {new_accounts[w][n] : n \in IF pc[w] = "create" THEN todo[w]
                                          ELSE DOMAIN new_accounts[w]}
Owners == {uncommitted_db[n].owner : n \in DOMAIN uncommitted_db}

(* A transaction creates accounts that do not exist.  As long as none of   *)
(* its operations has failed it has reserved them, each once, and nobody   *)
(* has created them, the ids in misreleased aside.                         *)
CreatorOK(w) ==
  /\ pc[w] = "idle" => new_accounts[w] = << >>
  /\ NewAccountIDs(w) \intersect user_ids = {}
  /\ Creating(w) =>
       /\ NewAccountIDs(w) \subseteq reserved_account_ids \union misreleased
       /\ \A m, n \in DOMAIN new_accounts[w] :
            m # n /\ new_accounts[w][m] = new_accounts[w][n] => new_accounts[w][m] \in misreleased
       /\ Pending(w) \intersect Owners \subseteq misreleased

(* No account is created by two transactions, unless it is in misreleased. *)
CreationInv ==
  /\ reserved_account_ids \intersect user_ids = {} /\ Owners \intersect user_ids = {}
  /\ Owners \subseteq reserved_account_ids \union misreleased
  /\ \A w \in Workers : CreatorOK(w)
  /\ \A v, w \in Workers :
       v # w /\ Creating(v) /\ Creating(w) => NewAccountIDs(v) \intersect NewAccountIDs(w) \subseteq misreleased
  /\ \A m, n \in DOMAIN uncommitted_db :
       m # n /\ uncommitted_db[m].owner = uncommitted_db[n].owner => uncommitted_db[m].owner \in misreleased

(* The end of a sequence after Append.                                     *)
LEMMA Appended ==
  ASSUME NEW T, NEW s \in Seq(T), NEW e \in T
  PROVE  /\ DOMAIN Append(s, e) = DOMAIN s \union {Len(s) + 1}
         /\ Len(s) + 1 \notin DOMAIN s
         /\ Append(s, e)[Len(s) + 1] = e
         /\ \A n \in DOMAIN s : Append(s, e)[n] = s[n]
  OBVIOUS

(* The steps that have nothing to do with the creation of accounts.        *)
NoCreationStep(w) ==
  \/ process_create_sell_offer(w) \/ process_cancel_sell_offer(w) \/ process_payment(w)
  \/ process_money_printer(w) \/ DebitFromBuffer(w) \/ LoadBalance(w) \/ CompareExchange(w)
  \/ BeginCommit(w) \/ CommitCredit(w)
  \/ unwind_operation(w) \/ BeginReturn(w) \/ ReturnDebit(w)

(* They leave accounts, reservations and the view's new accounts alone.    *)
LEMMA NoCreationFacts ==
  ASSUME Inv, NEW w \in Workers, NoCreationStep(w)
  PROVE  /\ UNCHANGED <<user_ids, reserved_account_ids, misreleased, uncommitted_db, new_accounts>>
         /\ pc[w] \notin {"idle", "create"} /\ pc'[w] \notin {"idle", "create"}
         /\ Creating(w)' => Creating(w)
<1> USE DEF Inv, TypeOK, ThreadTypeOK, SetPc, dbVars, viewVars, OutsideOp, OutsideCommit, OutsideUnwind,
            OpReady, Fail, NextOp, Creating
<1>1. CASE process_create_sell_offer(w)
  BY <1>1 DEF process_create_sell_offer
<1>2. CASE process_cancel_sell_offer(w)
  BY <1>2 DEF process_cancel_sell_offer
<1>3. CASE process_payment(w)
  BY <1>3 DEF process_payment
<1>4. CASE process_money_printer(w)
  BY <1>4 DEF process_money_printer
<1>5. CASE DebitFromBuffer(w)
  BY <1>5 DEF DebitFromBuffer
<1>6. CASE LoadBalance(w)
  BY <1>6 DEF LoadBalance
<1>7. CASE CompareExchange(w)
  BY <1>7 DEF CompareExchange
<1>8. CASE BeginCommit(w)
  BY <1>8 DEF BeginCommit
<1>9. CASE CommitCredit(w)
  BY <1>9 DEF CommitCredit
<1>10. CASE unwind_operation(w)
  BY <1>10 DEF unwind_operation
<1>11. CASE BeginReturn(w)
  BY <1>11 DEF BeginReturn
<1>12. CASE ReturnDebit(w)
  BY <1>12 DEF ReturnDebit
<1> QED BY <1>1, <1>2, <1>3, <1>4, <1>5, <1>6, <1>7, <1>8, <1>9, <1>10, <1>11, <1>12 DEF NoCreationStep

(* A step that leaves the reservations and the database alone.             *)
LEMMA CreationKept ==
  ASSUME CreationInv, NEW w \in Workers, OtherThreads(w),
         UNCHANGED <<user_ids, reserved_account_ids, misreleased, uncommitted_db>>,
         NewAccountIDs(w)' \subseteq NewAccountIDs(w), Creating(w)' => Creating(w) \/ NewAccountIDs(w)' = {},
         CreatorOK(w)'
  PROVE  CreationInv'
<1>1. \A v \in Workers \ {w} : /\ NewAccountIDs(v)' = NewAccountIDs(v) /\ Pending(v)' = Pending(v)
                               /\ Creating(v)' = Creating(v)
  BY DEF NewAccountIDs, Pending, OtherThreads, Creating
<1>2. Owners' = Owners
  BY DEF Owners
<1>3. \A v \in Workers \ {w} : CreatorOK(v)'
  BY <1>1, <1>2 DEF CreationInv, CreatorOK, OtherThreads
<1>4. ASSUME NEW u \in Workers, NEW v \in Workers, u # v, Creating(u)', Creating(v)'
      PROVE  NewAccountIDs(u)' \intersect NewAccountIDs(v)' \subseteq misreleased'
  <2>1. \A y \in {u, v} : NewAccountIDs(y)' \subseteq NewAccountIDs(y) /\ (Creating(y) \/ NewAccountIDs(y)' = {})
    BY <1>1, <1>4
  <2>2. Creating(u) /\ Creating(v) => NewAccountIDs(u) \intersect NewAccountIDs(v) \subseteq misreleased
    BY <1>4 DEF CreationInv
  <2> QED BY <2>1, <2>2
<1> QED BY <1>2, <1>3, <1>4 DEF CreationInv

(* An id is reserved for one transaction.                                  *)
LEMMA process_create_account_CreationInv ==
  ASSUME Inv, CreationInv, NEW w \in Workers, process_create_account(w)
  PROVE  CreationInv'
<1> USE DEF SetPc, Inv, TypeOK, ThreadTypeOK
<1> DEFINE id == Op(w).account
<1>1. /\ pc[w] = "op" /\ op_idx[w] =< Len(tx[w].ops)
      /\ UNCHANGED <<user_ids, misreleased, uncommitted_db, todo>> /\ Creating(w)
      /\ pc'[w] \in {"unwind", "debit"}
      /\ \/ UNCHANGED <<reserved_account_ids, new_accounts>>
         \/ /\ id \notin user_ids /\ id \notin reserved_account_ids
            /\ reserved_account_ids' = reserved_account_ids \union {id}
            /\ new_accounts' = [new_accounts EXCEPT ![w] = Append(@, id)]
  BY DEF process_create_account, OpReady, Fail, OutsideOp, dbVars, reserve_account_creation, Creating
<1>2. OtherThreads(w)
  BY StepIsLocal DEF Step
<1>3. CreatorOK(w)
  BY DEF CreationInv
<1>4. CASE UNCHANGED <<reserved_account_ids, new_accounts>>
  <2>1. NewAccountIDs(w)' = NewAccountIDs(w) /\ Pending(w)' = Pending(w) /\ Owners' = Owners
    BY <1>1, <1>4 DEF NewAccountIDs, Pending, Owners
  <2>2. CreatorOK(w)'
    BY <1>1, <1>3, <1>4, <2>1 DEF CreatorOK
  <2> QED BY <1>1, <1>2, <1>4, <2>1, <2>2, CreationKept
<1>5. CASE /\ id \notin user_ids /\ id \notin reserved_account_ids
           /\ reserved_account_ids' = reserved_account_ids \union {id}
           /\ new_accounts' = [new_accounts EXCEPT ![w] = Append(@, id)]
  <2> DEFINE old == new_accounts[w]
             last == Len(old) + 1
  <2>1. id \in AccountIDs /\ old \in Seq(AccountIDs) /\ new_accounts'[w] = Append(old, id)
    BY <1>1, <1>5, CurrentOp
  <2>2. /\ DOMAIN new_accounts'[w] = DOMAIN old \union {last} /\ last \notin DOMAIN old
        /\ new_accounts'[w][last] = id
        /\ \A n \in DOMAIN old : new_accounts'[w][n] = old[n]
    BY <2>1, Appended
  <2>3. NewAccountIDs(w) = {old[n] : n \in DOMAIN old} /\ Pending(w) = NewAccountIDs(w)
    BY <1>1 DEF NewAccountIDs, Pending
  <2>4. NewAccountIDs(w)' = {new_accounts'[w][n] : n \in DOMAIN new_accounts'[w]}
        /\ Pending(w)' = NewAccountIDs(w)'
    BY <1>1 DEF NewAccountIDs, Pending
  <2> HIDE DEF id, old, last
  <2>5. NewAccountIDs(w)' = NewAccountIDs(w) \union {id} /\ Pending(w)' = NewAccountIDs(w) \union {id}
    BY <2>2, <2>3, <2>4
  <2>6. \A v \in Workers \ {w} : /\ NewAccountIDs(v)' = NewAccountIDs(v) /\ Pending(v)' = Pending(v)
                                 /\ Creating(v)' = Creating(v)
    BY <1>2 DEF NewAccountIDs, Pending, OtherThreads, Creating
  <2>7. Owners' = Owners
    BY <1>1 DEF Owners
  <2>8. \A n \in DOMAIN old : old[n] = id => id \in misreleased
    BY <1>1, <1>3, <1>5, <2>3 DEF CreatorOK
  <2>9. CreatorOK(w)'
    <3>1. \A m, n \in DOMAIN new_accounts'[w] :
            m # n /\ new_accounts'[w][m] = new_accounts'[w][n] => new_accounts'[w][m] \in misreleased
      BY <1>1, <1>3, <2>2, <2>8 DEF CreatorOK, old
    <3>2. NewAccountIDs(w)' \subseteq reserved_account_ids' \union misreleased
      BY <1>1, <1>3, <1>5, <2>5 DEF CreatorOK
    <3>3. Pending(w)' \intersect Owners' \subseteq misreleased
      BY <1>1, <1>3, <1>5, <2>3, <2>5, <2>7 DEF CreatorOK, CreationInv
    <3>4. NewAccountIDs(w)' \intersect user_ids = {}
      BY <1>3, <1>5, <2>5 DEF CreatorOK
    <3> QED BY <1>1, <3>1, <3>2, <3>3, <3>4 DEF CreatorOK
  <2>10. \A v \in Workers \ {w} : CreatorOK(v)'
    BY <1>1, <1>2, <1>5, <2>6, <2>7 DEF CreationInv, CreatorOK, OtherThreads
  <2>11. \A u, v \in Workers :
           u # v /\ Creating(u)' /\ Creating(v)' => NewAccountIDs(u)' \intersect NewAccountIDs(v)' \subseteq misreleased'
    <3>1. \A v \in Workers : Creating(v) /\ id \in NewAccountIDs(v) => id \in misreleased
      BY <1>5 DEF CreationInv, CreatorOK
    <3> SUFFICES ASSUME NEW u \in Workers, NEW v \in Workers, u # v, Creating(u)', Creating(v)'
                 PROVE  NewAccountIDs(u)' \intersect NewAccountIDs(v)' \subseteq misreleased
      BY <1>1
    <3>2. Creating(u) /\ Creating(v)
      BY <1>1, <2>6
    <3>3. NewAccountIDs(u) \intersect NewAccountIDs(v) \subseteq misreleased
      BY <3>2 DEF CreationInv
    <3>4. CASE u = w
      BY <2>5, <2>6, <3>1, <3>2, <3>3, <3>4
    <3>5. CASE v = w
      BY <2>5, <2>6, <3>1, <3>2, <3>3, <3>5
    <3>6. CASE u # w /\ v # w
      BY <2>6, <3>3, <3>6
    <3> QED BY <3>4, <3>5, <3>6
  <2>12. Owners' \subseteq reserved_account_ids' \union misreleased' /\ reserved_account_ids' \intersect user_ids' = {}
    BY <1>1, <1>5, <2>7 DEF CreationInv
  <2> QED BY <1>1, <2>7, <2>9, <2>10, <2>11, <2>12 DEF CreationInv
<1> QED BY <1>1, <1>4, <1>5

(* The account at the head of the loop becomes an entry of uncommitted_db: *)
(* nobody else has an entry for it, nobody else is going to make one.      *)
LEMMA commit_account_creation_CreationInv ==
  ASSUME Inv, CreationInv, NEW w \in Workers, commit_account_creation(w)
  PROVE  CreationInv'
<1> USE DEF Inv, TypeOK, ThreadTypeOK, DbTypeOK
<1> DEFINE Entry == [owner : AccountIDs, balance : [Assets -> Int]]
<1>1. PICK n \in todo[w] :
        /\ uncommitted_db' = Append(uncommitted_db,
             [owner   |-> new_accounts[w][n],
              balance |-> [x \in Assets |-> available_buffer[w][<<new_accounts[w][n], x>>]]])
        /\ todo' = [todo EXCEPT ![w] = @ \ {n}]
  BY DEF commit_account_creation
<1>2. /\ pc[w] = "create" /\ todo'[w] = todo[w] \ {n}
      /\ UNCHANGED <<pc, user_ids, reserved_account_ids, misreleased, new_accounts>>
      /\ Creating(w) /\ \A v \in Workers : Creating(v)' = Creating(v)
  BY <1>1 DEF commit_account_creation, OutsideCommit, dbVars, viewVars, Creating
<1>3. OtherThreads(w)
  BY StepIsLocal DEF Step
<1>4. CreatorOK(w)
  BY DEF CreationInv
<1>5. todo[w] \subseteq DOMAIN new_accounts[w]
  BY <1>2 DEF ViewsConsistent, ThreadConsistent
<1> DEFINE a == new_accounts[w][n]
           e == [owner |-> a, balance |-> [x \in Assets |-> available_buffer[w][<<a, x>>]]]
           last == Len(uncommitted_db) + 1
<1>6. a \in AccountIDs
  BY <1>5
<1>7. e \in Entry /\ e.owner = a
  <2>1. \A x \in Assets : available_buffer[w][<<a, x>>] \in Int
    BY <1>6 DEF Keys
  <2> QED BY <1>6, <2>1
<1>8. /\ DOMAIN uncommitted_db' = DOMAIN uncommitted_db \union {last} /\ last \notin DOMAIN uncommitted_db
      /\ uncommitted_db'[last] = e
      /\ \A m \in DOMAIN uncommitted_db : uncommitted_db'[m] = uncommitted_db[m]
  <2>1. uncommitted_db \in Seq(Entry) /\ uncommitted_db' = Append(uncommitted_db, e)
    BY <1>1
  <2> HIDE DEF Entry, e
  <2> QED BY <1>7, <2>1, Appended
<1>9. /\ a \in Pending(w) /\ a \in NewAccountIDs(w) /\ a \notin user_ids
      /\ a \in reserved_account_ids \union misreleased /\ (a \in Owners => a \in misreleased)
  BY <1>2, <1>4, <1>5 DEF Pending, NewAccountIDs, CreatorOK
<1> HIDE DEF e, last
<1>10. Owners' = Owners \union {a}
  BY <1>7, <1>8 DEF Owners
<1>11. \A v \in Workers : NewAccountIDs(v)' = NewAccountIDs(v)
  BY <1>2 DEF NewAccountIDs
<1>12. Pending(w)' = {new_accounts[w][m] : m \in todo[w] \ {n}} /\ Pending(w) = {new_accounts[w][m] : m \in todo[w]}
  BY <1>2 DEF Pending
<1>13. (a \in Pending(w)' => a \in misreleased) /\ Pending(w)' \subseteq Pending(w)
  BY <1>2, <1>4, <1>5, <1>12 DEF CreatorOK
<1> HIDE DEF a
<1>14. CreatorOK(w)'
  BY <1>2, <1>4, <1>10, <1>11, <1>13 DEF CreatorOK
<1>15. ASSUME NEW v \in Workers \ {w} PROVE CreatorOK(v)'
  <2>1. CreatorOK(v) /\ (Creating(v) /\ a \in NewAccountIDs(v) => a \in misreleased)
    BY <1>2, <1>9 DEF CreationInv
  <2>2. Pending(v)' = Pending(v)
    BY <1>2, <1>3 DEF Pending, OtherThreads
  <2>3. Pending(v) \subseteq NewAccountIDs(v)
    BY DEF Pending, NewAccountIDs, ViewsConsistent, ThreadConsistent
  <2>4. Creating(v) => Pending(v)' \intersect Owners' \subseteq misreleased
    BY <1>10, <2>1, <2>2, <2>3 DEF CreatorOK
  <2> QED BY <1>2, <1>3, <1>11, <2>1, <2>4 DEF CreatorOK, OtherThreads
<1>16. \A m \in DOMAIN uncommitted_db : uncommitted_db[m].owner = a => a \in misreleased
  BY <1>9 DEF Owners
<1>17. \A l, m \in DOMAIN uncommitted_db' :
         l # m /\ uncommitted_db'[l].owner = uncommitted_db'[m].owner => uncommitted_db'[l].owner \in misreleased
  BY <1>7, <1>8, <1>16 DEF CreationInv
<1>18. /\ Owners' \subseteq reserved_account_ids' \union misreleased'
       /\ reserved_account_ids' \intersect user_ids' = {} /\ Owners' \intersect user_ids' = {}
  BY <1>2, <1>9, <1>10 DEF CreationInv
<1>19. \A u, v \in Workers :
         u # v /\ Creating(u)' /\ Creating(v)' => NewAccountIDs(u)' \intersect NewAccountIDs(v)' \subseteq misreleased
  BY <1>2, <1>11 DEF CreationInv
<1> QED BY <1>2, <1>14, <1>15, <1>17, <1>18, <1>19 DEF CreationInv

(* A failing transaction gives up reservations under the indices of its    *)
(* new accounts: what it takes from another goes to misreleased.           *)
LEMMA release_account_creation_CreationInv ==
  ASSUME Inv, CreationInv, NEW w \in Workers, release_account_creation(w)
  PROVE  CreationInv'
<1>1. PICK id \in todo[w] :
        /\ reserved_account_ids' = reserved_account_ids \ {id}
        /\ misreleased' = misreleased \union ({id} \intersect HeldIDs)
        /\ todo' = [todo EXCEPT ![w] = @ \ {id}]
  BY DEF release_account_creation
<1>2. UNCHANGED <<user_ids, uncommitted_db, new_accounts, pc>> /\ pc[w] = "release"
  BY DEF release_account_creation, OutsideUnwind, viewVars
<1>3. \A v \in Workers : /\ NewAccountIDs(v)' = NewAccountIDs(v) /\ Creating(v)' = Creating(v)
                         /\ Pending(v)' = Pending(v)
  <2>1. OtherThreads(w)
    BY StepIsLocal DEF Step
  <2> QED BY <1>2, <2>1 DEF NewAccountIDs, Creating, Pending, OtherThreads
<1>4. Owners' = Owners
  BY <1>2 DEF Owners
<1>5. Owners \subseteq HeldIDs /\ \A v \in Workers : Creating(v) => NewAccountIDs(v) \subseteq HeldIDs
  BY DEF HeldIDs, Owners
<1>6. /\ misreleased \subseteq misreleased'
      /\ HeldIDs \intersect (reserved_account_ids \union misreleased) \subseteq reserved_account_ids' \union misreleased'
  BY <1>1
<1>7. ASSUME NEW v \in Workers PROVE CreatorOK(v)'
  <2>1. CreatorOK(v)
    BY DEF CreationInv
  <2>2. Creating(v) => NewAccountIDs(v) \subseteq reserved_account_ids' \union misreleased'
    BY <1>5, <1>6, <2>1 DEF CreatorOK
  <2> QED BY <1>2, <1>3, <1>4, <1>6, <2>1, <2>2 DEF CreatorOK
<1>8. Owners \subseteq reserved_account_ids' \union misreleased'
  BY <1>5, <1>6 DEF CreationInv
<1>9. reserved_account_ids' \subseteq reserved_account_ids
  BY <1>1
<1>10. \A u, v \in Workers :
         u # v /\ Creating(u)' /\ Creating(v)' => NewAccountIDs(u)' \intersect NewAccountIDs(v)' \subseteq misreleased'
  BY <1>3, <1>6 DEF CreationInv
<1> QED BY <1>2, <1>4, <1>6, <1>7, <1>8, <1>9, <1>10 DEF CreationInv

(* A step that leaves the ids and the new accounts of a thread alone, and   *)
(* does not make it return or start creating, keeps what it relies on.     *)
LEMMA CreatorOKKept ==
  ASSUME NEW w \in Workers, CreatorOK(w), pc'[w] # "idle", Creating(w)' => Creating(w),
         UNCHANGED <<user_ids, reserved_account_ids, misreleased, new_accounts>>,
         NewAccountIDs(w)' = NewAccountIDs(w), Pending(w)' = Pending(w), Owners' = Owners
  PROVE  CreatorOK(w)'
<1>1. NewAccountIDs(w)' \intersect user_ids' = {}
  BY DEF CreatorOK
<1>2. Creating(w)' => NewAccountIDs(w)' \subseteq reserved_account_ids' \union misreleased'
  BY DEF CreatorOK
<1>3. Creating(w)' => Pending(w)' \intersect Owners' \subseteq misreleased'
  BY DEF CreatorOK
<1>4. Creating(w)' => \A m, n \in DOMAIN new_accounts'[w] :
        m # n /\ new_accounts'[w][m] = new_accounts'[w][n] => new_accounts'[w][m] \in misreleased'
  BY DEF CreatorOK
<1> QED BY <1>1, <1>2, <1>3, <1>4 DEF CreatorOK

(* The other steps of a thread create no account.                          *)
LEMMA Step_CreationInv ==
  ASSUME Inv, CreationInv, NEW w \in Workers, Step(w)
  PROVE  CreationInv'
<1> USE DEF SetPc
<1>1. OtherThreads(w) /\ UNCHANGED user_ids
  BY StepIsLocal
<1>2. CreatorOK(w) /\ pc \in [Workers -> PcValues] /\ todo = [v \in Workers |-> todo[v]]
      /\ new_accounts \in [Workers -> Seq(AccountIDs)] /\ reserved_account_ids \subseteq AccountIDs
  BY DEF CreationInv, Inv, TypeOK, ThreadTypeOK, DbTypeOK
<1>3. CASE NoCreationStep(w)
  <2>1. /\ UNCHANGED <<reserved_account_ids, misreleased, uncommitted_db, new_accounts>>
        /\ pc[w] \notin {"idle", "create"} /\ pc'[w] \notin {"idle", "create"} /\ (Creating(w)' => Creating(w))
    BY <1>3, NoCreationFacts
  <2>2. NewAccountIDs(w)' = NewAccountIDs(w) /\ Pending(w)' = Pending(w) /\ Owners' = Owners
    BY <2>1 DEF NewAccountIDs, Pending, Owners
  <2>3. CreatorOK(w)'
    BY <1>1, <1>2, <2>1, <2>2, CreatorOKKept
  <2> QED BY <1>1, <2>1, <2>2, <2>3, CreationKept
<1>4. CASE \E t \in Txs : process_transaction_begin(w, t)
  <2>1. UNCHANGED <<reserved_account_ids, misreleased, uncommitted_db, new_accounts, todo>>
        /\ pc[w] = "idle" /\ new_accounts[w] = << >>
    BY <1>2, <1>4 DEF process_transaction_begin, dbVars, viewVars, CreatorOK
  <2>2. NewAccountIDs(w)' = {} /\ NewAccountIDs(w) = {} /\ Pending(w)' = {}
    <3>1. pc'[w] # "create" /\ DOMAIN new_accounts'[w] = {} /\ DOMAIN new_accounts[w] = {}
      BY <1>2, <1>4, <2>1 DEF process_transaction_begin
    <3> QED BY <3>1 DEF NewAccountIDs, Pending
  <2>3. CreatorOK(w)'
    BY <2>1, <2>2 DEF CreatorOK
  <2> QED BY <1>1, <2>1, <2>2, <2>3, CreationKept
<1>5. CASE process_create_account(w)
  BY <1>5, process_create_account_CreationInv
<1>6. CASE BeginCreation(w)
  <2>1. UNCHANGED <<reserved_account_ids, misreleased, uncommitted_db, new_accounts>>
        /\ pc[w] = "commit" /\ pc'[w] = "create" /\ todo'[w] = DOMAIN new_accounts[w]
        /\ Creating(w)
    BY <1>2, <1>6 DEF BeginCreation, OutsideCommit, dbVars, viewVars, Creating
  <2>2. NewAccountIDs(w)' = NewAccountIDs(w) /\ Pending(w)' = Pending(w) /\ Owners' = Owners
    BY <2>1 DEF NewAccountIDs, Pending, Owners
  <2>3. CreatorOK(w)'
    BY <1>1, <1>2, <2>1, <2>2, CreatorOKKept
  <2> QED BY <1>1, <2>1, <2>2, <2>3, CreationKept
<1>7. CASE commit_account_creation(w)
  BY <1>7, commit_account_creation_CreationInv
<1>8. CASE BeginRelease(w)
  <2>1. UNCHANGED <<reserved_account_ids, misreleased, uncommitted_db, new_accounts>>
        /\ pc[w] = "return" /\ pc'[w] = "release" /\ ~ Creating(w)'
    BY <1>2, <1>8 DEF BeginRelease, OutsideUnwind, viewVars, Creating
  <2>2. NewAccountIDs(w)' = NewAccountIDs(w)
    BY <2>1 DEF NewAccountIDs
  <2>3. CreatorOK(w)'
    BY <1>1, <1>2, <2>1, <2>2 DEF CreatorOK
  <2> QED BY <1>1, <2>1, <2>2, <2>3, CreationKept
<1>9. CASE release_account_creation(w)
  BY <1>9, release_account_creation_CreationInv
<1>10. CASE FinishTransaction(w)
  <2>1. UNCHANGED <<reserved_account_ids, misreleased, uncommitted_db>>
        /\ pc'[w] = "idle" /\ new_accounts'[w] = << >>
    BY <1>2, <1>10 DEF FinishTransaction, Return, dbVars
  <2>2. NewAccountIDs(w)' = {} /\ Pending(w)' = {}
    BY <2>1 DEF NewAccountIDs, Pending
  <2>3. CreatorOK(w)'
    BY <2>1, <2>2 DEF CreatorOK
  <2> QED BY <1>1, <2>1, <2>2, <2>3, CreationKept
<1>11. CASE AbortTransaction(w)
  <2>1. UNCHANGED <<reserved_account_ids, misreleased, uncommitted_db>> /\ pc[w] = "release"
        /\ \/ pc'[w] = "idle" /\ new_accounts'[w] = << >>
           \/ pc'[w] = "threw" /\ UNCHANGED new_accounts
    BY <1>2, <1>11 DEF AbortTransaction, Return, dbVars, viewVars
  <2>2. CASE pc'[w] = "idle" /\ new_accounts'[w] = << >>
    <3>1. NewAccountIDs(w)' = {} /\ Pending(w)' = {}
      BY <2>2 DEF NewAccountIDs, Pending
    <3>2. CreatorOK(w)'
      BY <2>2, <3>1 DEF CreatorOK
    <3> QED BY <1>1, <2>1, <3>1, <3>2, CreationKept
  <2>3. CASE pc'[w] = "threw" /\ UNCHANGED new_accounts
    <3>1. NewAccountIDs(w)' = NewAccountIDs(w) /\ Pending(w)' = Pending(w) /\ Owners' = Owners
      BY <2>1, <2>3 DEF NewAccountIDs, Pending, Owners
    <3>2. CreatorOK(w)' /\ ~ Creating(w)'
      BY <1>1, <1>2, <2>1, <2>3, <3>1 DEF CreatorOK, Creating
    <3> QED BY <1>1, <2>1, <3>1, <3>2, CreationKept
  <2> QED BY <2>1, <2>2, <2>3
<1> QED BY <1>3, <1>4, <1>5, <1>6, <1>7, <1>8, <1>9, <1>10, <1>11 DEF Step, NoCreationStep

(* Whoever has reserved an id keeps it until the block is committed, or it *)
(* is in misreleased.                                                      *)
LEMMA CreationInvHolds == Spec => []CreationInv
<1>1. Init => CreationInv
  <2> SUFFICES ASSUME Init PROVE CreationInv
    OBVIOUS
  <2>1. Owners = {} /\ \A w \in Workers : NewAccountIDs(w) = {} /\ Pending(w) = {}
    BY DEF Init, Owners, NewAccountIDs, Pending
  <2> QED BY <2>1 DEF Init, CreationInv, CreatorOK
<1>2. Inv /\ CreationInv /\ [Next]_vars => CreationInv'
  <2> SUFFICES ASSUME Inv, CreationInv, [Next]_vars PROVE CreationInv'
    OBVIOUS
  <2>1. ASSUME NEW w \in Workers, Step(w) PROVE CreationInv'
    BY <2>1, Step_CreationInv
  <2>2. CASE CommitBlock
    <3>1. /\ \A w \in Workers : pc[w] = "idle" /\ pc'[w] = "idle" /\ new_accounts'[w] = new_accounts[w]
          /\ uncommitted_db' = << >> /\ reserved_account_ids' = {}
      BY <2>2 DEF CommitBlock, Quiescent, viewVars
    <3>2. \A w \in Workers : new_accounts'[w] = << >>
      BY <3>1 DEF CreationInv, CreatorOK
    <3>3. Owners' = {} /\ \A w \in Workers : NewAccountIDs(w)' = {} /\ Pending(w)' = {}
      BY <3>1, <3>2 DEF Owners, NewAccountIDs, Pending
    <3>4. \A w \in Workers : CreatorOK(w)'
      BY <3>1, <3>2, <3>3 DEF CreatorOK
    <3> QED BY <3>1, <3>3, <3>4 DEF CreationInv
  <2>3. CASE UNCHANGED vars
    <3>1. UNCHANGED <<user_ids, reserved_account_ids, misreleased, uncommitted_db, new_accounts, pc, todo>>
      BY <2>3 DEF vars, dbVars, viewVars
    <3>2. Owners' = Owners
          /\ \A w \in Workers : /\ NewAccountIDs(w)' = NewAccountIDs(w) /\ Pending(w)' = Pending(w)
                               /\ Creating(w)' = Creating(w)
      BY <3>1 DEF Owners, NewAccountIDs, Pending, Creating
    <3>3. \A w \in Workers : CreatorOK(w)'
      BY <3>1, <3>2 DEF CreationInv, CreatorOK
    <3> QED BY <3>1, <3>2, <3>3 DEF CreationInv
  <2> QED BY <2>1, <2>2, <2>3 DEF Next, Done
<1> QED BY <1>1, <1>2, Initially, InvInductive, PTL DEF Spec

(* An account is created by one transaction, and only if it does not yet   *)
(* exist: whoever has reserved an id keeps it until the block is committed *)
(* and nobody else gets it, unless a failing transaction has released it   *)
(* under an index of its own (misreleased).                                *)
THEOREM CreatedOnceHolds == Spec => []CreatedOnce
<1>1. Inv /\ CreationInv => CreatedOnce
  <2> SUFFICES ASSUME Inv, CreationInv PROVE CreatedOnce
    OBVIOUS
  <2>1. \A n \in DOMAIN uncommitted_db : n \in Nat /\ \A j \in 1 .. n - 1 : j \in DOMAIN uncommitted_db /\ j # n
    BY DEF Inv, TypeOK, DbTypeOK
  <2>2. \A n \in DOMAIN uncommitted_db \ FirstEntries : uncommitted_db[n].owner \in misreleased
    BY <2>1 DEF FirstEntries, CreationInv
  <2>3. \A n \in DOMAIN uncommitted_db : uncommitted_db[n].owner \notin user_ids
    BY DEF CreationInv, Owners
  <2> QED BY <2>2, <2>3 DEF CreatedOnce
<1> QED BY <1>1, Initially, InvInductive, CreationInvHolds, PTL DEF Spec

-----------------------------------------------------------------------------
(* Orderbooks.  The operations of w's transaction whose new offer is in    *)
(* new_offers[w], and those that have marked the offer they cancel.        *)
SellOps(w) ==
  {i \in DOMAIN tx[w].ops :
     /\ pc[w] # "idle" /\ tx[w].ops[i].type = "CREATE_SELL_OFFER"
     /\ i < op_idx[w] \/ (i = op_idx[w] /\ pc[w] \in {"debit", "cas"})}
OwnOffers(w) == {OfferMade(tx[w], i) : i \in SellOps(w)}

CancelOps(w) ==
  {i \in DOMAIN tx[w].ops :
     pc[w] # "idle" /\ tx[w].ops[i].type = "CANCEL_SELL_OFFER" /\ i < op_idx[w]}
OwnCancels(w) == {<<tx[w], i>> : i \in CancelOps(w)}

(* The offers the transactions of the block have made, and what they have  *)
(* cancelled.                                                              *)
BlockOps(type) == {p \in OpsOf(confirmed) : p[1].ops[p[2]].type = type}
BlockOffers == {OfferMade(p[1], p[2]) : p \in BlockOps("CREATE_SELL_OFFER")}
AllCancels == BlockOps("CANCEL_SELL_OFFER") \union UNION {OwnCancels(w) : w \in Workers}

(* How far the transaction is where it commits, unwinds or gives up.       *)
Progress(w) ==
  pc[w] # "idle" =>
    /\ op_idx[w] =< Len(tx[w].ops) + 1
    /\ pc[w] \in {"commit", "create"} => op_idx[w] = Len(tx[w].ops) + 1
    /\ pc[w] \in {"return", "release"} => op_idx[w] = 1
    /\ pc[w] \in {"debit", "cas"} => Op(w).type # "CANCEL_SELL_OFFER"

NewOffersInv ==
  /\ BlockOffers \subseteq UNION {new_offers[w] : w \in Workers}
  /\ \A w \in Workers : /\ OwnOffers(w) \subseteq new_offers[w]
                        /\ new_offers[w] \subseteq OwnOffers(w) \union BlockOffers

(* Every cancellation has marked an offer of its own.                      *)
MarkedInv ==
  /\ marked = UNION {OfferNamed(p[1], p[2]) : p \in AllCancels}
  /\ \A p, q \in AllCancels : p # q => OfferNamed(p[1], p[2]) \intersect OfferNamed(q[1], q[2]) = {}

(* An open offer is known by its owner and id, and is older than the       *)
(* numbers that its owner can still use.                                   *)
OffersKnown ==
  /\ \A o, p \in committed_offers : o.owner = p.owner /\ o.offerId = p.offerId => o = p
  /\ \A o \in committed_offers : o.offerId[1] =< last_committed_id[o.owner]

BooksInv == (\A w \in Workers : Progress(w)) /\ NewOffersInv /\ MarkedInv /\ OffersKnown
-----------------------------------------------------------------------------
(* What a step of w may do to the orderbooks.                              *)
BooksKept(w) ==
  /\ OwnOffers(w)' = OwnOffers(w) /\ OwnCancels(w)' = OwnCancels(w)
  /\ UNCHANGED <<new_offers, marked>>

OfferAdded(w, i) ==
  /\ OwnOffers(w)' = OwnOffers(w) \union {OfferMade(tx[w], i)}
  /\ new_offers'[w] = new_offers[w] \union {OfferMade(tx[w], i)}
  /\ OwnCancels(w)' = OwnCancels(w) /\ UNCHANGED marked

OfferRemoved(w, i) ==
  /\ OwnOffers(w)' = OwnOffers(w) \ {OfferMade(tx[w], i)}
  /\ new_offers'[w] = new_offers[w] \ {OfferMade(tx[w], i)}
  /\ OwnCancels(w)' = OwnCancels(w) /\ UNCHANGED marked

OfferCancelled(w, i) ==
  /\ OwnOffers(w)' = OwnOffers(w) /\ UNCHANGED new_offers
  /\ OwnCancels(w)' = OwnCancels(w) \union {<<tx[w], i>>}
  /\ \E o \in OfferNamed(tx[w], i) \ marked : marked' = marked \union {o}

CancelUndone(w, i) ==
  /\ OwnOffers(w)' = OwnOffers(w) /\ UNCHANGED new_offers
  /\ <<tx[w], i>> \in OwnCancels(w)
  /\ OwnCancels(w)' = OwnCancels(w) \ {<<tx[w], i>>}
  /\ marked' = marked \ OfferNamed(tx[w], i)

BooksStep(w) ==
  \/ BooksKept(w)
  \/ \E i \in DOMAIN tx[w].ops :
       OfferAdded(w, i) \/ OfferRemoved(w, i) \/ OfferCancelled(w, i) \/ CancelUndone(w, i)

(* Two operations make different offers.                                   *)
LEMMA OffersDiffer ==
  ASSUME NEW t, NEW u, NEW i, NEW j, OfferMade(t, i) = OfferMade(u, j)
  PROVE  t.source = u.source /\ t.seq = u.seq /\ i = j
<1>1. OfferMade(t, i).owner = OfferMade(u, j).owner /\ OfferMade(t, i).offerId = OfferMade(u, j).offerId
  OBVIOUS
<1>2. t.source = u.source /\ <<t.seq, i>> = <<u.seq, j>>
  BY <1>1 DEF OfferMade
<1> QED BY <1>2

(* The offers of all operations but one.                                   *)
LEMMA OffersWithout ==
  ASSUME NEW t, NEW S, NEW i
  PROVE  {OfferMade(t, j) : j \in S \ {i}} = {OfferMade(t, j) : j \in S} \ {OfferMade(t, i)}
<1>1. \A j : OfferMade(t, j) = OfferMade(t, i) => j = i
  BY OffersDiffer
<1> QED BY <1>1

(* A transaction that runs is neither in the block nor run twice, and none *)
(* of its offers is one of the block's.                                    *)
LEMMA RunsAlone ==
  ASSUME Inv, SlotsInv, NEW w \in Workers, pc[w] # "idle"
  PROVE  /\ tx[w] \notin confirmed
         /\ \A v \in Workers \ {w} : pc[v] # "idle" => tx[v] # tx[w]
         /\ \A i : OfferMade(tx[w], i) \notin BlockOffers
<1>1. w \in Busy
  BY DEF Busy
<1>2. tx[w] \notin confirmed
  BY <1>1 DEF SlotsInv, SlotsExclusive
<1>3. \A v \in Workers \ {w} : pc[v] # "idle" => tx[v] # tx[w]
  BY <1>1 DEF SlotsInv, SlotsExclusive, Busy
<1>4. ASSUME NEW i, OfferMade(tx[w], i) \in BlockOffers PROVE FALSE
  <2>1. PICK p \in OpsOf(confirmed) : OfferMade(tx[w], i) = OfferMade(p[1], p[2])
    BY <1>4 DEF BlockOffers, BlockOps
  <2>2. p[1] \in confirmed
    BY DEF OpsOf
  <2>3. tx[w].source = p[1].source /\ tx[w].seq = p[1].seq
    BY <2>1, OffersDiffer
  <2>4. Slot(tx[w]) = Slot(p[1])
    BY <2>3 DEF Slot
  <2> QED BY <1>1, <2>2, <2>4 DEF SlotsInv, SlotsExclusive
<1> QED BY <1>2, <1>3, <1>4

(* A step that neither moves on to the next operation nor changes which    *)
(* offers count as made.                                                   *)
LEMMA SameOps ==
  ASSUME NEW w \in Workers, pc[w] # "idle", pc'[w] # "idle", tx'[w] = tx[w], op_idx'[w] = op_idx[w],
         \/ pc[w] \in {"debit", "cas"} <=> pc'[w] \in {"debit", "cas"}
         \/ Op(w).type # "CREATE_SELL_OFFER"
  PROVE  OwnOffers(w)' = OwnOffers(w) /\ OwnCancels(w)' = OwnCancels(w)
<1>1. SellOps(w)' = SellOps(w)
  BY DEF SellOps, Op
<1>2. CancelOps(w)' = CancelOps(w)
  BY DEF CancelOps
<1> QED BY <1>1, <1>2 DEF OwnOffers, OwnCancels, OfferMade

(* A step on to the next operation.                                        *)
LEMMA NextOps ==
  ASSUME Inv, NEW w \in Workers, pc[w] # "idle", pc'[w] = "op", tx'[w] = tx[w],
         op_idx[w] \in DOMAIN tx[w].ops, op_idx'[w] = op_idx[w] + 1
  PROVE  /\ SellOps(w)' = IF Op(w).type = "CREATE_SELL_OFFER" THEN SellOps(w) \union {op_idx[w]}
                          ELSE SellOps(w)
         /\ CancelOps(w)' = IF Op(w).type = "CANCEL_SELL_OFFER" THEN CancelOps(w) \union {op_idx[w]}
                            ELSE CancelOps(w)
         /\ Progress(w)'
<1>1. tx[w] \in Txs /\ op_idx[w] \in Nat \ {0}
  BY Running
<1>2. tx[w].ops \in Seq(Operation)
  BY <1>1, TxFacts
<1>3. \A i \in DOMAIN tx[w].ops : i \in Nat /\ i =< Len(tx[w].ops)
  BY <1>2
<1>4. SellOps(w)' = IF Op(w).type = "CREATE_SELL_OFFER" THEN SellOps(w) \union {op_idx[w]}
                    ELSE SellOps(w)
  BY <1>1, <1>3 DEF SellOps, Op
<1>5. CancelOps(w)' = IF Op(w).type = "CANCEL_SELL_OFFER" THEN CancelOps(w) \union {op_idx[w]}
                      ELSE CancelOps(w)
  BY <1>1, <1>3 DEF CancelOps, Op
<1>6. Progress(w)'
  BY <1>1, <1>2, <1>3 DEF Progress
<1> QED BY <1>4, <1>5, <1>6

(* The steps that concern no orderbook and no operation's end.             *)
OffBooksStep(w) ==
  \/ process_create_account(w) \/ process_payment(w)
  \/ BeginCommit(w) \/ CommitCredit(w) \/ BeginCreation(w) \/ commit_account_creation(w)
  \/ BeginReturn(w) \/ ReturnDebit(w) \/ BeginRelease(w) \/ release_account_creation(w)

(* They leave the books as they are.                                       *)
LEMMA OffBooks ==
  ASSUME Inv, NEW w \in Workers, Progress(w), OffBooksStep(w)
  PROVE  Progress(w)' /\ BooksKept(w) /\ UNCHANGED <<committed_offers, confirmed>>
<1> DEFINE Moves(from, to) ==
      /\ pc[w] \in from /\ pc'[w] \in to
      /\ UNCHANGED <<tx, op_idx, new_offers, marked, committed_offers, confirmed>>
<1> USE DEF Inv, TypeOK, ThreadTypeOK, SetPc, dbVars, bookVars, blockVars, OutsideOp, OutsideCommit,
            OutsideUnwind, OpReady, Fail
<1>1. CASE process_create_account(w) \/ process_payment(w)
  <2>1. Moves({"op"}, {"unwind", "debit"}) /\ Op(w).type \in {"CREATE_ACCOUNT", "PAYMENT"}
    BY <1>1 DEF process_create_account, process_payment
  <2>2. OwnOffers(w)' = OwnOffers(w) /\ OwnCancels(w)' = OwnCancels(w)
    BY <2>1, SameOps
  <2> QED BY <2>1, <2>2 DEF BooksKept, Progress, Op
<1>2. CASE BeginCommit(w)
  <2>1. Moves({"op"}, {"commit"}) /\ op_idx[w] > Len(tx[w].ops)
    BY <1>2 DEF BeginCommit
  <2>2. OwnOffers(w)' = OwnOffers(w) /\ OwnCancels(w)' = OwnCancels(w)
    BY <2>1, SameOps
  <2>3. op_idx[w] \in Nat /\ Len(tx[w].ops) \in Nat
    BY <2>1, Running, TxFacts
  <2> QED BY <2>1, <2>2, <2>3 DEF BooksKept, Progress
<1>3. CASE CommitCredit(w) \/ BeginCreation(w) \/ commit_account_creation(w)
  <2>1. Moves({"commit", "create"}, {"commit", "create"})
    BY <1>3 DEF CommitCredit, BeginCreation, commit_account_creation
  <2>2. OwnOffers(w)' = OwnOffers(w) /\ OwnCancels(w)' = OwnCancels(w)
    BY <2>1, SameOps
  <2> QED BY <2>1, <2>2 DEF BooksKept, Progress
<1>4. CASE BeginReturn(w) \/ ReturnDebit(w) \/ BeginRelease(w) \/ release_account_creation(w)
  <2>1. Moves({"unwind", "return", "release"}, {"return", "release"})
        /\ (pc[w] = "unwind" => op_idx[w] = 1)
    BY <1>4 DEF BeginReturn, ReturnDebit, BeginRelease, release_account_creation
  <2>2. OwnOffers(w)' = OwnOffers(w) /\ OwnCancels(w)' = OwnCancels(w)
    BY <2>1, SameOps
  <2> QED BY <2>1, <2>2 DEF BooksKept, Progress
<1> QED BY <1>1, <1>2, <1>3, <1>4 DEF OffBooksStep

(* An operation that ends.                                                 *)
LEMMA OpEnds ==
  ASSUME Inv, NEW w \in Workers, Progress(w),
         process_money_printer(w) \/ DebitFromBuffer(w) \/ CompareExchange(w)
  PROVE  Progress(w)' /\ BooksKept(w) /\ UNCHANGED <<committed_offers, confirmed>>
<1> USE DEF Inv, TypeOK, ThreadTypeOK, SetPc, dbVars, bookVars, blockVars, OutsideOp, OpReady, NextOp
<1>1. /\ UNCHANGED <<tx, new_offers, marked, committed_offers, confirmed>>
      /\ \/ pc[w] = "op" /\ Op(w).type = "MONEY_PRINTER" /\ op_idx[w] =< Len(tx[w].ops)
         \/ pc[w] \in {"debit", "cas"}
      /\ \/ pc'[w] = "op" /\ op_idx'[w] = op_idx[w] + 1
         \/ pc[w] = "cas" /\ pc'[w] = "debit" /\ UNCHANGED op_idx
  BY DEF process_money_printer, DebitFromBuffer, CompareExchange
<1>2. CASE pc[w] = "cas" /\ pc'[w] = "debit" /\ UNCHANGED op_idx
  <2>1. OwnOffers(w)' = OwnOffers(w) /\ OwnCancels(w)' = OwnCancels(w)
    BY <1>1, <1>2, SameOps
  <2> QED BY <1>1, <1>2, <2>1 DEF BooksKept, Progress, Op
<1>3. CASE pc'[w] = "op" /\ op_idx'[w] = op_idx[w] + 1
  <2>1. op_idx[w] \in DOMAIN tx[w].ops
    BY <1>1, Running, CurrentOp DEF ThreadConsistent
  <2>2. /\ Progress(w)'
        /\ SellOps(w)' = IF Op(w).type = "CREATE_SELL_OFFER" THEN SellOps(w) \union {op_idx[w]}
                         ELSE SellOps(w)
        /\ CancelOps(w)' = IF Op(w).type = "CANCEL_SELL_OFFER" THEN CancelOps(w) \union {op_idx[w]}
                           ELSE CancelOps(w)
    BY <1>1, <1>3, <2>1, NextOps
  <2>3. Op(w).type # "CANCEL_SELL_OFFER"
    BY <1>1 DEF Progress
  <2>4. SellOps(w)' = SellOps(w)
    BY <1>1, <2>1, <2>2 DEF SellOps, Op
  <2> QED BY <1>1, <2>2, <2>3, <2>4 DEF BooksKept, OwnOffers, OwnCancels, OfferMade
<1> QED BY <1>1, <1>2, <1>3

(* A sell offer is entered, or refused.                                    *)
LEMMA process_create_sell_offer_Books ==
  ASSUME Inv, NEW w \in Workers, Progress(w), process_create_sell_offer(w)
  PROVE  Progress(w)' /\ BooksStep(w) /\ UNCHANGED <<committed_offers, confirmed>>
<1> USE DEF Inv, TypeOK, ThreadTypeOK, BookTypeOK, SetPc, blockVars, OutsideOp, OpReady, Fail
<1> DEFINE n == op_idx[w]
<1>1. /\ pc[w] = "op" /\ Op(w).type = "CREATE_SELL_OFFER" /\ n =< Len(tx[w].ops)
      /\ UNCHANGED <<tx, op_idx, marked, committed_offers, confirmed>>
      /\ \/ pc'[w] = "unwind" /\ UNCHANGED new_offers
         \/ pc'[w] = "debit" /\ new_offers'[w] = new_offers[w] \union {OfferMade(tx[w], n)}
  BY DEF process_create_sell_offer
<1>2. Progress(w)'
  BY <1>1 DEF Progress, Op
<1>3. CASE pc'[w] = "unwind" /\ UNCHANGED new_offers
  <2>1. OwnOffers(w)' = OwnOffers(w) /\ OwnCancels(w)' = OwnCancels(w)
    BY <1>1, <1>3, SameOps
  <2> QED BY <1>1, <1>2, <1>3, <2>1 DEF BooksStep, BooksKept
<1>4. CASE pc'[w] = "debit" /\ new_offers'[w] = new_offers[w] \union {OfferMade(tx[w], n)}
  <2>1. n \in DOMAIN tx[w].ops
    BY <1>1, CurrentOp
  <2>2. SellOps(w)' = SellOps(w) \union {n}
    BY <1>1, <1>4, <2>1 DEF SellOps, Op
  <2>3. CancelOps(w)' = CancelOps(w)
    BY <1>1, <1>4 DEF CancelOps
  <2>4. OwnOffers(w)' = OwnOffers(w) \union {OfferMade(tx[w], n)} /\ OwnCancels(w)' = OwnCancels(w)
    BY <1>1, <2>2, <2>3 DEF OwnOffers, OwnCancels, OfferMade
  <2>5. OfferAdded(w, n)
    BY <1>1, <1>4, <2>4 DEF OfferAdded
  <2> QED BY <1>1, <1>2, <2>1, <2>5 DEF BooksStep
<1> QED BY <1>1, <1>3, <1>4

(* An offer whose escrow is refused is taken out again.                    *)
LEMMA LoadBalance_Books ==
  ASSUME Inv, NEW w \in Workers, Progress(w), LoadBalance(w)
  PROVE  Progress(w)' /\ BooksStep(w) /\ UNCHANGED <<committed_offers, confirmed>>
<1> USE DEF Inv, TypeOK, ThreadTypeOK, BookTypeOK, SetPc, blockVars, Fail
<1> DEFINE n == op_idx[w]
<1>1. /\ pc[w] = "debit" /\ UNCHANGED <<tx, op_idx, marked, committed_offers, confirmed>>
      /\ \/ pc'[w] = "cas" /\ UNCHANGED new_offers
         \/ pc'[w] = "unwind" /\ Op(w).type # "CREATE_SELL_OFFER" /\ UNCHANGED new_offers
         \/ /\ pc'[w] = "unwind" /\ Op(w).type = "CREATE_SELL_OFFER"
            /\ new_offers'[w] = new_offers[w] \ {OfferMade(tx[w], n)}
  BY DEF LoadBalance
<1>2. Progress(w)'
  BY <1>1 DEF Progress, Op
<1>3. CASE (pc'[w] = "cas" \/ (pc'[w] = "unwind" /\ Op(w).type # "CREATE_SELL_OFFER")) /\ UNCHANGED new_offers
  <2>1. OwnOffers(w)' = OwnOffers(w) /\ OwnCancels(w)' = OwnCancels(w)
    BY <1>1, <1>3, SameOps
  <2> QED BY <1>1, <1>2, <1>3, <2>1 DEF BooksStep, BooksKept
<1>4. CASE /\ pc'[w] = "unwind" /\ Op(w).type = "CREATE_SELL_OFFER"
           /\ new_offers'[w] = new_offers[w] \ {OfferMade(tx[w], n)}
  <2>1. n \in DOMAIN tx[w].ops /\ n \in Nat
    BY <1>1, Running DEF ThreadConsistent
  <2>2. SellOps(w)' = SellOps(w) \ {n}
    BY <1>1, <1>4, <2>1 DEF SellOps
  <2>3. CancelOps(w)' = CancelOps(w)
    BY <1>1, <1>4 DEF CancelOps
  <2>4. OwnOffers(w)' = {OfferMade(tx[w], i) : i \in SellOps(w) \ {n}} /\ OwnCancels(w)' = OwnCancels(w)
    BY <1>1, <2>2, <2>3 DEF OwnOffers, OwnCancels, OfferMade
  <2>5. OwnOffers(w)' = OwnOffers(w) \ {OfferMade(tx[w], n)}
    BY <2>4, OffersWithout DEF OwnOffers
  <2>6. OfferRemoved(w, n)
    BY <1>1, <1>4, <2>4, <2>5 DEF OfferRemoved
  <2> QED BY <1>1, <1>2, <2>1, <2>6 DEF BooksStep
<1> QED BY <1>1, <1>3, <1>4

(* A cancellation marks its offer, or is refused.                          *)
LEMMA process_cancel_sell_offer_Books ==
  ASSUME Inv, NEW w \in Workers, Progress(w), process_cancel_sell_offer(w)
  PROVE  Progress(w)' /\ BooksStep(w) /\ UNCHANGED <<committed_offers, confirmed>>
<1> USE DEF Inv, TypeOK, ThreadTypeOK, SetPc, blockVars, OutsideOp, OpReady, Fail, NextOp
<1> DEFINE n == op_idx[w]
<1>1. /\ pc[w] = "op" /\ Op(w).type = "CANCEL_SELL_OFFER" /\ n =< Len(tx[w].ops)
      /\ UNCHANGED <<tx, new_offers, committed_offers, confirmed>>
      /\ \/ pc'[w] = "unwind" /\ op_idx' = op_idx /\ UNCHANGED marked
         \/ /\ pc'[w] = "op" /\ op_idx'[w] = n + 1
            /\ \E o \in OfferNamed(tx[w], n) \ marked : marked' = marked \union {o}
  BY DEF process_cancel_sell_offer
<1>2. CASE pc'[w] = "unwind" /\ op_idx' = op_idx /\ UNCHANGED marked
  <2>1. OwnOffers(w)' = OwnOffers(w) /\ OwnCancels(w)' = OwnCancels(w)
    BY <1>1, <1>2, SameOps
  <2>2. Progress(w)'
    BY <1>1, <1>2 DEF Progress
  <2> QED BY <1>1, <1>2, <2>1, <2>2 DEF BooksStep, BooksKept
<1>3. CASE /\ pc'[w] = "op" /\ op_idx'[w] = n + 1
           /\ \E o \in OfferNamed(tx[w], n) \ marked : marked' = marked \union {o}
  <2>1. n \in DOMAIN tx[w].ops
    BY <1>1, CurrentOp
  <2>2. SellOps(w)' = SellOps(w) /\ CancelOps(w)' = CancelOps(w) \union {n} /\ Progress(w)'
    BY <1>1, <1>3, <2>1, NextOps
  <2>3. OwnOffers(w)' = OwnOffers(w) /\ OwnCancels(w)' = OwnCancels(w) \union {<<tx[w], n>>}
    BY <1>1, <2>2 DEF OwnOffers, OwnCancels, OfferMade
  <2>4. OfferCancelled(w, n)
    BY <1>1, <1>3, <2>3 DEF OfferCancelled
  <2> QED BY <1>1, <2>1, <2>2, <2>4 DEF BooksStep
<1> QED BY <1>1, <1>2, <1>3

(* An operation before the one that failed is taken back.                  *)
LEMMA unwind_operation_Books ==
  ASSUME Inv, NEW w \in Workers, Progress(w), unwind_operation(w)
  PROVE  Progress(w)' /\ BooksStep(w) /\ UNCHANGED <<committed_offers, confirmed>>
<1> USE DEF Inv, TypeOK, ThreadTypeOK, BookTypeOK, SetPc, OutsideUnwind
<1> DEFINE i == op_idx[w] - 1
           type == tx[w].ops[i].type
<1>1. pc[w] = "unwind" /\ i >= 1 /\ UNCHANGED <<tx, committed_offers, confirmed>>
  BY DEF unwind_operation
<1>2. tx[w].ops \in Seq(Operation) /\ op_idx[w] \in Nat \ {0}
  BY <1>1, Running, TxFacts
<1>3. i \in DOMAIN tx[w].ops /\ op_idx[w] =< Len(tx[w].ops) + 1
  BY <1>1, <1>2 DEF Progress
<1>4. \A j \in DOMAIN tx[w].ops : j \in Nat
  BY <1>2
<1>5. CASE type = "MONEY_PRINTER"
  <2>1. pc'[w] = "threw" /\ UNCHANGED <<op_idx, marked, new_offers>>
    BY <1>5 DEF unwind_operation
  <2>2. OwnOffers(w)' = OwnOffers(w) /\ OwnCancels(w)' = OwnCancels(w)
    BY <1>1, <2>1, SameOps
  <2> QED BY <1>1, <1>3, <2>1, <2>2 DEF BooksStep, BooksKept, Progress
<1>6. CASE type # "MONEY_PRINTER"
  <2>1. /\ op_idx'[w] = i /\ pc' = pc
        /\ new_offers' = [new_offers EXCEPT ![w] =
             IF type = "CREATE_SELL_OFFER" THEN @ \ {OfferMade(tx[w], i)} ELSE @]
        /\ marked' = IF type = "CANCEL_SELL_OFFER" THEN marked \ OfferNamed(tx[w], i) ELSE marked
    BY <1>6 DEF unwind_operation, undelete_offer
  <2>2. SellOps(w)' = IF type = "CREATE_SELL_OFFER" THEN SellOps(w) \ {i} ELSE SellOps(w)
    BY <1>1, <1>2, <1>4, <2>1 DEF SellOps
  <2>3. CancelOps(w)' = IF type = "CANCEL_SELL_OFFER" THEN CancelOps(w) \ {i} ELSE CancelOps(w)
    BY <1>1, <1>2, <1>4, <2>1 DEF CancelOps
  <2>4. Progress(w)'
    BY <1>1, <1>2, <1>3, <2>1 DEF Progress
  <2> HIDE DEF i
  <2>5. CASE type = "CREATE_SELL_OFFER"
    <3>1. OwnOffers(w)' = {OfferMade(tx[w], j) : j \in SellOps(w) \ {i}} /\ OwnCancels(w)' = OwnCancels(w)
      BY <1>1, <2>2, <2>3, <2>5 DEF OwnOffers, OwnCancels, OfferMade
    <3>2. OwnOffers(w)' = OwnOffers(w) \ {OfferMade(tx[w], i)}
      BY <3>1, OffersWithout DEF OwnOffers
    <3>3. OfferRemoved(w, i)
      BY <2>1, <2>5, <3>1, <3>2 DEF OfferRemoved
    <3> QED BY <1>1, <1>3, <2>4, <3>3 DEF BooksStep
  <2>6. CASE type = "CANCEL_SELL_OFFER"
    <3>1. i \in CancelOps(w)
      BY <1>1, <1>2, <1>3, <2>6 DEF CancelOps, i
    <3>2. OwnOffers(w)' = OwnOffers(w) /\ OwnCancels(w)' = OwnCancels(w) \ {<<tx[w], i>>}
          /\ <<tx[w], i>> \in OwnCancels(w)
      BY <1>1, <2>2, <2>3, <2>6, <3>1 DEF OwnOffers, OwnCancels, OfferMade
    <3>3. CancelUndone(w, i)
      BY <2>1, <2>6, <3>2 DEF CancelUndone
    <3> QED BY <1>1, <1>3, <2>4, <3>3 DEF BooksStep
  <2>7. CASE type \notin {"CREATE_SELL_OFFER", "CANCEL_SELL_OFFER"}
    <3>1. OwnOffers(w)' = OwnOffers(w) /\ OwnCancels(w)' = OwnCancels(w)
      BY <1>1, <2>2, <2>3, <2>7 DEF OwnOffers, OwnCancels, OfferMade
    <3>2. new_offers' = new_offers /\ marked' = marked
      BY <2>1, <2>7
    <3> QED BY <1>1, <2>4, <3>1, <3>2 DEF BooksStep, BooksKept
  <2> QED BY <2>5, <2>6, <2>7
<1> QED BY <1>5, <1>6

(* A transaction begins, or is given up when all is taken back.            *)
LEMMA BeginAbort_Books ==
  ASSUME Inv, NEW w \in Workers, Progress(w),
         AbortTransaction(w) \/ \E t \in Txs : process_transaction_begin(w, t)
  PROVE  Progress(w)' /\ BooksKept(w) /\ UNCHANGED <<committed_offers, confirmed>>
<1> USE DEF Inv, TypeOK, ThreadTypeOK, SetPc, bookVars
<1>1. \A t \in Txs : \A i \in DOMAIN t.ops : i \in Nat /\ i >= 1 /\ Len(t.ops) \in Nat
  BY TxFacts
<1>2. CASE AbortTransaction(w)
  <2>1. /\ pc[w] = "release" /\ op_idx[w] = 1 /\ UNCHANGED <<new_offers, marked, committed_offers, confirmed>>
        /\ \/ pc'[w] = "idle"
           \/ pc'[w] = "threw" /\ UNCHANGED <<tx, op_idx>>
    BY <1>2 DEF AbortTransaction, Return, Progress
  <2>2. CASE pc'[w] = "idle"
    <3>1. SellOps(w) = {} /\ CancelOps(w) = {}
      <4>1. tx[w] \in Txs
        BY <2>1, Running
      <4>2. \A i \in DOMAIN tx[w].ops : ~ (i < op_idx[w]) /\ pc[w] \notin {"debit", "cas"}
        BY <1>1, <2>1, <4>1
      <4> QED BY <4>2 DEF SellOps, CancelOps
    <3>2. SellOps(w)' = {} /\ CancelOps(w)' = {}
      BY <2>2 DEF SellOps, CancelOps
    <3> QED BY <2>1, <2>2, <3>1, <3>2 DEF BooksKept, OwnOffers, OwnCancels, Progress
  <2>3. CASE pc'[w] = "threw" /\ UNCHANGED <<tx, op_idx>>
    <3>1. OwnOffers(w)' = OwnOffers(w) /\ OwnCancels(w)' = OwnCancels(w)
      BY <2>1, <2>3, SameOps
    <3> QED BY <2>1, <2>3, <3>1 DEF BooksKept, Progress
  <2> QED BY <2>1, <2>2, <2>3
<1>3. ASSUME NEW t \in Txs, process_transaction_begin(w, t)
      PROVE  Progress(w)' /\ BooksKept(w) /\ UNCHANGED <<committed_offers, confirmed>>
  <2>1. /\ pc[w] = "idle" /\ UNCHANGED <<new_offers, marked, committed_offers, confirmed>>
        /\ \/ pc'[w] = "idle"
           \/ pc'[w] = "op" /\ op_idx'[w] = 1 /\ tx'[w] = t
    BY <1>3 DEF process_transaction_begin
  <2>2. SellOps(w) = {} /\ CancelOps(w) = {}
    BY <2>1 DEF SellOps, CancelOps
  <2>3. SellOps(w)' = {} /\ CancelOps(w)' = {}
    BY <1>1, <2>1 DEF SellOps, CancelOps
  <2>4. Len(t.ops) \in Nat
    BY TxFacts
  <2> QED BY <2>1, <2>2, <2>3, <2>4 DEF BooksKept, OwnOffers, OwnCancels, Progress
<1> QED BY <1>2, <1>3

(* A thread's step does one of the five things to the orderbooks, unless   *)
(* it confirms its transaction.                                            *)
LEMMA EveryStep_Books ==
  ASSUME Inv, NEW w \in Workers, Progress(w), Step(w), ~ FinishTransaction(w)
  PROVE  /\ Progress(w)' /\ BooksStep(w) /\ UNCHANGED <<committed_offers, confirmed, last_committed_id>>
         /\ pc[w] # "idle" \/ BooksKept(w)
<1>1. UNCHANGED last_committed_id
  BY StepKinds DEF Middle, AbortTransaction, process_transaction_begin, dbVars
<1>2. CASE OffBooksStep(w)
  BY <1>1, <1>2, OffBooks DEF BooksStep
<1>3. CASE process_money_printer(w) \/ DebitFromBuffer(w) \/ CompareExchange(w)
  BY <1>1, <1>3, OpEnds DEF BooksStep
<1>4. CASE AbortTransaction(w) \/ \E t \in Txs : process_transaction_begin(w, t)
  BY <1>1, <1>4, BeginAbort_Books DEF BooksStep
<1>5. CASE process_create_sell_offer(w)
  BY <1>1, <1>5, process_create_sell_offer_Books DEF process_create_sell_offer, OpReady
<1>6. CASE process_cancel_sell_offer(w)
  BY <1>1, <1>6, process_cancel_sell_offer_Books DEF process_cancel_sell_offer, OpReady
<1>7. CASE LoadBalance(w)
  BY <1>1, <1>7, LoadBalance_Books DEF LoadBalance
<1>8. CASE unwind_operation(w)
  BY <1>1, <1>8, unwind_operation_Books DEF unwind_operation
<1> QED BY <1>2, <1>3, <1>4, <1>5, <1>6, <1>7, <1>8 DEF Step, OffBooksStep

(* The orderbooks after a step that confirms nothing.                      *)
LEMMA Step_BooksInv ==
  ASSUME Inv, SlotsInv, BooksInv, NEW w \in Workers, Step(w), ~ FinishTransaction(w)
  PROVE  BooksInv'
<1>1. /\ Progress(w)' /\ BooksStep(w) /\ UNCHANGED <<committed_offers, confirmed, last_committed_id>>
      /\ pc[w] # "idle" \/ BooksKept(w)
  BY EveryStep_Books DEF BooksInv
<1>2. OtherThreads(w) /\ new_offers \in [Workers -> SUBSET Offer]
  BY StepIsLocal DEF Inv, TypeOK, BookTypeOK
<1>3. \A v \in Workers \ {w} : Progress(v)' /\ new_offers'[v] = new_offers[v]
  BY <1>2 DEF OtherThreads, BooksInv, Progress, Op
<1>4. ASSUME NEW v \in Workers \ {w}
      PROVE  OwnOffers(v)' = OwnOffers(v) /\ OwnCancels(v)' = OwnCancels(v)
  <2>1. pc'[v] = pc[v] /\ tx'[v] = tx[v] /\ op_idx'[v] = op_idx[v]
    BY <1>2 DEF OtherThreads
  <2>2. SellOps(v)' = SellOps(v) /\ CancelOps(v)' = CancelOps(v)
    BY <2>1 DEF SellOps, CancelOps
  <2> QED BY <2>1, <2>2 DEF OwnOffers, OwnCancels, OfferMade
<1>5. /\ BlockOffers' = BlockOffers /\ \A type : BlockOps(type)' = BlockOps(type)
      /\ \A t, i : OfferNamed(t, i)' = OfferNamed(t, i)
  BY <1>1 DEF BlockOffers, BlockOps, OpsOf, OfferMade, OfferNamed
<1> DEFINE N(p) == OfferNamed(p[1], p[2])
           Threads == UNION {OwnCancels(v) : v \in Workers \ {w}}
<1>6. /\ AllCancels = BlockOps("CANCEL_SELL_OFFER") \union Threads \union OwnCancels(w)
      /\ AllCancels' = BlockOps("CANCEL_SELL_OFFER") \union Threads \union OwnCancels(w)'
  BY <1>4, <1>5 DEF AllCancels
<1>7. (\A p, q \in AllCancels : p # q => N(p) \intersect N(q) = {}) /\ marked = UNION {N(p) : p \in AllCancels}
  BY DEF BooksInv, MarkedInv
<1>8. /\ marked' = UNION {N(p) : p \in AllCancels'}
      /\ (\A p, q \in AllCancels' : p # q => N(p) \intersect N(q) = {})
      => MarkedInv'
  BY <1>5 DEF MarkedInv
<1>9. /\ BlockOffers \subseteq UNION {new_offers'[v] : v \in Workers}
      /\ OwnOffers(w)' \subseteq new_offers'[w]
      /\ new_offers'[w] \subseteq OwnOffers(w)' \union BlockOffers
      => NewOffersInv'
  BY <1>3, <1>4, <1>5 DEF BooksInv, NewOffersInv
<1>10. OffersKnown'
  BY <1>1 DEF BooksInv, OffersKnown
<1>11. /\ BlockOffers \subseteq UNION {new_offers[v] : v \in Workers}
       /\ OwnOffers(w) \subseteq new_offers[w] /\ new_offers[w] \subseteq OwnOffers(w) \union BlockOffers
  BY DEF BooksInv, NewOffersInv
<1>12. CASE BooksKept(w)
  <2>1. MarkedInv'
    BY <1>6, <1>7, <1>8, <1>12 DEF BooksKept
  <2>2. NewOffersInv'
    BY <1>9, <1>11, <1>12 DEF BooksKept
  <2> QED BY <1>1, <1>3, <1>10, <2>1, <2>2 DEF BooksInv
<1>13. ASSUME NEW i \in DOMAIN tx[w].ops, pc[w] # "idle",
              OfferAdded(w, i) \/ OfferRemoved(w, i)
       PROVE  BooksInv'
  <2>1. MarkedInv'
    BY <1>6, <1>7, <1>8, <1>13 DEF OfferAdded, OfferRemoved
  <2> DEFINE o == OfferMade(tx[w], i)
  <2>2. o \notin BlockOffers
    BY <1>13, RunsAlone
  <2>3. \/ OwnOffers(w)' = OwnOffers(w) \union {o} /\ new_offers'[w] = new_offers[w] \union {o}
        \/ OwnOffers(w)' = OwnOffers(w) \ {o} /\ new_offers'[w] = new_offers[w] \ {o}
    BY <1>13 DEF OfferAdded, OfferRemoved
  <2> HIDE DEF o
  <2>4. BlockOffers \subseteq UNION {new_offers'[v] : v \in Workers}
    <3> SUFFICES ASSUME NEW p \in BlockOffers PROVE \E v \in Workers : p \in new_offers'[v]
      OBVIOUS
    <3>1. PICK v \in Workers : p \in new_offers[v]
      BY <1>11
    <3>2. p # o
      BY <2>2
    <3> QED BY <1>3, <2>3, <3>1, <3>2
  <2>5. NewOffersInv'
    BY <1>9, <1>11, <2>3, <2>4
  <2> QED BY <1>1, <1>3, <1>10, <2>1, <2>5 DEF BooksInv
<1>14. ASSUME NEW i \in DOMAIN tx[w].ops, pc[w] # "idle", OfferCancelled(w, i)
       PROVE  BooksInv'
  <2> DEFINE c == <<tx[w], i>>
  <2>1. PICK o \in OfferNamed(tx[w], i) \ marked : marked' = marked \union {o}
    BY <1>14 DEF OfferCancelled
  <2>2. N(c) = {o}
    BY <2>1 DEF OfferNamed, BooksInv, OffersKnown
  <2>3. AllCancels' = AllCancels \union {c}
    BY <1>6, <1>14 DEF OfferCancelled
  <2> HIDE DEF c, N
  <2>4. marked' = UNION {N(p) : p \in AllCancels'}
    BY <1>7, <2>1, <2>2, <2>3
  <2>5. \A p \in AllCancels : o \notin N(p)
    BY <1>7, <2>1
  <2>6. \A p, q \in AllCancels' : p # q => N(p) \intersect N(q) = {}
    BY <1>7, <2>2, <2>3, <2>5
  <2>7. NewOffersInv'
    BY <1>9, <1>11, <1>14 DEF OfferCancelled
  <2> QED BY <1>1, <1>3, <1>8, <1>10, <2>4, <2>6, <2>7 DEF BooksInv, N
<1>15. ASSUME NEW i \in DOMAIN tx[w].ops, pc[w] # "idle", CancelUndone(w, i)
       PROVE  BooksInv'
  <2> DEFINE c == <<tx[w], i>>
  <2>1. /\ c \in OwnCancels(w) /\ OwnCancels(w)' = OwnCancels(w) \ {c}
        /\ marked' = marked \ N(c)
    BY <1>15 DEF CancelUndone
  <2>2. c \notin BlockOps("CANCEL_SELL_OFFER")
    <3>1. \A p \in OpsOf(confirmed) : p[1] \in confirmed
      BY DEF OpsOf
    <3>2. c[1] \notin confirmed
      BY <1>15, RunsAlone
    <3> QED BY <3>1, <3>2 DEF BlockOps
  <2>3. c \notin Threads
    <3>1. \A v \in Workers \ {w} : \A p \in OwnCancels(v) : p[1] = tx[v] /\ pc[v] # "idle"
      BY DEF OwnCancels, CancelOps
    <3>2. \A v \in Workers \ {w} : pc[v] # "idle" => tx[v] # c[1]
      BY <1>15, RunsAlone
    <3> QED BY <3>1, <3>2
  <2> HIDE DEF c, N, Threads
  <2>4. AllCancels' = AllCancels \ {c} /\ c \in AllCancels
    BY <1>6, <2>1, <2>2, <2>3
  <2>5. marked' = UNION {N(p) : p \in AllCancels'}
    <3>1. \A o \in marked' : \E p \in AllCancels' : o \in N(p)
      BY <1>7, <2>1, <2>4
    <3>2. \A p \in AllCancels' : \A o \in N(p) : o \in marked /\ o \notin N(c)
      BY <1>7, <2>4
    <3> QED BY <2>1, <3>1, <3>2
  <2>6. \A p, q \in AllCancels' : p # q => N(p) \intersect N(q) = {}
    BY <1>7, <2>4
  <2>7. NewOffersInv'
    BY <1>9, <1>11, <1>15 DEF CancelUndone
  <2> QED BY <1>1, <1>3, <1>8, <1>10, <2>5, <2>6, <2>7 DEF BooksInv, N
<1> QED BY <1>1, <1>12, <1>13, <1>14, <1>15 DEF BooksStep

(* A confirmed transaction hands all its offers and cancellations to the   *)
(* block.                                                                  *)
LEMMA Finish_BooksInv ==
  ASSUME Inv, SlotsInv, BooksInv, NEW w \in Workers, FinishTransaction(w)
  PROVE  BooksInv'
<1>1. /\ pc[w] = "create" /\ pc'[w] = "idle" /\ confirmed' = confirmed \union {tx[w]}
      /\ UNCHANGED <<new_offers, marked, committed_offers, last_committed_id>>
  BY DEF FinishTransaction, Return, SetPc, bookVars, dbVars, Inv, TypeOK, ThreadTypeOK
<1>2. OtherThreads(w)
  BY StepIsLocal DEF Step
<1>3. \A v \in Workers \ {w} : Progress(v)'
  BY <1>2 DEF OtherThreads, BooksInv, Progress, Op
<1>4. ASSUME NEW v \in Workers \ {w}
      PROVE  OwnOffers(v)' = OwnOffers(v) /\ OwnCancels(v)' = OwnCancels(v)
  <2>1. pc'[v] = pc[v] /\ tx'[v] = tx[v] /\ op_idx'[v] = op_idx[v]
    BY <1>2 DEF OtherThreads
  <2>2. SellOps(v)' = SellOps(v) /\ CancelOps(v)' = CancelOps(v)
    BY <2>1 DEF SellOps, CancelOps
  <2> QED BY <2>1, <2>2 DEF OwnOffers, OwnCancels, OfferMade
<1>5. OwnOffers(w)' = {} /\ OwnCancels(w)' = {} /\ Progress(w)'
  BY <1>1 DEF OwnOffers, OwnCancels, SellOps, CancelOps, Progress
<1>6. \A i \in DOMAIN tx[w].ops : i < op_idx[w]
  <2>1. tx[w].ops \in Seq(Operation) /\ op_idx[w] = Len(tx[w].ops) + 1
    BY <1>1, Running, TxFacts DEF BooksInv, Progress
  <2> QED BY <2>1
<1> DEFINE Mine(type) == {<<tx[w], i>> : i \in {j \in DOMAIN tx[w].ops : tx[w].ops[j].type = type}}
<1>7. \A type : BlockOps(type)' = BlockOps(type) \union Mine(type)
  <2>1. OpsOf(confirmed)' = OpsOf(confirmed) \union {<<tx[w], i>> : i \in DOMAIN tx[w].ops}
    BY <1>1 DEF OpsOf
  <2> QED BY <2>1 DEF BlockOps
<1>8. OwnCancels(w) = Mine("CANCEL_SELL_OFFER")
  BY <1>1, <1>6 DEF OwnCancels, CancelOps
<1>9. OwnOffers(w) = {OfferMade(p[1], p[2]) : p \in Mine("CREATE_SELL_OFFER")}
  <2>1. SellOps(w) = {j \in DOMAIN tx[w].ops : tx[w].ops[j].type = "CREATE_SELL_OFFER"}
    BY <1>1, <1>6 DEF SellOps
  <2>2. \A i : OfferMade(<<tx[w], i>>[1], <<tx[w], i>>[2]) = OfferMade(tx[w], i)
    OBVIOUS
  <2>3. Mine("CREATE_SELL_OFFER") = {<<tx[w], i>> : i \in SellOps(w)}
    BY <2>1
  <2> HIDE DEF Mine
  <2>4. ASSUME NEW p \in Mine("CREATE_SELL_OFFER") PROVE OfferMade(p[1], p[2]) \in OwnOffers(w)
    <3>1. PICK i \in SellOps(w) : p = <<tx[w], i>>
      BY <2>3
    <3>2. OfferMade(p[1], p[2]) = OfferMade(tx[w], i)
      BY <3>1
    <3> QED BY <3>2 DEF OwnOffers
  <2>5. ASSUME NEW o \in OwnOffers(w)
        PROVE  o \in {OfferMade(p[1], p[2]) : p \in Mine("CREATE_SELL_OFFER")}
    <3>1. PICK i \in SellOps(w) : o = OfferMade(tx[w], i)
      BY DEF OwnOffers
    <3>2. <<tx[w], i>> \in Mine("CREATE_SELL_OFFER")
      BY <2>3
    <3> QED BY <2>2, <3>1, <3>2
  <2> QED BY <2>4, <2>5
<1>10. BlockOffers' = BlockOffers \union OwnOffers(w)
  <2>1. BlockOffers' = {OfferMade(p[1], p[2]) : p \in BlockOps("CREATE_SELL_OFFER")'}
    BY DEF BlockOffers, OfferMade
  <2> HIDE DEF Mine
  <2> QED BY <1>7, <1>9, <2>1 DEF BlockOffers
<1>11. AllCancels' = AllCancels
  <2> HIDE DEF Mine
  <2> QED BY <1>4, <1>5, <1>7, <1>8 DEF AllCancels
<1>12. MarkedInv'
  <2>1. \A t, i : OfferNamed(t, i)' = OfferNamed(t, i)
    BY <1>1 DEF OfferNamed
  <2> QED BY <1>1, <1>11, <2>1 DEF BooksInv, MarkedInv
<1>13. NewOffersInv'
  BY <1>1, <1>4, <1>5, <1>10 DEF BooksInv, NewOffersInv
<1>14. OffersKnown'
  BY <1>1 DEF BooksInv, OffersKnown
<1> QED BY <1>3, <1>5, <1>12, <1>13, <1>14 DEF BooksInv

(* When the threads have returned, only the block's transactions count.    *)
LEMMA OnlyBlocks ==
  ASSUME Quiescent, NewOffersInv
  PROVE  /\ \A w \in Workers : OwnOffers(w) = {} /\ OwnCancels(w) = {}
         /\ UNION {new_offers[w] : w \in Workers} = BlockOffers
         /\ AllCancels = BlockOps("CANCEL_SELL_OFFER")
<1>1. \A w \in Workers : OwnOffers(w) = {} /\ OwnCancels(w) = {}
  BY DEF Quiescent, OwnOffers, OwnCancels, SellOps, CancelOps
<1>2. UNION {new_offers[w] : w \in Workers} = BlockOffers
  BY <1>1 DEF NewOffersInv
<1> QED BY <1>1, <1>2 DEF AllCancels

(* The commit of a block opens its offers: no two of them, and no older    *)
(* one, have the same owner and id.                                        *)
LEMMA Commit_BooksInv ==
  ASSUME Inv, SlotsInv, SpentBelowLast, BooksInv, CommitBlock
  PROVE  BooksInv'
<1>1. /\ Quiescent /\ Quiescent' /\ UNCHANGED <<pc, tx, op_idx>>
      /\ confirmed' = {} /\ marked' = {} /\ new_offers' = [w \in Workers |-> {}]
      /\ committed_offers' = (committed_offers \ marked) \union UNION {new_offers[w] : w \in Workers}
  BY DEF CommitBlock, Quiescent
<1>2. UNION {new_offers[w] : w \in Workers} = BlockOffers
  BY <1>1, OnlyBlocks DEF BooksInv
<1>3. \A w \in Workers : Progress(w)'
  BY <1>1 DEF Progress, Quiescent
<1>4. BlockOffers' = {} /\ \A type : BlockOps(type)' = {}
  BY <1>1 DEF BlockOffers, BlockOps, OpsOf
<1>5. \A w \in Workers : OwnOffers(w)' = {} /\ OwnCancels(w)' = {}
  BY <1>1 DEF Quiescent, OwnOffers, OwnCancels, SellOps, CancelOps
<1>6. NewOffersInv'
  BY <1>1, <1>4, <1>5 DEF NewOffersInv
<1>7. MarkedInv'
  <2>1. AllCancels' = {}
    BY <1>4, <1>5 DEF AllCancels
  <2> QED BY <1>1, <2>1 DEF MarkedInv
<1>8. ASSUME NEW o \in BlockOffers
      PROVE  \E t \in confirmed : \E i : o = OfferMade(t, i) /\ o.owner = t.source /\ o.offerId = <<t.seq, i>>
  <2>1. PICK p \in OpsOf(confirmed) : o = OfferMade(p[1], p[2])
    BY DEF BlockOffers, BlockOps
  <2>2. p[1] \in confirmed
    BY DEF OpsOf
  <2> QED BY <2>1, <2>2 DEF OfferMade
<1>9. \A a \in AccountIDs : /\ last_committed_id[a] \in Nat /\ last_committed_id'[a] \in Nat
                            /\ last_committed_id[a] =< last_committed_id'[a]
  <2>1. \A a \in AccountIDs : last_committed_id[a] \in Nat /\ get_seq_num_increment(sequence_number_vec[a]) \in Nat
    BY IncrementBounds DEF Inv, TypeOK, DbTypeOK
  <2>2. \A a \in AccountIDs : \/ last_committed_id'[a] = last_committed_id[a]
          \/ last_committed_id'[a] = last_committed_id[a] + get_seq_num_increment(sequence_number_vec[a])
    BY DEF CommitBlock
  <2> QED BY <2>1, <2>2
<1>10. ASSUME NEW t \in confirmed
       PROVE  /\ t.source \in AccountIDs /\ t.seq \in Nat
              /\ t.seq > last_committed_id[t.source] /\ t.seq =< last_committed_id'[t.source]
  <2>1. t \in Txs
    BY DEF Inv, TypeOK, BlockTypeOK
  <2>2. t.source \in AccountIDs /\ t.seq \in Nat
    BY <2>1, SlotFacts
  <2>3. t.seq > last_committed_id[t.source]
    BY DEF SlotsInv, SlotsHeld, HoldsSlot
  <2>4. SpentBelowLast' /\ <<t.source, t.seq>> \in spent'
    BY Commit_SpentBelowLast DEF CommitBlock
  <2>5. t.seq =< last_committed_id'[t.source]
    BY <2>4 DEF SpentBelowLast
  <2> QED BY <2>2, <2>3, <2>5
<1>11. ASSUME NEW o \in committed_offers
       PROVE  /\ o.owner \in AccountIDs /\ o.offerId[1] \in Nat
              /\ o.offerId[1] =< last_committed_id[o.owner]
  <2>1. o \in Offer
    BY DEF Inv, TypeOK, BookTypeOK
  <2> QED BY <2>1 DEF Offer, BooksInv, OffersKnown
<1>12. \A o \in committed_offers' : o.offerId[1] =< last_committed_id'[o.owner]
  <2>1. ASSUME NEW o \in committed_offers PROVE o.offerId[1] =< last_committed_id'[o.owner]
    BY <1>9, <1>11
  <2>2. ASSUME NEW o \in BlockOffers PROVE o.offerId[1] =< last_committed_id'[o.owner]
    BY <1>8, <1>10
  <2> QED BY <1>1, <1>2, <2>1, <2>2
<1>13. ASSUME NEW o \in committed_offers, NEW p \in BlockOffers, o.owner = p.owner, o.offerId = p.offerId
       PROVE  FALSE
  <2>1. PICK t \in confirmed : \E i : p.owner = t.source /\ p.offerId = <<t.seq, i>>
    BY <1>8
  <2>2. o.owner = t.source /\ o.offerId[1] = t.seq
    BY <1>13, <2>1
  <2>3. t.seq =< last_committed_id[t.source] /\ t.seq > last_committed_id[t.source]
        /\ t.seq \in Nat /\ last_committed_id[t.source] \in Nat
    BY <1>9, <1>10, <1>11, <2>2
  <2> QED BY <2>3
<1>14. ASSUME NEW o \in BlockOffers, NEW p \in BlockOffers, o.owner = p.owner, o.offerId = p.offerId
       PROVE  o = p
  <2>1. PICK t \in confirmed : \E i : o = OfferMade(t, i) /\ o.owner = t.source /\ o.offerId = <<t.seq, i>>
    BY <1>8
  <2>2. PICK i : o = OfferMade(t, i) /\ o.owner = t.source /\ o.offerId = <<t.seq, i>>
    BY <2>1
  <2>3. PICK u \in confirmed : \E j : p = OfferMade(u, j) /\ p.owner = u.source /\ p.offerId = <<u.seq, j>>
    BY <1>8
  <2>4. PICK j : p = OfferMade(u, j) /\ p.owner = u.source /\ p.offerId = <<u.seq, j>>
    BY <2>3
  <2>5. t.source = u.source /\ t.seq = u.seq /\ i = j
    BY <1>14, <2>2, <2>4
  <2>6. Slot(t) = Slot(u)
    BY <2>5 DEF Slot
  <2>7. t = u
    BY <2>6 DEF SlotsInv, SlotsExclusive
  <2> QED BY <2>2, <2>4, <2>5, <2>7
<1>15. \A o, p \in committed_offers' : o.owner = p.owner /\ o.offerId = p.offerId => o = p
  <2>1. \A o, p \in committed_offers : o.owner = p.owner /\ o.offerId = p.offerId => o = p
    BY DEF BooksInv, OffersKnown
  <2> QED BY <1>1, <1>2, <1>13, <1>14, <2>1
<1>16. OffersKnown'
  BY <1>12, <1>15 DEF OffersKnown
<1> QED BY <1>3, <1>6, <1>7, <1>16 DEF BooksInv

(* The orderbooks follow the block, as long as no number is a full turn of *)
(* the uint8_t offset ahead.                                               *)
LEMMA BooksInvHolds == Spec /\ []NumbersInReach => []BooksInv
<1>1. Init => BooksInv
  <2> SUFFICES ASSUME Init PROVE BooksInv
    OBVIOUS
  <2>1. BlockOffers = {} /\ AllCancels = {} /\ \A w \in Workers : OwnOffers(w) = {} /\ Progress(w)
    BY DEF Init, BlockOffers, AllCancels, BlockOps, OpsOf, OwnOffers, OwnCancels, SellOps, CancelOps, Progress
  <2>2. NewOffersInv /\ MarkedInv
    BY <2>1 DEF Init, NewOffersInv, MarkedInv
  <2>3. OffersKnown
    <3>1. \A o \in InitialOffers : o.offerId[1] = 0 /\ o.owner \in AccountIDs
      BY ConstantsAssumption, InitialOffersAssumption DEF Offer
    <3> QED BY <3>1, InitialOffersAssumption DEF Init, OffersKnown
  <2> QED BY <2>1, <2>2, <2>3 DEF BooksInv
<1>2. Inv /\ SlotsInv /\ SpentBelowLast /\ BooksInv /\ [Next]_vars => BooksInv'
  <2> SUFFICES ASSUME Inv, SlotsInv, SpentBelowLast, BooksInv, [Next]_vars PROVE BooksInv'
    OBVIOUS
  <2>1. ASSUME NEW w \in Workers, Step(w) PROVE BooksInv'
    BY <2>1, Step_BooksInv, Finish_BooksInv
  <2>2. CASE CommitBlock
    BY <2>2, Commit_BooksInv
  <2>3. CASE UNCHANGED vars
    <3>1. UNCHANGED <<pc, tx, op_idx, confirmed, new_offers, marked, committed_offers, last_committed_id>>
      BY <2>3 DEF vars, dbVars, bookVars, blockVars
    <3>2. \A w \in Workers : OwnOffers(w)' = OwnOffers(w) /\ OwnCancels(w)' = OwnCancels(w) /\ Progress(w)'
      BY <3>1 DEF OwnOffers, OwnCancels, SellOps, CancelOps, OfferMade, Progress, Op, BooksInv
    <3>3. BlockOffers' = BlockOffers /\ AllCancels' = AllCancels
      BY <3>1, <3>2 DEF BlockOffers, AllCancels, BlockOps, OpsOf, OfferMade
    <3>4. \A t, i : OfferNamed(t, i)' = OfferNamed(t, i)
      BY <3>1 DEF OfferNamed
    <3>5. NewOffersInv' /\ MarkedInv' /\ OffersKnown'
      BY <3>1, <3>2, <3>3, <3>4 DEF BooksInv, NewOffersInv, MarkedInv, OffersKnown
    <3> QED BY <3>2, <3>5 DEF BooksInv
  <2> QED BY <2>1, <2>2, <2>3 DEF Next, Done
<1> QED BY <1>1, <1>2, Initially, InvInductive, SlotsInvHolds, SpentBelowLastHolds, PTL DEF Spec

(* When the threads have returned, the new offers are those of the block's *)
(* transactions and the marked ones those that they cancel, as long as no  *)
(* number is a full turn of the uint8_t offset ahead (otherwise two offers *)
(* can have one owner and id, and a cancellation can mark either).         *)
THEOREM OffersMatchConfirmedHolds == Spec /\ []NumbersInReach => []OffersMatchConfirmed
<1>1. BooksInv => OffersMatchConfirmed
  <2> SUFFICES ASSUME BooksInv, Quiescent
               PROVE  /\ UNION {new_offers[w] : w \in Workers} = BlockOffers
                      /\ marked = UNION {OfferNamed(p[1], p[2]) : p \in BlockOps("CANCEL_SELL_OFFER")}
    BY DEF OffersMatchConfirmed, BlockOffers, BlockOps
  <2> QED BY OnlyBlocks DEF BooksInv, MarkedInv
<1> QED BY <1>1, BooksInvHolds, PTL

-----------------------------------------------------------------------------
(* Effects.  At the end of a block every balance is its committed value    *)
(* plus the effects of exactly the transactions of the block.  An effect   *)
(* is a sum over operations of amounts taken and given, which Counting's   *)
(* cells turn into two cardinalities.                                      *)

(* The operation p[2] of the transaction p[1] takes an amount from its     *)
(* source before it gives it to somebody else.                             *)
Takes(p) == p[1].ops[p[2]].type \in {"CREATE_ACCOUNT", "PAYMENT", "CREATE_SELL_OFFER"}

(* The balance that it takes from.                                         *)
TakenFrom(p) == <<p[1].source, IF p[1].ops[p[2]].type = "CREATE_ACCOUNT" THEN NATIVE_ASSET
                               ELSE p[1].ops[p[2]].asset>>

(* What it takes from the balance k.                                       *)
Loss(p, k) == IF Takes(p) /\ k = TakenFrom(p) THEN p[1].ops[p[2]].amount ELSE 0

(* What it pays into the balance k.  A cancellation pays what the          *)
(* committed book holds for the offer, which no step changes meanwhile.    *)
Gain(p, k) ==
  LET op == p[1].ops[p[2]]
      paid(a, x, amount) == IF k = <<a, x>> THEN amount ELSE 0 IN
  CASE op.type = "CREATE_ACCOUNT" -> paid(op.account, NATIVE_ASSET, op.amount)
    [] op.type = "PAYMENT" -> paid(op.account, op.asset, op.amount)
    [] op.type = "CREATE_SELL_OFFER" -> 0
    [] op.type = "CANCEL_SELL_OFFER" ->
         IF OfferNamed(p[1], p[2]) = {} THEN 0
         ELSE LET o == CHOOSE o \in OfferNamed(p[1], p[2]) : TRUE
              IN  paid(p[1].source, o.asset, o.amount)
    [] op.type = "MONEY_PRINTER" -> paid(p[1].source, op.asset, op.amount)

(* Every operation there is, and the two amounts as functions of it; the   *)
(* net effect of a set of operations on a balance, counted in cells.       *)
AllOps == OpsOf(Txs)
gain(k) == [p \in AllOps |-> Gain(p, k)]
loss(k) == [p \in AllOps |-> Loss(p, k)]
Net(S, k) == Cardinality(Cells(S, gain(k))) - Cardinality(Cells(S, loss(k)))

(* What an operation of a transaction is.                                  *)
LEMMA OpFacts ==
  ASSUME NEW p \in AllOps
  PROVE  /\ p[1] \in Txs /\ p[2] \in DOMAIN p[1].ops /\ p = <<p[1], p[2]>>
         /\ p[1].ops[p[2]].type \in OpTypes /\ p[1].ops[p[2]].amount \in Nat
<1>1. p[1] \in Txs /\ p[2] \in DOMAIN p[1].ops /\ p = <<p[1], p[2]>>
  BY DEF AllOps, OpsOf
<1>2. p[1].ops[p[2]] \in Operation
  BY <1>1, TxFacts
<1> QED BY <1>1, <1>2 DEF Operation

(* What it brings and takes are natural numbers.                           *)
LEMMA GainLossType ==
  ASSUME Inv, NEW p \in AllOps, NEW k
  PROVE  Gain(p, k) \in Nat /\ Loss(p, k) \in Nat
<1>1. p[1].ops[p[2]].type \in OpTypes /\ p[1].ops[p[2]].amount \in Nat
  BY OpFacts
<1>2. \A o \in OfferNamed(p[1], p[2]) : o.amount \in Nat
  <2>1. OfferNamed(p[1], p[2]) \subseteq Offer
    BY DEF OfferNamed, Inv, TypeOK, BookTypeOK
  <2> QED BY <2>1 DEF Offer
<1>3. Loss(p, k) \in Nat
  BY <1>1 DEF Loss
<1>4. Gain(p, k) \in Nat
  <2>1. CASE p[1].ops[p[2]].type = "CANCEL_SELL_OFFER"
    <3> DEFINE N == OfferNamed(p[1], p[2])
               o == CHOOSE o \in N : TRUE
    <3>1. N # {} => o.amount \in Nat
      BY <1>2
    <3>2. Gain(p, k) = IF N = {} THEN 0 ELSE IF k = <<p[1].source, o.asset>> THEN o.amount ELSE 0
      BY <2>1 DEF Gain
    <3> HIDE DEF N, o
    <3> QED BY <3>1, <3>2
  <2>2. CASE p[1].ops[p[2]].type # "CANCEL_SELL_OFFER"
    BY <1>1, <2>2 DEF Gain, OpTypes
  <2> QED BY <2>1, <2>2
<1> QED BY <1>3, <1>4

(* The functions that count what the operations bring and take.            *)
LEMMA GainLossFunctions ==
  ASSUME Inv, NEW k
  PROVE  /\ gain(k) \in [AllOps -> Nat] /\ loss(k) \in [AllOps -> Nat]
         /\ \A p \in AllOps : gain(k)[p] = Gain(p, k) /\ loss(k)[p] = Loss(p, k)
  BY GainLossType DEF gain, loss

(* Nothing is nothing.                                                     *)
LEMMA NetEmpty ==
  ASSUME NEW k
  PROVE  Net({}, k) = 0
<1>1. Cardinality(Cells({}, gain(k))) = 0 /\ Cardinality(Cells({}, loss(k))) = 0
  BY NoCells
<1> QED BY <1>1 DEF Net

(* The effects of two disjoint sets of operations add up.                  *)
LEMMA NetUnion ==
  ASSUME Inv, NEW k, NEW S \in SUBSET AllOps, IsFiniteSet(S), NEW T \in SUBSET AllOps, IsFiniteSet(T),
         S \intersect T = {}
  PROVE  /\ Net(S, k) \in Int /\ Net(T, k) \in Int
         /\ Net(S \union T, k) = Net(S, k) + Net(T, k)
<1> DEFINE g == gain(k)
           l == loss(k)
<1>1. \A x \in S \union T : g[x] \in Nat /\ l[x] \in Nat
  BY GainLossFunctions
<1> HIDE DEF g, l
<1>2. /\ Cardinality(Cells(S, g)) \in Nat /\ Cardinality(Cells(T, g)) \in Nat
      /\ Cardinality(Cells(S \union T, g)) = Cardinality(Cells(S, g)) + Cardinality(Cells(T, g))
  BY <1>1, CellsFinite, CellsOfUnion
<1>3. /\ Cardinality(Cells(S, l)) \in Nat /\ Cardinality(Cells(T, l)) \in Nat
      /\ Cardinality(Cells(S \union T, l)) = Cardinality(Cells(S, l)) + Cardinality(Cells(T, l))
  BY <1>1, CellsFinite, CellsOfUnion
<1>4. \A U : Net(U, k) = Cardinality(Cells(U, g)) - Cardinality(Cells(U, l))
  BY DEF Net, g, l
<1> QED BY <1>2, <1>3, <1>4

(* The effect of one operation.                                            *)
LEMMA NetOne ==
  ASSUME Inv, NEW k, NEW p \in AllOps
  PROVE  Net({p}, k) = Gain(p, k) - Loss(p, k)
<1> DEFINE g == gain(k)
           l == loss(k)
<1>1. g[p] = Gain(p, k) /\ l[p] = Loss(p, k) /\ g[p] \in Nat /\ l[p] \in Nat
  BY GainLossFunctions, GainLossType
<1>2. Net({p}, k) = Cardinality(Cells({p}, g)) - Cardinality(Cells({p}, l))
  BY DEF Net
<1> HIDE DEF g, l
<1>3. Cardinality(Cells({p}, g)) = g[p] /\ Cardinality(Cells({p}, l)) = l[p]
  BY <1>1, CellsOfSingleton
<1> QED BY <1>1, <1>2, <1>3

(* One operation more.                                                     *)
LEMMA NetAdd ==
  ASSUME Inv, NEW k, NEW S \in SUBSET AllOps, IsFiniteSet(S), NEW p \in AllOps, p \notin S
  PROVE  /\ Net(S, k) \in Int
         /\ Net(S \union {p}, k) = Net(S, k) + Gain(p, k) - Loss(p, k)
<1> DEFINE T == {p}
<1>1. T \in SUBSET AllOps /\ IsFiniteSet(T) /\ S \intersect T = {}
  BY FS_Singleton
<1>2. Net(T, k) = Gain(p, k) - Loss(p, k) /\ Gain(p, k) \in Nat /\ Loss(p, k) \in Nat
  BY NetOne, GainLossType
<1> HIDE DEF T
<1>3. /\ Net(S, k) \in Int /\ Net(T, k) \in Int
      /\ Net(S \union T, k) = Net(S, k) + Net(T, k)
  BY <1>1, NetUnion
<1> QED BY <1>2, <1>3 DEF T

(* The operations of a transaction up to the n-th, and of a block.         *)
LEMMA OpsFinite ==
  ASSUME NEW ts \in SUBSET Txs, IsFiniteSet(ts)
  PROVE  IsFiniteSet(OpsOf(ts)) /\ OpsOf(ts) \subseteq AllOps
<1> DEFINE O(t) == {<<t, i>> : i \in DOMAIN t.ops}
           F == [t \in ts |-> O(t)]
           U == {O(t) : t \in ts}
<1>1. ASSUME NEW t \in ts PROVE IsFiniteSet(O(t))
  <2> DEFINE n == Len(t.ops)
             f == [i \in 1 .. n |-> <<t, i>>]
  <2>1. DOMAIN t.ops = 1 .. n /\ n \in Nat
    BY TxFacts
  <2>2. O(t) = {f[i] : i \in 1 .. n}
    BY <2>1
  <2>3. f \in Surjection(1 .. n, O(t))
    BY <2>2 DEF Surjection
  <2>4. IsFiniteSet(1 .. n)
    BY <2>1, FS_Interval
  <2> HIDE DEF f, O, n
  <2> QED BY <2>3, <2>4, FS_Surjection
<1>2. F \in Surjection(ts, U)
  BY DEF Surjection
<1>3. IsFiniteSet(U)
  <2> HIDE DEF F, U
  <2> QED BY <1>2, FS_Surjection
<1>4. IsFiniteSet(UNION U)
  <2>1. \A u \in U : IsFiniteSet(u)
    BY <1>1
  <2> HIDE DEF U
  <2> QED BY <1>3, <2>1, FS_UNION
<1>5. OpsOf(ts) = UNION U
  BY DEF OpsOf
<1>6. OpsOf(ts) \subseteq AllOps
  BY DEF OpsOf, AllOps
<1> QED BY <1>4, <1>5, <1>6

(* What the cancellation of a known offer brings.                          *)
LEMMA RefundIsGain ==
  ASSUME Inv, OffersKnown, NEW p \in AllOps, NEW k, p[1].ops[p[2]].type = "CANCEL_SELL_OFFER"
  PROVE  Effect(p[1], p[2], k) = Gain(p, k)
<1> DEFINE N == OfferNamed(p[1], p[2])
           v(o) == IF k = <<p[1].source, o.asset>> THEN o.amount ELSE 0
           ch(s) == CHOOSE x \in s : TRUE
           F(f) == [s \in SUBSET N |-> IF s = {} THEN 0 ELSE v(ch(s)) + f[s \ {ch(s)}]]
           g == CHOOSE f : f = F(f)
           one == [s \in SUBSET N |-> IF s = {} THEN 0 ELSE v(ch(s))]
<1>1. Effect(p[1], p[2], k) = g[N] /\ Gain(p, k) = IF N = {} THEN 0 ELSE v(ch(N))
  <2>1. Effect(p[1], p[2], k) = MapThenSumSet(LAMBDA o : IF k = <<p[1].source, o.asset>> THEN o.amount ELSE 0, N)
    BY Zenon DEF Effect
  <2>2. Effect(p[1], p[2], k) = g[N]
    BY <2>1, Zenon DEF MapThenSumSet, MapThenFoldSet
  <2>3. Gain(p, k) = IF N = {} THEN 0 ELSE v(ch(N))
    BY DEF Gain
  <2> QED BY <2>2, <2>3
<1>2. \A o, q \in N : o = q
  BY DEF OfferNamed, OffersKnown
<1>3. \A o \in N : v(o) \in Nat
  <2>1. N \subseteq Offer
    BY DEF OfferNamed, Inv, TypeOK, BookTypeOK
  <2> QED BY <2>1 DEF Offer
<1>4. ASSUME NEW s \in SUBSET N, s # {}
      PROVE  ch(s) \in N /\ s \ {ch(s)} = {} /\ v(ch(s)) \in Nat
  <2>1. ch(s) \in s
    BY <1>4
  <2> QED BY <1>2, <1>3, <2>1
<1> HIDE DEF N, v, ch
<1>5. one = F(one)
  <2>1. ASSUME NEW s \in SUBSET N
        PROVE  one[s] = IF s = {} THEN 0 ELSE v(ch(s)) + one[s \ {ch(s)}]
    <3>1. one[{}] = 0
      OBVIOUS
    <3>2. CASE s # {}
      <4>1. one[s] = v(ch(s)) /\ s \ {ch(s)} = {} /\ v(ch(s)) \in Nat
        BY <1>4, <3>2
      <4> QED BY <3>1, <3>2, <4>1
    <3> QED BY <3>1, <3>2
  <2> QED BY <2>1
<1>6. g = F(g)
  <2> HIDE DEF F, one
  <2> QED BY <1>5
<1>7. \A s \in SUBSET N : g[s] = IF s = {} THEN 0 ELSE v(ch(s)) + g[s \ {ch(s)}]
  <2> HIDE DEF g
  <2> QED BY <1>6
<1> HIDE DEF g
<1>8. g[N] = IF N = {} THEN 0 ELSE v(ch(N))
  <2>1. CASE N = {}
    BY <1>7, <2>1
  <2>2. CASE N # {}
    <3>1. g[{}] = 0
      BY <1>7
    <3>2. g[N] = v(ch(N)) + g[N \ {ch(N)}] /\ N \ {ch(N)} = {} /\ v(ch(N)) \in Nat
      BY <1>4, <1>7, <2>2
    <3> QED BY <2>2, <3>1, <3>2
  <2> QED BY <2>1, <2>2
<1> QED BY <1>1, <1>8

(* The effect of an operation is what it brings less what it takes.        *)
LEMMA EffectSplits ==
  ASSUME Inv, OffersKnown, NEW p \in AllOps, NEW k
  PROVE  Effect(p[1], p[2], k) = Gain(p, k) - Loss(p, k)
<1> DEFINE op == p[1].ops[p[2]]
<1>1. op.type \in OpTypes /\ op.amount \in Nat
  BY OpFacts
<1>2. CASE op.type = "CANCEL_SELL_OFFER"
  <2>1. Effect(p[1], p[2], k) = Gain(p, k)
    BY <1>2, RefundIsGain
  <2>2. Loss(p, k) = 0 /\ Gain(p, k) \in Nat
    BY <1>2, GainLossType DEF Loss, Takes
  <2> QED BY <2>1, <2>2
<1>3. CASE op.type = "CREATE_ACCOUNT"
  BY <1>1, <1>3 DEF Effect, Gain, Loss, Takes, TakenFrom
<1>4. CASE op.type = "PAYMENT"
  BY <1>1, <1>4 DEF Effect, Gain, Loss, Takes, TakenFrom
<1>5. CASE op.type = "CREATE_SELL_OFFER"
  <2>1. Effect(p[1], p[2], k) = - (IF k = <<p[1].source, op.asset>> THEN op.amount ELSE 0)
    BY <1>5 DEF Effect
  <2>2. Gain(p, k) = 0 /\ Loss(p, k) = IF k = <<p[1].source, op.asset>> THEN op.amount ELSE 0
    BY <1>5 DEF Gain, Loss, Takes, TakenFrom
  <2> QED BY <1>1, <2>1, <2>2
<1>6. CASE op.type = "MONEY_PRINTER"
  <2>1. Effect(p[1], p[2], k) = IF k = <<p[1].source, op.asset>> THEN op.amount ELSE 0
    BY <1>6 DEF Effect
  <2>2. Loss(p, k) = 0 /\ Gain(p, k) = IF k = <<p[1].source, op.asset>> THEN op.amount ELSE 0
    BY <1>6 DEF Gain, Loss, Takes, TakenFrom
  <2> QED BY <1>1, <2>1, <2>2
<1> QED BY <1>1, <1>2, <1>3, <1>4, <1>5, <1>6 DEF OpTypes

(* The sum of the effects is the net effect.                               *)
LEMMA SumIsNet ==
  ASSUME Inv, OffersKnown, NEW k, NEW S \in SUBSET AllOps, IsFiniteSet(S)
  PROVE  MapThenSumSet(LAMBDA p : Effect(p[1], p[2], k), S) = Net(S, k)
<1> DEFINE v(p) == Effect(p[1], p[2], k)
           ch(s) == CHOOSE x \in s : TRUE
           F(f) == [s \in SUBSET S |-> IF s = {} THEN 0 ELSE v(ch(s)) + f[s \ {ch(s)}]]
           g == CHOOSE f : f = F(f)
           c == [p \in S |-> Gain(p, k)]
           d == [p \in S |-> Loss(p, k)]
           total(s) == Cardinality(Cells(s, c)) - Cardinality(Cells(s, d))
           tot == [s \in SUBSET S |-> total(s)]
<1>1. MapThenSumSet(LAMBDA p : Effect(p[1], p[2], k), S) = g[S]
  BY Zenon DEF MapThenSumSet, MapThenFoldSet
<1>2. c \in [S -> Nat] /\ d \in [S -> Nat] /\ \A p \in S : v(p) = c[p] - d[p]
  BY GainLossType, EffectSplits
<1>3. Cells(S, c) = Cells(S, gain(k)) /\ Cells(S, d) = Cells(S, loss(k))
  BY DEF Cells, gain, loss
<1>4. total(S) = Net(S, k)
  BY <1>3 DEF Net
<1> HIDE DEF c, d, v
<1>5. \A s \in SUBSET S : s # {} => ch(s) \in S /\ v(ch(s)) = c[ch(s)] - d[ch(s)] /\ s \ {ch(s)} \in SUBSET S
  BY <1>2
<1>6. \A s \in SUBSET S : total(s) = IF s = {} THEN 0
        ELSE (c[ch(s)] - d[ch(s)]) + total(s \ {ch(s)})
  <2> SUFFICES ASSUME NEW s \in SUBSET S
               PROVE  total(s) = IF s = {} THEN 0 ELSE (c[ch(s)] - d[ch(s)]) + total(s \ {ch(s)})
    OBVIOUS
  <2>1. c \in [S -> Nat] /\ d \in [S -> Nat]
    BY <1>2
  <2>2. ASSUME NEW x \in s PROVE total(s) = (c[x] - d[x]) + total(s \ {x})
    BY <2>1, DifferenceRemove
  <2>3. CASE s = {}
    <3>1. Cardinality(Cells(s, c)) = 0 /\ Cardinality(Cells(s, d)) = 0
      BY <2>3, NoCells
    <3> QED BY <2>3, <3>1
  <2>4. CASE s # {}
    <3>1. ch(s) \in s
      BY <2>4
    <3> HIDE DEF ch, total
    <3> QED BY <2>2, <2>4, <3>1
  <2> QED BY <2>3, <2>4
<1> HIDE DEF ch, total
<1>7. tot = F(tot)
  <2>1. \A s \in SUBSET S : tot[s] = IF s = {} THEN 0 ELSE v(ch(s)) + tot[s \ {ch(s)}]
    BY <1>5, <1>6
  <2> QED BY <2>1
<1>8. g = F(g)
  <2> HIDE DEF F, tot
  <2> QED BY <1>7
<1>9. \A s \in SUBSET S : g[s] = IF s = {} THEN 0 ELSE (c[ch(s)] - d[ch(s)]) + g[s \ {ch(s)}]
  <2> HIDE DEF g
  <2> QED BY <1>5, <1>8
<1> HIDE DEF g
<1>10. g[S] = total(S)
  BY <1>2, <1>9, SumOfDifferences DEF total, ch
<1> QED BY <1>1, <1>4, <1>10

-----------------------------------------------------------------------------
(* The inductive invariant of the effects.                                 *)

(* The operations that worker w has behind it.                             *)
DoneOps(w) == {<<tx[w], i>> : i \in 1 .. op_idx[w] - 1}

(* Its transaction has not failed.                                         *)
Succeeding(w) == pc[w] \in {"op", "debit", "cas", "commit", "create"}

(* The workers whose transaction can fail no more, and the transactions    *)
(* whose effects count: those of the block and those about to be in it.    *)
Committing == {w \in Workers : pc[w] \in {"commit", "create"}}
Going == confirmed \union {tx[w] : w \in Committing}

(* What a worker keeps for its transaction, in the buffer and in the side  *)
(* effects, is the net effect of the operations it has done; it is nothing *)
(* for accounts that nobody knows; and the operation it is in the middle   *)
(* of takes from an account it has looked up.                              *)
ViewInv(w) ==
  /\ Succeeding(w) => \A k \in Keys :
       available_buffer[w][k] + available_side_effects[w][k] = Net(DoneOps(w), k)
  /\ \A k \in Keys : available_buffer[w][k] # 0 => k[1] \in user_ids \union NewAccountIDs(w)
  /\ pc[w] \in {"debit", "cas"} =>
        /\ Op(w).type \in {"CREATE_ACCOUNT", "PAYMENT", "CREATE_SELL_OFFER"}
        /\ Op(w).type # "CREATE_SELL_OFFER" => Op(w).account \in user_ids \union NewAccountIDs(w)

(* What worker w has taken from the balance k and not yet returned, or not *)
(* yet written: a side effect until the transaction commits or is undone,  *)
(* then the buffered amounts that commit has not reached.                  *)
Held(w, k) ==
  IF \/ pc[w] \in {"op", "debit", "cas", "unwind"}
     \/ pc[w] = "return" /\ k \in todo[w]
  THEN - available_side_effects[w][k]
  ELSE IF pc[w] = "commit" /\ k \in todo[w] THEN available_buffer[w][k] ELSE 0
held(k) == [w \in Workers |-> Held(w, k)]

(* Money is conserved at every step: a balance and what the workers hold   *)
(* of it are its committed value and the net effect of the transactions    *)
(* that count.                                                             *)
BalancesInv ==
  ~ threw => \A k \in Keys : k[1] \in user_ids =>
    available[k] + Cardinality(Cells(Workers, held(k))) = committed_available[k] + Net(OpsOf(Going), k)

(* The balance of an account that is not in the database yet: what its     *)
(* entry in uncommitted_db, or the buffer of the worker about to make that *)
(* entry, holds is the net effect of the transactions that count, unless   *)
(* the account may have been created twice.                                *)
NewBalance(k) ==
  /\ available[k] = 0 /\ committed_available[k] = 0
  /\ k[1] \notin misreleased =>
       /\ \A n \in DOMAIN uncommitted_db : uncommitted_db[n].owner = k[1] =>
            uncommitted_db[n].balance[k[2]] = Net(OpsOf(Going), k)
       /\ \A w \in Committing : k[1] \in Pending(w) => available_buffer[w][k] = Net(OpsOf(Going), k)
       /\ (k[1] \notin Owners /\ \A w \in Committing : k[1] \notin Pending(w)) => Net(OpsOf(Going), k) = 0

(* What a commit still has to write belongs to accounts of the database.   *)
CommitsKnown ==
  \A w \in Workers : pc[w] = "commit" => \A l \in todo[w] : l[1] \in user_ids

(* The whole of it.                                                        *)
EffectsInv ==
  /\ IsFiniteSet(confirmed) /\ CommitsKnown
  /\ \A w \in Workers : ViewInv(w)
  /\ BalancesInv
  /\ \A k \in Keys : k[1] \notin user_ids => NewBalance(k)

(* The operations that a thread has done are finitely many.                *)
LEMMA DoneFacts ==
  ASSUME Inv, NEW w \in Workers, pc[w] # "idle", Progress(w)
  PROVE  /\ DoneOps(w) \in SUBSET AllOps /\ IsFiniteSet(DoneOps(w))
         /\ pc[w] \in {"commit", "create"} => DoneOps(w) = OpsOf({tx[w]})
<1>1. tx[w] \in Txs /\ op_idx[w] \in Nat \ {0}
  BY Running
<1>2. op_idx[w] =< Len(tx[w].ops) + 1
  BY DEF Progress
<1>3. DOMAIN tx[w].ops = 1 .. Len(tx[w].ops) /\ Len(tx[w].ops) \in Nat
  BY <1>1, TxFacts
<1>4. OpsOf({tx[w]}) = {<<tx[w], i>> : i \in DOMAIN tx[w].ops}
  BY DEF OpsOf
<1>5. DoneOps(w) \subseteq OpsOf({tx[w]})
  <2>1. 1 .. op_idx[w] - 1 \subseteq DOMAIN tx[w].ops
    BY <1>1, <1>2, <1>3
  <2> QED BY <1>4, <2>1 DEF DoneOps
<1>6. IsFiniteSet(OpsOf({tx[w]})) /\ OpsOf({tx[w]}) \subseteq AllOps
  <2>1. {tx[w]} \in SUBSET Txs /\ IsFiniteSet({tx[w]})
    BY <1>1, FS_Singleton
  <2> QED BY <2>1, OpsFinite
<1>7. pc[w] \in {"commit", "create"} => DoneOps(w) = OpsOf({tx[w]})
  <2>1. pc[w] \in {"commit", "create"} => op_idx[w] - 1 = Len(tx[w].ops)
    BY <1>1, <1>3 DEF Progress
  <2> QED BY <1>3, <1>4, <2>1 DEF DoneOps
<1> QED BY <1>5, <1>6, <1>7, FS_Subset

(* Within a block the effect of an operation does not change.              *)
LEMMA NetNext ==
  ASSUME UNCHANGED committed_offers, NEW k
  PROVE  /\ gain(k)' = gain(k) /\ loss(k)' = loss(k)
         /\ \A w \in Workers : Net(DoneOps(w), k)' = Net(DoneOps(w)', k)
         /\ Net(OpsOf(Going), k)' = Net(OpsOf(Going)', k)
<1>1. \A t, i : OfferNamed(t, i)' = OfferNamed(t, i)
  BY DEF OfferNamed
<1>2. gain(k)' = gain(k)
  BY <1>1 DEF gain, Gain
<1>3. loss(k)' = loss(k)
  BY DEF loss, Loss, Takes, TakenFrom
<1>4. ASSUME NEW w \in Workers PROVE Net(DoneOps(w), k)' = Net(DoneOps(w)', k)
  BY <1>2, <1>3 DEF Net, Cells
<1>5. Net(OpsOf(Going), k)' = Net(OpsOf(Going)', k)
  BY <1>2, <1>3 DEF Net, Cells
<1> QED BY <1>2, <1>3, <1>4, <1>5

(* A step that leaves a view as it is.                                     *)
LEMMA ViewInvKept ==
  ASSUME NEW w \in Workers, ViewInv(w), UNCHANGED <<committed_offers, user_ids>>,
         tx'[w] = tx[w], op_idx'[w] = op_idx[w], available_buffer'[w] = available_buffer[w],
         available_side_effects'[w] = available_side_effects[w],
         NewAccountIDs(w) \subseteq NewAccountIDs(w)',
         Succeeding(w)' => Succeeding(w),
         pc'[w] \in {"debit", "cas"} =>
            /\ Op(w).type \in {"CREATE_ACCOUNT", "PAYMENT", "CREATE_SELL_OFFER"}
            /\ Op(w).type # "CREATE_SELL_OFFER" => Op(w).account \in user_ids \union NewAccountIDs(w)'
  PROVE  ViewInv(w)'
<1>1. DoneOps(w)' = DoneOps(w) /\ Op(w)' = Op(w)
  BY DEF DoneOps, Op
<1>2. \A k \in Keys : Net(DoneOps(w), k)' = Net(DoneOps(w), k)
  BY <1>1, NetNext
<1> QED BY <1>1, <1>2 DEF ViewInv

(* A step that completes an operation.                                     *)
LEMMA ViewInvNextOp ==
  ASSUME Inv, NEW w \in Workers, ViewInv(w), Progress(w), Succeeding(w),
         op_idx[w] \in DOMAIN tx[w].ops, UNCHANGED <<committed_offers, user_ids>>,
         tx'[w] = tx[w], op_idx'[w] = op_idx[w] + 1, pc'[w] = "op", new_accounts'[w] = new_accounts[w],
         \A k \in Keys : available_buffer'[w][k] + available_side_effects'[w][k] =
            available_buffer[w][k] + available_side_effects[w][k]
              + Gain(<<tx[w], op_idx[w]>>, k) - Loss(<<tx[w], op_idx[w]>>, k),
         \A k \in Keys : available_buffer'[w][k] # 0 =>
            available_buffer[w][k] # 0 \/ k[1] \in user_ids \union NewAccountIDs(w)
  PROVE  ViewInv(w)'
<1> DEFINE p == <<tx[w], op_idx[w]>>
           D == DoneOps(w)
<1>1. tx[w] \in Txs /\ op_idx[w] \in Nat \ {0}
  BY Running DEF Succeeding
<1>2. p \in AllOps /\ p \notin D
  BY <1>1 DEF AllOps, OpsOf, DoneOps
<1>3. DoneOps(w)' = D \union {p}
  BY <1>1 DEF DoneOps
<1>4. D \in SUBSET AllOps /\ IsFiniteSet(D)
  BY DoneFacts DEF Succeeding
<1>5. NewAccountIDs(w)' = NewAccountIDs(w)
  BY DEF NewAccountIDs
<1>6. ASSUME NEW k \in Keys
      PROVE  (available_buffer[w][k] + available_side_effects[w][k] = Net(DoneOps(w), k))'
  <2>1. Net(DoneOps(w), k)' = Net(D \union {p}, k)
    BY <1>3, NetNext
  <2>2. available_buffer[w][k] + available_side_effects[w][k] = Net(D, k)
    BY DEF ViewInv
  <2> HIDE DEF D, p
  <2>3. /\ Net(D, k) \in Int /\ Gain(p, k) \in Nat /\ Loss(p, k) \in Nat
        /\ Net(D \union {p}, k) = Net(D, k) + Gain(p, k) - Loss(p, k)
    BY <1>2, <1>4, NetAdd, GainLossType
  <2>4. available_buffer'[w][k] + available_side_effects'[w][k] =
            available_buffer[w][k] + available_side_effects[w][k] + Gain(p, k) - Loss(p, k)
    BY DEF p
  <2> QED BY <2>1, <2>2, <2>3, <2>4
<1> QED BY <1>5, <1>6 DEF ViewInv

(* What is left in the buffers once an operation has debited its source    *)
(* and credited its recipient.                                             *)
LEMMA DebitedIs ==
  ASSUME Inv, NEW w \in Workers, pc[w] # "idle", op_idx[w] \in DOMAIN tx[w].ops,
         Op(w).type \in {"CREATE_ACCOUNT", "PAYMENT", "CREATE_SELL_OFFER"}, NEW v \in Nat, NEW k \in Keys
  PROVE  /\ DebitedBuffer(w, v)[k] =
              (IF k = DebitKey(w) THEN v ELSE available_buffer[w][k]) + Gain(<<tx[w], op_idx[w]>>, k)
         /\ Loss(<<tx[w], op_idx[w]>>, k) = IF k = DebitKey(w) THEN Op(w).amount ELSE 0
         /\ Gain(<<tx[w], op_idx[w]>>, k) # 0 => Op(w).type # "CREATE_SELL_OFFER" /\ k[1] = Op(w).account
<1> DEFINE p == <<tx[w], op_idx[w]>>
           buf == [available_buffer[w] EXCEPT ![DebitKey(w)] = v]
<1>1. tx[w] \in Txs
  BY Running
<1>2. op_idx[w] =< Len(tx[w].ops)
  BY <1>1, TxFacts
<1>3. /\ Op(w).amount \in Nat /\ DebitKey(w) \in Keys
      /\ <<Op(w).account, Op(w).asset>> \in Keys /\ <<Op(w).account, NATIVE_ASSET>> \in Keys
  BY <1>2, CurrentOp
<1>4. available_buffer[w] \in [Keys -> Nat]
  BY ViewTypes
<1>5. buf \in [Keys -> Nat] /\ buf[k] = IF k = DebitKey(w) THEN v ELSE available_buffer[w][k]
  BY <1>3, <1>4
<1>6. p[1].ops[p[2]] = Op(w) /\ p[1] = tx[w]
  BY DEF Op
<1>7. Loss(p, k) = IF k = DebitKey(w) THEN Op(w).amount ELSE 0
  BY <1>6 DEF Loss, Takes, TakenFrom, DebitKey
<1> HIDE DEF p, buf
<1>8. CASE Op(w).type = "CREATE_ACCOUNT"
  <2> DEFINE c == <<Op(w).account, NATIVE_ASSET>>
  <2>1. Gain(p, k) = IF k = c THEN Op(w).amount ELSE 0
    BY <1>6, <1>8 DEF Gain
  <2>2. CreditAfterDebit(w, buf) = [buf EXCEPT ![c] = @ + Op(w).amount]
    BY <1>8 DEF CreditAfterDebit
  <2>3. c \in Keys /\ c[1] = Op(w).account
    BY <1>3
  <2> HIDE DEF c
  <2>4. CreditAfterDebit(w, buf)[k] = buf[k] + Gain(p, k)
    BY <1>3, <1>5, <2>1, <2>2, <2>3
  <2> QED BY <1>5, <1>7, <1>8, <2>1, <2>3, <2>4 DEF DebitedBuffer, p, buf
<1>9. CASE Op(w).type = "PAYMENT"
  <2> DEFINE c == <<Op(w).account, Op(w).asset>>
  <2>1. Gain(p, k) = IF k = c THEN Op(w).amount ELSE 0
    BY <1>6, <1>9 DEF Gain
  <2>2. CreditAfterDebit(w, buf) = [buf EXCEPT ![c] = @ + Op(w).amount]
    BY <1>9 DEF CreditAfterDebit
  <2>3. c \in Keys /\ c[1] = Op(w).account
    BY <1>3
  <2> HIDE DEF c
  <2>4. CreditAfterDebit(w, buf)[k] = buf[k] + Gain(p, k)
    BY <1>3, <1>5, <2>1, <2>2, <2>3
  <2> QED BY <1>5, <1>7, <1>9, <2>1, <2>3, <2>4 DEF DebitedBuffer, p, buf
<1>10. CASE Op(w).type = "CREATE_SELL_OFFER"
  <2>1. Gain(p, k) = 0
    BY <1>6, <1>10 DEF Gain
  <2>2. CreditAfterDebit(w, buf) = buf
    BY <1>10 DEF CreditAfterDebit
  <2>3. CreditAfterDebit(w, buf)[k] = buf[k] + Gain(p, k)
    BY <1>5, <2>1, <2>2
  <2> QED BY <1>5, <1>7, <2>1, <2>3 DEF DebitedBuffer, p, buf
<1> QED BY <1>8, <1>9, <1>10

(* The steps that leave buffers, side effects and the current operation of *)
(* the view alone, its new accounts included.                              *)
LEMMA QuietFacts ==
  ASSUME Inv, NEW w \in Workers, BufferlessStep(w) \/ BeginCommit(w) \/ CommitCredit(w),
         ~ process_create_account(w), ~ unwind_operation(w)
  PROVE  /\ UNCHANGED <<tx, op_idx, available_buffer, available_side_effects, new_accounts, committed_offers, user_ids>>
         /\ pc[w] # "idle"
         /\ Succeeding(w)' => Succeeding(w)
         /\ pc'[w] \in {"debit", "cas"} =>
              \/ pc[w] \in {"debit", "cas"}
              \/ process_create_sell_offer(w) \/ process_payment(w)
<1> USE DEF SetPc, dbVars, bookVars, viewVars, OutsideOp, OutsideCommit, OutsideUnwind, OpReady, Fail,
            Succeeding, Inv, TypeOK, ThreadTypeOK
<1>1. CASE process_create_sell_offer(w)
  BY <1>1 DEF process_create_sell_offer
<1>2. CASE process_payment(w)
  BY <1>2 DEF process_payment
<1>3. CASE LoadBalance(w)
  BY <1>3 DEF LoadBalance
<1>4. CASE BeginCommit(w)
  BY <1>4 DEF BeginCommit
<1>5. CASE CommitCredit(w)
  BY <1>5 DEF CommitCredit
<1>6. CASE BeginCreation(w)
  BY <1>6 DEF BeginCreation
<1>7. CASE commit_account_creation(w)
  BY <1>7 DEF commit_account_creation
<1>8. CASE BeginReturn(w)
  BY <1>8 DEF BeginReturn
<1>9. CASE ReturnDebit(w)
  BY <1>9 DEF ReturnDebit
<1>10. CASE BeginRelease(w)
  BY <1>10 DEF BeginRelease
<1>11. CASE release_account_creation(w)
  BY <1>11 DEF release_account_creation
<1> QED BY <1>1, <1>2, <1>3, <1>4, <1>5, <1>6, <1>7, <1>8, <1>9, <1>10, <1>11 DEF BufferlessStep

(* A credit to the source that completes an operation.                     *)
LEMMA CreditDone ==
  ASSUME Inv, SlotsInv, NEW w \in Workers, ViewInv(w), Progress(w), pc[w] = "op",
         op_idx[w] \in DOMAIN tx[w].ops, UNCHANGED <<committed_offers, user_ids, tx, available_side_effects>>,
         NextOp(w), new_accounts'[w] = new_accounts[w], NEW x \in Assets, NEW n \in Nat,
         Credit(w, <<tx[w].source, x>>, n),
         \A k \in Keys : /\ Gain(<<tx[w], op_idx[w]>>, k) = IF k = <<tx[w].source, x>> THEN n ELSE 0
                         /\ Loss(<<tx[w], op_idx[w]>>, k) = 0
  PROVE  ViewInv(w)'
<1> DEFINE c == <<tx[w].source, x>>
<1>1. tx[w] \in Txs /\ tx[w].source \in user_ids
  BY Running DEF SlotsInv, SlotsHeld, HoldsSlot, Busy
<1>2. c \in Keys /\ c[1] = tx[w].source
  BY <1>1, TxFacts DEF Keys
<1>3. \A k \in Keys : available_buffer[w][k] \in Nat /\ available_side_effects[w][k] \in Int
  BY ViewTypes
<1>4. \A k \in Keys : available_buffer'[w][k] =
        IF k = c THEN available_buffer[w][k] + n ELSE available_buffer[w][k]
  BY <1>2 DEF Credit, Inv, TypeOK, ThreadTypeOK
<1>5. pc'[w] = "op" /\ op_idx'[w] = op_idx[w] + 1 /\ Succeeding(w)
  BY DEF NextOp, SetPc, Succeeding, Inv, TypeOK, ThreadTypeOK
<1> HIDE DEF c
<1>6. \A k \in Keys : available_buffer'[w][k] + available_side_effects'[w][k] =
            available_buffer[w][k] + available_side_effects[w][k]
              + Gain(<<tx[w], op_idx[w]>>, k) - Loss(<<tx[w], op_idx[w]>>, k)
  <2> SUFFICES ASSUME NEW k \in Keys
               PROVE  available_buffer'[w][k] + available_side_effects'[w][k] =
                        available_buffer[w][k] + available_side_effects[w][k]
                          + Gain(<<tx[w], op_idx[w]>>, k) - Loss(<<tx[w], op_idx[w]>>, k)
    OBVIOUS
  <2>1. Gain(<<tx[w], op_idx[w]>>, k) = (IF k = c THEN n ELSE 0) /\ Loss(<<tx[w], op_idx[w]>>, k) = 0
    BY DEF c
  <2> QED BY <1>3, <1>4, <2>1
<1>7. \A k \in Keys : available_buffer'[w][k] # 0 =>
            available_buffer[w][k] # 0 \/ k[1] \in user_ids \union NewAccountIDs(w)
  BY <1>1, <1>2, <1>4
<1> QED BY <1>5, <1>6, <1>7, ViewInvNextOp

(* A debit that completes an operation.                                    *)
LEMMA DebitDone ==
  ASSUME Inv, SlotsInv, NEW w \in Workers, ViewInv(w), Progress(w), pc[w] \in {"debit", "cas"},
         UNCHANGED <<committed_offers, user_ids, tx>>,
         NextOp(w), new_accounts'[w] = new_accounts[w], NEW v \in Nat,
         available_buffer' = [available_buffer EXCEPT ![w] = DebitedBuffer(w, v)],
         available_side_effects'[w] \in [Keys -> Int],
         \A k \in Keys : available_side_effects'[w][k] =
            IF k = DebitKey(w) THEN available_side_effects[w][k] + new_buffer(w) - v
            ELSE available_side_effects[w][k]
  PROVE  ViewInv(w)'
<1> DEFINE p == <<tx[w], op_idx[w]>>
<1>1. tx[w] \in Txs /\ op_idx[w] \in DOMAIN tx[w].ops
  BY Running DEF ThreadConsistent
<1>2. op_idx[w] =< Len(tx[w].ops)
  BY <1>1, TxFacts
<1>3. /\ Op(w).type \in {"CREATE_ACCOUNT", "PAYMENT", "CREATE_SELL_OFFER"}
      /\ Op(w).type # "CREATE_SELL_OFFER" => Op(w).account \in user_ids \union NewAccountIDs(w)
  BY DEF ViewInv
<1>4. \A k \in Keys : available_buffer[w][k] \in Nat /\ available_side_effects[w][k] \in Int
  BY ViewTypes
<1>5. DebitKey(w) \in Keys /\ Op(w).amount \in Nat /\ new_buffer(w) \in Int
  BY <1>2, CurrentOp
<1>6. available_buffer'[w] = DebitedBuffer(w, v)
  BY DEF Inv, TypeOK, ThreadTypeOK
<1>7. pc'[w] = "op" /\ op_idx'[w] = op_idx[w] + 1 /\ Succeeding(w)
  BY DEF NextOp, SetPc, Succeeding, Inv, TypeOK, ThreadTypeOK
<1>8. ASSUME NEW k \in Keys
      PROVE  /\ available_buffer'[w][k] =
                  (IF k = DebitKey(w) THEN v ELSE available_buffer[w][k]) + Gain(p, k)
             /\ Loss(p, k) = IF k = DebitKey(w) THEN Op(w).amount ELSE 0
             /\ Gain(p, k) # 0 => Op(w).type # "CREATE_SELL_OFFER" /\ k[1] = Op(w).account
             /\ Gain(p, k) \in Nat
  <2>1. p \in AllOps
    BY <1>1 DEF AllOps, OpsOf
  <2>2. Gain(p, k) \in Nat
    <3> HIDE DEF p
    <3> QED BY <2>1, GainLossType
  <2> QED BY <1>1, <1>3, <1>6, <2>2, DebitedIs
<1>9. new_buffer(w) = available_buffer[w][DebitKey(w)] - Op(w).amount
  BY DEF new_buffer
<1> HIDE DEF p
<1>10. ASSUME NEW k \in Keys
       PROVE  available_buffer'[w][k] + available_side_effects'[w][k] =
                available_buffer[w][k] + available_side_effects[w][k] + Gain(p, k) - Loss(p, k)
  <2>1. CASE k = DebitKey(w)
    <3>1. /\ available_buffer'[w][k] = v + Gain(p, k) /\ Loss(p, k) = Op(w).amount
          /\ available_side_effects'[w][k] = available_side_effects[w][k] + new_buffer(w) - v
          /\ new_buffer(w) = available_buffer[w][k] - Op(w).amount
      BY <1>8, <1>9, <2>1
    <3>2. Gain(p, k) \in Nat
      BY <1>8
    <3> QED BY <1>4, <1>5, <3>1, <3>2
  <2>2. CASE k # DebitKey(w)
    <3>1. /\ available_buffer'[w][k] = available_buffer[w][k] + Gain(p, k) /\ Loss(p, k) = 0
          /\ available_side_effects'[w][k] = available_side_effects[w][k]
      BY <1>8, <2>2
    <3>2. Gain(p, k) \in Nat
      BY <1>8
    <3> QED BY <1>4, <3>1, <3>2
  <2> QED BY <2>1, <2>2
<1>11. ASSUME NEW k \in Keys, available_buffer'[w][k] # 0
       PROVE  available_buffer[w][k] # 0 \/ k[1] \in user_ids \union NewAccountIDs(w)
  <2>1. CASE Gain(p, k) # 0
    BY <1>3, <1>8, <2>1
  <2>2. CASE Gain(p, k) = 0 /\ k # DebitKey(w)
    BY <1>4, <1>8, <1>11, <2>2
  <2>3. CASE Gain(p, k) = 0 /\ k = DebitKey(w)
    <3>1. k[1] = tx[w].source
      BY <2>3 DEF DebitKey
    <3>2. tx[w].source \in user_ids
      BY DEF SlotsInv, SlotsHeld, HoldsSlot, Busy
    <3> QED BY <3>1, <3>2
  <2> QED BY <2>1, <2>2, <2>3
<1> QED BY <1>1, <1>7, <1>10, <1>11, ViewInvNextOp DEF p

(* A view holds the net effect of the operations it has done, step by      *)
(* step.                                                                   *)
LEMMA Step_ViewInv ==
  ASSUME Inv, SlotsInv, Views, OffersKnown, NEW w \in Workers, ViewInv(w), Progress(w), Step(w)
  PROVE  ViewInv(w)'
<1>1. UNCHANGED <<user_ids, committed_offers>>
  <2>1. CASE FinishTransaction(w)
    BY <2>1 DEF FinishTransaction, dbVars, bookVars
  <2>2. CASE ~ FinishTransaction(w)
    BY <2>2, EveryStep_Books, StepIsLocal
  <2> QED BY <2>1, <2>2
<1> USE DEF SetPc
<1>2. CASE \E t \in Txs : process_transaction_begin(w, t)
  <2>1. /\ pc[w] = "idle" /\ UNCHANGED <<available_buffer, available_side_effects, new_accounts>>
        /\ \/ pc'[w] = "idle"
           \/ pc'[w] = "op" /\ op_idx'[w] = 1
    BY <1>2 DEF process_transaction_begin, viewVars, Inv, TypeOK, ThreadTypeOK
  <2>2. \A k \in Keys : available_buffer'[w][k] = 0 /\ available_side_effects'[w][k] = 0
    BY <2>1 DEF Views, ViewOK
  <2>3. CASE pc'[w] = "idle"
    BY <2>2, <2>3 DEF ViewInv, Succeeding
  <2>4. CASE pc'[w] = "op" /\ op_idx'[w] = 1
    <3>1. DoneOps(w)' = {}
      BY <2>4 DEF DoneOps
    <3>2. \A k \in Keys : Net(DoneOps(w), k)' = 0
      BY <1>1, <3>1, NetNext, NetEmpty
    <3> QED BY <2>2, <2>4, <3>2 DEF ViewInv
  <2> QED BY <2>1, <2>3, <2>4
<1>3. CASE process_create_account(w)
  <2>1. /\ UNCHANGED <<tx, available_buffer, available_side_effects, op_idx>>
        /\ pc[w] = "op" /\ pc'[w] \in {"unwind", "debit"} /\ Op(w).type = "CREATE_ACCOUNT"
        /\ \/ pc'[w] = "unwind" /\ UNCHANGED new_accounts
           \/ pc'[w] = "debit" /\ new_accounts'[w] = Append(new_accounts[w], Op(w).account)
        /\ op_idx[w] =< Len(tx[w].ops)
    BY <1>3 DEF process_create_account, OutsideOp, OpReady, Fail, Inv, TypeOK, ThreadTypeOK
  <2>2. /\ NewAccountIDs(w) \subseteq NewAccountIDs(w)'
        /\ pc'[w] = "debit" => Op(w).account \in NewAccountIDs(w)'
    <3>1. Op(w).account \in AccountIDs /\ new_accounts[w] \in Seq(AccountIDs)
      BY <2>1, CurrentOp DEF Inv, TypeOK, ThreadTypeOK
    <3> DEFINE s == new_accounts[w]
               e == Op(w).account
    <3>2. /\ DOMAIN Append(s, e) = DOMAIN s \union {Len(s) + 1} /\ Append(s, e)[Len(s) + 1] = e
          /\ \A n \in DOMAIN s : Append(s, e)[n] = s[n]
      <4> HIDE DEF s, e
      <4> QED BY <3>1, Appended DEF s, e
    <3>3. CASE UNCHANGED new_accounts
      BY <2>1, <3>3 DEF NewAccountIDs
    <3>4. CASE new_accounts'[w] = Append(s, e)
      BY <3>2, <3>4 DEF NewAccountIDs
    <3> QED BY <2>1, <3>3, <3>4
  <2>3. Succeeding(w)
    BY <2>1 DEF Succeeding
  <2> QED BY <1>1, <2>1, <2>2, <2>3, ViewInvKept
<1>4. CASE process_cancel_sell_offer(w)
  <2>1. /\ pc[w] = "op" /\ UNCHANGED <<tx, available_side_effects, new_accounts>>
        /\ op_idx[w] =< Len(tx[w].ops) /\ Op(w).type = "CANCEL_SELL_OFFER"
    BY <1>4 DEF process_cancel_sell_offer, OpReady, OutsideOp
  <2>2. CASE UNCHANGED available_buffer /\ Fail(w, "CANCEL_OFFER_TARGET_NEXIST")
    <3>1. pc'[w] = "unwind" /\ UNCHANGED op_idx /\ Succeeding(w) /\ NewAccountIDs(w)' = NewAccountIDs(w)
      BY <2>1, <2>2 DEF Fail, Succeeding, NewAccountIDs, Inv, TypeOK, ThreadTypeOK
    <3> QED BY <1>1, <2>1, <2>2, <3>1, ViewInvKept
  <2>3. ASSUME NEW o \in OfferNamed(tx[w], op_idx[w]), NextOp(w),
               Credit(w, <<tx[w].source, o.asset>>, o.amount)
        PROVE  ViewInv(w)'
    <3>1. o \in Offer
      BY DEF OfferNamed, Inv, TypeOK, BookTypeOK
    <3>2. o.asset \in Assets /\ o.amount \in Nat
      BY <3>1 DEF Offer
    <3>3. tx[w] \in Txs /\ op_idx[w] \in DOMAIN tx[w].ops
      BY <2>1, Running, CurrentOp
    <3> DEFINE p == <<tx[w], op_idx[w]>>
               N == OfferNamed(tx[w], op_idx[w])
    <3>4. (CHOOSE q \in N : TRUE) = o
      <4>1. \A q \in N : q = o
        BY DEF OfferNamed, OffersKnown
      <4> HIDE DEF N
      <4> QED BY <4>1, <2>3
    <3>5. \A k \in Keys : /\ Gain(p, k) = IF k = <<tx[w].source, o.asset>> THEN o.amount ELSE 0
                          /\ Loss(p, k) = 0
      <4>1. p[1] = tx[w] /\ p[2] = op_idx[w] /\ p[1].ops[p[2]].type = "CANCEL_SELL_OFFER" /\ N # {}
        BY <2>1, <2>3 DEF Op
      <4>2. \A k \in Keys : Gain(p, k) = LET q == CHOOSE q \in N : TRUE
                                         IN  IF k = <<tx[w].source, q.asset>> THEN q.amount ELSE 0
        BY <4>1 DEF Gain
      <4>3. \A k \in Keys : Loss(p, k) = 0
        BY <4>1 DEF Loss, Takes
      <4> HIDE DEF N, p
      <4> QED BY <3>4, <4>2, <4>3
    <3> QED BY <1>1, <2>1, <2>3, <3>2, <3>3, <3>5, CreditDone
  <2> QED BY <1>4, <2>2, <2>3 DEF process_cancel_sell_offer
<1>5. CASE process_money_printer(w)
  <2>1. /\ pc[w] = "op" /\ UNCHANGED <<tx, available_side_effects, new_accounts>> /\ NextOp(w)
        /\ op_idx[w] =< Len(tx[w].ops) /\ Op(w).type = "MONEY_PRINTER"
        /\ Credit(w, <<tx[w].source, Op(w).asset>>, Op(w).amount)
    BY <1>5 DEF process_money_printer, OpReady, OutsideOp
  <2>2. tx[w] \in Txs /\ op_idx[w] \in DOMAIN tx[w].ops
    BY <2>1, Running, CurrentOp
  <2>3. Op(w).asset \in Assets /\ Op(w).amount \in Nat
    BY <2>2, TxFacts DEF Op
  <2>4. \A k \in Keys : /\ Gain(<<tx[w], op_idx[w]>>, k) =
                             IF k = <<tx[w].source, Op(w).asset>> THEN Op(w).amount ELSE 0
                        /\ Loss(<<tx[w], op_idx[w]>>, k) = 0
    BY <2>1 DEF Gain, Loss, Takes, Op
  <2> QED BY <1>1, <2>1, <2>2, <2>3, <2>4, CreditDone
<1>6. CASE DebitFromBuffer(w)
  <2>1. /\ pc[w] = "debit" /\ UNCHANGED <<tx, available_side_effects, new_accounts>> /\ NextOp(w)
        /\ available_buffer' = [available_buffer EXCEPT ![w] = DebitedBuffer(w, new_buffer(w))]
        /\ new_buffer(w) >= 0
    BY <1>6 DEF DebitFromBuffer, OutsideOp
  <2>2. op_idx[w] \in DOMAIN tx[w].ops /\ tx[w] \in Txs
    BY <2>1, Running DEF ThreadConsistent
  <2>3. op_idx[w] =< Len(tx[w].ops)
    BY <2>2, TxFacts
  <2>4. new_buffer(w) \in Nat
    <3>1. new_buffer(w) \in Int
      BY <2>1, <2>3, CurrentOp
    <3> QED BY <2>1, <3>1
  <2>5. available_side_effects[w] \in [Keys -> Int]
    BY ViewTypes
  <2>6. \A k \in Keys : available_side_effects'[w][k] =
            IF k = DebitKey(w) THEN available_side_effects[w][k] + new_buffer(w) - new_buffer(w)
            ELSE available_side_effects[w][k]
    BY <2>1, <2>4, <2>5
  <2> HIDE DEF SetPc
  <2> QED BY <1>1, <2>1, <2>4, <2>5, <2>6, DebitDone
<1>7. CASE CompareExchange(w)
  <2>1. pc[w] = "cas" /\ UNCHANGED <<tx, new_accounts>>
    BY <1>7 DEF CompareExchange
  <2>2. CASE pc' = [pc EXCEPT ![w] = "debit"] /\ UNCHANGED <<available_side_effects, available_buffer, op_idx>>
    <3>1. pc'[w] = "debit" /\ Succeeding(w) /\ NewAccountIDs(w)' = NewAccountIDs(w)
      BY <2>1, <2>2 DEF Succeeding, NewAccountIDs, Inv, TypeOK, ThreadTypeOK
    <3>2. /\ Op(w).type \in {"CREATE_ACCOUNT", "PAYMENT", "CREATE_SELL_OFFER"}
          /\ Op(w).type # "CREATE_SELL_OFFER" => Op(w).account \in user_ids \union NewAccountIDs(w)
      BY <2>1 DEF ViewInv
    <3> QED BY <1>1, <2>1, <2>2, <3>1, <3>2, ViewInvKept
  <2>3. CASE /\ available_side_effects' =
                  [available_side_effects EXCEPT ![w][DebitKey(w)] = @ + new_buffer(w)]
             /\ available_buffer' = [available_buffer EXCEPT ![w] = DebitedBuffer(w, 0)]
             /\ NextOp(w)
    <3>1. op_idx[w] \in DOMAIN tx[w].ops /\ tx[w] \in Txs
      BY <2>1, Running DEF ThreadConsistent
    <3>2. op_idx[w] =< Len(tx[w].ops)
      BY <3>1, TxFacts
    <3>3. DebitKey(w) \in Keys /\ new_buffer(w) \in Int
      BY <2>1, <3>2, CurrentOp
    <3>4. available_side_effects \in [Workers -> [Keys -> Int]]
      BY DEF Inv, TypeOK, ThreadTypeOK
    <3> DEFINE dk == DebitKey(w)
               nb == new_buffer(w)
    <3>5. dk \in Keys /\ nb \in Int /\ available_side_effects' =
                  [available_side_effects EXCEPT ![w][dk] = @ + nb]
      BY <2>3, <3>3
    <3> HIDE DEF dk, nb
    <3>6. /\ available_side_effects'[w] \in [Keys -> Int]
          /\ \A k \in Keys : available_side_effects'[w][k] =
               IF k = dk THEN available_side_effects[w][k] + nb - 0 ELSE available_side_effects[w][k]
      BY <3>4, <3>5
    <3>7. 0 \in Nat
      OBVIOUS
    <3> HIDE DEF SetPc
    <3> QED BY <1>1, <2>1, <2>3, <3>6, <3>7, DebitDone DEF dk, nb
  <2> QED BY <1>7, <2>2, <2>3 DEF CompareExchange
<1>8. CASE unwind_operation(w)
  <2>1. /\ UNCHANGED <<tx, available_buffer, available_side_effects, new_accounts>>
        /\ pc[w] = "unwind" /\ pc'[w] \in {"unwind", "threw"}
    BY <1>8 DEF unwind_operation, OutsideUnwind, viewVars, Inv, TypeOK, ThreadTypeOK
  <2>2. NewAccountIDs(w)' = NewAccountIDs(w)
    BY <2>1 DEF NewAccountIDs
  <2> QED BY <1>1, <2>1, <2>2 DEF ViewInv, Succeeding
<1>9. CASE /\ BufferlessStep(w) \/ BeginCommit(w) \/ CommitCredit(w)
           /\ ~ process_create_account(w) /\ ~ unwind_operation(w)
  <2>1. /\ UNCHANGED <<tx, op_idx, available_buffer, available_side_effects, new_accounts>>
        /\ Succeeding(w)' => Succeeding(w)
        /\ pc'[w] \in {"debit", "cas"} =>
              \/ pc[w] \in {"debit", "cas"}
              \/ process_create_sell_offer(w) \/ process_payment(w)
    BY <1>9, QuietFacts
  <2>2. NewAccountIDs(w)' = NewAccountIDs(w)
    BY <2>1 DEF NewAccountIDs
  <2>3. pc'[w] \in {"debit", "cas"} =>
            /\ Op(w).type \in {"CREATE_ACCOUNT", "PAYMENT", "CREATE_SELL_OFFER"}
            /\ Op(w).type # "CREATE_SELL_OFFER" => Op(w).account \in user_ids \union NewAccountIDs(w)
    <3>1. CASE pc[w] \in {"debit", "cas"}
      BY <3>1 DEF ViewInv
    <3>2. CASE process_create_sell_offer(w)
      BY <3>2 DEF process_create_sell_offer, OpReady
    <3>3. ASSUME process_payment(w), pc'[w] \in {"debit", "cas"}
          PROVE  Op(w).type = "PAYMENT" /\ Op(w).account \in user_ids \union NewAccountIDs(w)
      BY <3>3 DEF process_payment, OpReady, Fail, Inv, TypeOK, ThreadTypeOK
    <3> QED BY <2>1, <3>1, <3>2, <3>3
  <2> QED BY <1>1, <2>1, <2>2, <2>3, ViewInvKept
<1>10. CASE FinishTransaction(w) \/ AbortTransaction(w)
  <2>1. CASE Return(w)
    <3>1. pc'[w] = "idle" /\ available_buffer'[w] = Zero
      BY <2>1, Returned
    <3> QED BY <3>1 DEF ViewInv, Zero, Succeeding
  <2>2. CASE ~ Return(w)
    <3>1. UNCHANGED <<tx, available_buffer, new_accounts>> /\ pc'[w] = "threw"
      BY <1>10, <2>2 DEF FinishTransaction, AbortTransaction, viewVars, Inv, TypeOK, ThreadTypeOK
    <3>2. NewAccountIDs(w)' = NewAccountIDs(w)
      BY <3>1 DEF NewAccountIDs
    <3> QED BY <1>1, <3>1, <3>2 DEF ViewInv, Succeeding
  <2> QED BY <2>1, <2>2
<1> QED BY <1>2, <1>3, <1>4, <1>5, <1>6, <1>7, <1>8, <1>9, <1>10 DEF Step, BufferlessStep

(* What a thread holds is a natural number.                                *)
LEMMA HeldType ==
  ASSUME Inv, NEW k \in Keys
  PROVE  /\ held(k) \in [Workers -> Nat]
         /\ \A w \in Workers : held(k)[w] = Held(w, k) /\ Held(w, k) \in Nat
         /\ Cardinality(Cells(Workers, held(k))) \in Nat
<1>1. \A w \in Workers : Held(w, k) \in Nat
  BY ViewTypes DEF Held
<1>2. held(k) \in [Workers -> Nat] /\ \A w \in Workers : held(k)[w] = Held(w, k)
  BY <1>1 DEF held
<1>3. IsFiniteSet(Workers) /\ \A w \in Workers : held(k)[w] \in Nat
  BY <1>2, ConstantsAssumption
<1> QED BY <1>1, <1>2, <1>3, CellsFinite

(* The transactions that will be in the block are finitely many.           *)
LEMMA GoingFacts ==
  ASSUME Inv, IsFiniteSet(confirmed)
  PROVE  /\ Going \in SUBSET Txs /\ IsFiniteSet(Going)
         /\ OpsOf(Going) \in SUBSET AllOps /\ IsFiniteSet(OpsOf(Going))
<1> DEFINE C == {tx[w] : w \in Committing}
           F == [w \in Committing |-> tx[w]]
<1>1. \A w \in Committing : tx[w] \in Txs
  BY Running DEF Committing
<1>2. Going \in SUBSET Txs
  BY <1>1 DEF Going, Inv, TypeOK, BlockTypeOK
<1>3. IsFiniteSet(Committing)
  BY ConstantsAssumption, FS_Subset DEF Committing
<1>4. F \in Surjection(Committing, C)
  BY DEF Surjection
<1>5. IsFiniteSet(C)
  <2> HIDE DEF F, C
  <2> QED BY <1>3, <1>4, FS_Surjection
<1>6. IsFiniteSet(Going)
  <2>1. Going = confirmed \union C
    BY DEF Going
  <2> HIDE DEF C
  <2> QED BY <1>5, <2>1, FS_Union
<1> QED BY <1>2, <1>6, OpsFinite

(* Only the begin of its commit adds a transaction to them.                *)
LEMMA Step_Going ==
  ASSUME Inv, NEW w \in Workers, Step(w)
  PROVE  IF BeginCommit(w) THEN Going' = Going \union {tx[w]} /\ UNCHANGED <<tx, confirmed>>
         ELSE Going' = Going
<1>1. OtherThreads(w)
  BY StepIsLocal
<1>2. \A v \in Workers \ {w} : tx'[v] = tx[v] /\ (v \in Committing' <=> v \in Committing)
  BY <1>1 DEF OtherThreads, Committing
<1>3. CASE BeginCommit(w)
  <2>1. w \notin Committing /\ w \in Committing' /\ UNCHANGED <<tx, confirmed>>
    BY <1>3 DEF BeginCommit, SetPc, OutsideCommit, blockVars, Committing, Inv, TypeOK, ThreadTypeOK
  <2> QED BY <1>2, <1>3, <2>1 DEF Going, Committing
<1>4. CASE FinishTransaction(w)
  <2>1. w \in Committing /\ w \notin Committing' /\ confirmed' = confirmed \union {tx[w]} /\ ~ BeginCommit(w)
    BY <1>4, Returned DEF FinishTransaction, BeginCommit, Committing
  <2> QED BY <1>2, <2>1 DEF Going, Committing
<1>5. CASE ~ BeginCommit(w) /\ ~ FinishTransaction(w)
  <2>1. UNCHANGED confirmed /\ (w \in Committing' <=> w \in Committing) /\ (w \in Committing => tx'[w] = tx[w])
    <3> USE DEF Inv, TypeOK, ThreadTypeOK, SetPc, blockVars, OutsideOp, OutsideCommit, OutsideUnwind, OpReady,
                Fail, NextOp, Return, Committing
    <3>1. CASE \E t \in Txs : process_transaction_begin(w, t)
      BY <3>1 DEF process_transaction_begin
    <3>2. CASE process_create_account(w)
      BY <3>2 DEF process_create_account
    <3>3. CASE process_create_sell_offer(w)
      BY <3>3 DEF process_create_sell_offer
    <3>4. CASE process_cancel_sell_offer(w)
      BY <3>4 DEF process_cancel_sell_offer
    <3>5. CASE process_payment(w)
      BY <3>5 DEF process_payment
    <3>6. CASE process_money_printer(w)
      BY <3>6 DEF process_money_printer
    <3>7. CASE DebitFromBuffer(w)
      BY <3>7 DEF DebitFromBuffer
    <3>8. CASE LoadBalance(w)
      BY <3>8 DEF LoadBalance
    <3>9. CASE CompareExchange(w)
      BY <3>9 DEF CompareExchange
    <3>10. CASE CommitCredit(w)
      BY <3>10 DEF CommitCredit
    <3>11. CASE BeginCreation(w)
      BY <3>11 DEF BeginCreation
    <3>12. CASE commit_account_creation(w)
      BY <3>12 DEF commit_account_creation
    <3>13. CASE unwind_operation(w)
      BY <3>13 DEF unwind_operation
    <3>14. CASE BeginReturn(w)
      BY <3>14 DEF BeginReturn
    <3>15. CASE ReturnDebit(w)
      BY <3>15 DEF ReturnDebit
    <3>16. CASE BeginRelease(w)
      BY <3>16 DEF BeginRelease
    <3>17. CASE release_account_creation(w)
      BY <3>17 DEF release_account_creation
    <3>18. CASE AbortTransaction(w)
      BY <3>18 DEF AbortTransaction
    <3> QED BY <1>5, <3>1, <3>2, <3>3, <3>4, <3>5, <3>6, <3>7, <3>8, <3>9, <3>10, <3>11, <3>12, <3>13, <3>14, <3>15, <3>16, <3>17, <3>18 DEF Step
  <2> QED BY <1>2, <1>5, <2>1 DEF Going, Committing
<1> QED BY <1>3, <1>4, <1>5

(* A transaction that begins its commit adds the net effect that its view  *)
(* holds.                                                                  *)
LEMMA CommitAdds ==
  ASSUME Inv, SlotsInv, IsFiniteSet(confirmed), NEW w \in Workers, ViewInv(w), Progress(w), BeginCommit(w), NEW k \in Keys
  PROVE  /\ Net(OpsOf(Going), k) \in Int
         /\ Net(OpsOf(Going), k)' =
              Net(OpsOf(Going), k) + available_buffer[w][k] + available_side_effects[w][k]
<1>1. /\ pc[w] = "op" /\ op_idx[w] > Len(tx[w].ops) /\ UNCHANGED <<committed_offers, tx, confirmed>>
      /\ Going' = Going \union {tx[w]}
  BY Step_Going DEF BeginCommit, OutsideCommit, bookVars, Step
<1>2. tx[w] \in Txs /\ op_idx[w] \in Nat
  BY <1>1, Running
<1>3. op_idx[w] = Len(tx[w].ops) + 1 /\ Len(tx[w].ops) \in Nat /\ DOMAIN tx[w].ops = 1 .. Len(tx[w].ops)
  BY <1>1, <1>2, TxFacts DEF Progress
<1>4. tx[w] \notin Going
  <2>1. /\ tx[w] \notin confirmed
        /\ \A v \in Workers \ {w} : pc[v] # "idle" => tx[v] # tx[w]
    BY <1>1, RunsAlone
  <2> QED BY <1>1, <2>1 DEF Going, Committing
<1> DEFINE S == OpsOf(Going)
           D == DoneOps(w)
<1>5. S \in SUBSET AllOps /\ IsFiniteSet(S) /\ D \in SUBSET AllOps /\ IsFiniteSet(D)
  BY <1>1, GoingFacts, DoneFacts
<1>6. S \intersect D = {}
  BY <1>4 DEF OpsOf, DoneOps
<1>7. OpsOf(Going)' = S \union D
  <2>1. D = {<<tx[w], i>> : i \in DOMAIN tx[w].ops}
    BY <1>3 DEF DoneOps
  <2> QED BY <1>1, <2>1 DEF OpsOf
<1>8. Net(OpsOf(Going), k)' = Net(S \union D, k)
  BY <1>1, <1>7, NetNext
<1>9. Net(D, k) = available_buffer[w][k] + available_side_effects[w][k]
  BY <1>1 DEF ViewInv, Succeeding
<1>10. Net(S, k) = Net(OpsOf(Going), k)
  OBVIOUS
<1> HIDE DEF S, D
<1>11. Net(S, k) \in Int /\ Net(D, k) \in Int /\ Net(S \union D, k) = Net(S, k) + Net(D, k)
  BY <1>5, <1>6, NetUnion
<1>12. available_buffer[w][k] \in Nat /\ available_side_effects[w][k] \in Int
  BY ViewTypes
<1> QED BY <1>8, <1>9, <1>10, <1>11, <1>12

(* What a step of a thread has to establish: what it adds to a balance, to *)
(* what it holds and to the effects of the block balances.                 *)
LEMMA BalancesKept ==
  ASSUME Inv, Inv', BalancesInv, NEW w \in Workers, pc[w] # "threw", OtherThreads(w),
         UNCHANGED <<user_ids, committed_available>>,
         ASSUME NEW k \in Keys, k[1] \in user_ids, ~ threw'
         PROVE  /\ Net(OpsOf(Going), k) \in Int /\ Net(OpsOf(Going), k)' \in Int
                /\ available'[k] + Held(w, k)' - Net(OpsOf(Going), k)'
                     = available[k] + Held(w, k) - Net(OpsOf(Going), k)
  PROVE  BalancesInv'
<1> SUFFICES ASSUME ~ threw', NEW k \in Keys, k[1] \in user_ids
             PROVE  (available[k] + Cardinality(Cells(Workers, held(k)))
                       = committed_available[k] + Net(OpsOf(Going), k))'
  BY DEF BalancesInv
<1> DEFINE h == held(k)
           g == held(k)'
           m == Net(OpsOf(Going), k)
           n == Net(OpsOf(Going), k)'
<1>1. ~ threw
  BY DEF threw, OtherThreads
<1>2. available[k] + Cardinality(Cells(Workers, h)) = committed_available[k] + m
  BY <1>1 DEF BalancesInv
<1>3. h \in [Workers -> Nat] /\ h[w] = Held(w, k) /\ Held(w, k) \in Nat
  BY HeldType
<1>4. g \in [Workers -> Nat] /\ g[w] = Held(w, k)' /\ Held(w, k)' \in Nat
  <2>1. \A v \in Workers : Held(v, k)' \in Nat
    <3>1. \A v \in Workers : available_side_effects'[v][k] \in Int /\ available_buffer'[v][k] \in Int
      BY DEF Inv, TypeOK, ThreadTypeOK
    <3>2. \A v \in Workers : available_side_effects'[v][k] =< 0 /\ available_buffer'[v][k] >= 0
      BY DEF Inv, ViewsConsistent, ThreadConsistent
    <3> QED BY <3>1, <3>2 DEF Held
  <2>2. g = [v \in Workers |-> Held(v, k)']
    BY DEF held
  <2> QED BY <2>1, <2>2
<1>5. \A v \in Workers \ {w} : g[v] = h[v]
  BY DEF held, Held, OtherThreads
<1>6. Cardinality(Cells(Workers, held(k)))' = Cardinality(Cells(Workers, g))
  BY DEF Cells
<1>7. IsFiniteSet(Workers)
  BY ConstantsAssumption
<1>8. available[k] \in Int /\ available'[k] \in Int /\ committed_available[k] \in Int
  BY DEF Inv, TypeOK, DbTypeOK
<1>9. m \in Int /\ n \in Int /\ available'[k] + Held(w, k)' - n = available[k] + Held(w, k) - m
  OBVIOUS
<1> HIDE DEF h, g, m, n
<1>10. /\ Cardinality(Cells(Workers, h)) \in Nat
       /\ Cardinality(Cells(Workers, g)) = Cardinality(Cells(Workers, h)) - h[w] + g[w]
  BY <1>3, <1>4, <1>5, <1>7, CellsUpdate
<1>11. available'[k] + Cardinality(Cells(Workers, g)) = committed_available[k] + n
  BY <1>2, <1>3, <1>4, <1>8, <1>9, <1>10
<1> QED BY <1>6, <1>11 DEF n

(* While a transaction executes its operations or takes them back, it      *)
(* holds its side effects.                                                 *)
LEMMA HoldsSideEffects ==
  ASSUME NEW w \in Workers, NEW k \in Keys,
         pc[w] \in {"op", "debit", "cas", "unwind"}, pc'[w] \in {"op", "debit", "cas", "unwind"}
  PROVE  /\ Held(w, k) = - available_side_effects[w][k]
         /\ Held(w, k)' = - available_side_effects'[w][k]
  BY DEF Held

(* Except for the begin of a commit, a step takes what it comes to hold    *)
(* from the balance, or gives it back.                                     *)
LEMMA Step_Held ==
  ASSUME Inv, Views, NEW w \in Workers, Step(w), ~ BeginCommit(w), ~ threw', NEW k \in Keys
  PROVE  available'[k] + Held(w, k)' = available[k] + Held(w, k)
<1>1. /\ available[k] \in Int /\ available_side_effects[w][k] \in Int /\ available_buffer[w][k] \in Int
      /\ available \in [Keys -> Int] /\ available_side_effects \in [Workers -> [Keys -> Int]]
  BY DEF Inv, TypeOK, DbTypeOK, ThreadTypeOK
<1>2. ViewOK(w)
  BY DEF Views
<1> USE DEF SetPc, Inv, TypeOK, ThreadTypeOK
<1>3. CASE \E t \in Txs : process_transaction_begin(w, t)
  <2>1. /\ UNCHANGED <<available, available_side_effects>>
        /\ pc[w] = "idle" /\ pc'[w] \in {"idle", "op"}
    BY <1>3 DEF process_transaction_begin, viewVars
  <2>2. available_side_effects[w][k] = 0
    BY <1>2, <2>1 DEF ViewOK
  <2> QED BY <1>1, <2>1, <2>2 DEF Held
<1>4. CASE \/ process_create_account(w) \/ process_create_sell_offer(w) \/ process_cancel_sell_offer(w)
           \/ process_payment(w) \/ process_money_printer(w) \/ DebitFromBuffer(w) \/ LoadBalance(w)
           \/ unwind_operation(w)
  <2> USE DEF OutsideOp, OutsideUnwind, viewVars, OpReady, Fail, NextOp
  <2>1. pc'[w] # "threw"
    BY DEF threw
  <2>2. /\ UNCHANGED <<available, available_side_effects>>
        /\ pc[w] \in {"op", "debit", "cas", "unwind"} /\ pc'[w] \in {"op", "debit", "cas", "unwind"}
    <3>1. CASE process_create_account(w)
      BY <3>1 DEF process_create_account
    <3>2. CASE process_create_sell_offer(w)
      BY <3>2 DEF process_create_sell_offer
    <3>3. CASE process_cancel_sell_offer(w)
      BY <3>3 DEF process_cancel_sell_offer
    <3>4. CASE process_payment(w)
      BY <3>4 DEF process_payment
    <3>5. CASE process_money_printer(w)
      BY <3>5 DEF process_money_printer
    <3>6. CASE DebitFromBuffer(w)
      BY <3>6 DEF DebitFromBuffer
    <3>7. CASE LoadBalance(w)
      BY <3>7 DEF LoadBalance
    <3>8. CASE unwind_operation(w)
      BY <2>1, <3>8 DEF unwind_operation
    <3> QED BY <1>4, <3>1, <3>2, <3>3, <3>4, <3>5, <3>6, <3>7, <3>8
  <2> QED BY <1>1, <2>2, HoldsSideEffects
<1>5. CASE CompareExchange(w)
  <2>1. pc[w] = "cas" /\ pc'[w] \in {"op", "debit"}
    BY <1>5 DEF CompareExchange, NextOp
  <2>2. CASE UNCHANGED <<available, available_side_effects>>
    BY <1>1, <2>1, <2>2, HoldsSideEffects
  <2>3. CASE ~ UNCHANGED <<available, available_side_effects>>
    <3>1. /\ available[DebitKey(w)] = current_available[w]
          /\ available' = [available EXCEPT ![DebitKey(w)] = current_available[w] + new_buffer(w)]
          /\ available_side_effects' =
               [available_side_effects EXCEPT ![w][DebitKey(w)] = @ + new_buffer(w)]
      BY <1>5, <2>3 DEF CompareExchange
    <3>2. op_idx[w] \in DOMAIN tx[w].ops /\ tx[w] \in Txs
      BY <2>1, Running DEF ThreadConsistent
    <3>3. op_idx[w] =< Len(tx[w].ops)
      BY <3>2, TxFacts
    <3>4. DebitKey(w) \in Keys /\ new_buffer(w) \in Int
      BY <2>1, <3>3, CurrentOp
    <3> DEFINE dk == DebitKey(w)
               nb == new_buffer(w)
    <3>5. /\ available'[k] = IF k = dk THEN available[k] + nb ELSE available[k]
          /\ available_side_effects'[w][k] = IF k = dk THEN available_side_effects[w][k] + nb
                                             ELSE available_side_effects[w][k]
      BY <1>1, <3>1, <3>4
    <3>6. nb \in Int
      BY <3>4
    <3> HIDE DEF dk, nb
    <3>7. /\ Held(w, k) = - available_side_effects[w][k]
          /\ Held(w, k)' = - available_side_effects'[w][k]
      BY <2>1, HoldsSideEffects
    <3>8. CASE k = dk
      BY <1>1, <3>5, <3>6, <3>7, <3>8
    <3>9. CASE k # dk
      BY <1>1, <3>5, <3>7, <3>9
    <3> QED BY <3>8, <3>9
  <2> QED BY <2>2, <2>3
<1>6. CASE CommitCredit(w)
  <2>1. PICK l \in todo[w] : /\ available' = [available EXCEPT ![l] = @ + available_buffer[w][l]]
                             /\ todo' = [todo EXCEPT ![w] = @ \ {l}]
    BY <1>6 DEF CommitCredit
  <2>2. pc[w] = "commit" /\ pc'[w] = "commit" /\ UNCHANGED available_buffer
    BY <1>6 DEF CommitCredit, OutsideCommit, viewVars
  <2>3. todo'[w] = todo[w] \ {l}
    BY <2>1
  <2>4. CASE k = l
    <3>1. Held(w, k) = available_buffer[w][k] /\ Held(w, k)' = 0
      BY <2>2, <2>3, <2>4 DEF Held
    <3>2. available'[k] = available[k] + available_buffer[w][k]
      BY <1>1, <2>1, <2>4
    <3> QED BY <1>1, <3>1, <3>2
  <2>5. CASE k # l
    <3>1. Held(w, k)' = Held(w, k)
      BY <2>2, <2>3, <2>5 DEF Held
    <3>2. available'[k] = available[k]
      BY <1>1, <2>1, <2>5
    <3> QED BY <3>1, <3>2
  <2> QED BY <2>4, <2>5
<1>7. CASE BeginCreation(w) \/ commit_account_creation(w) \/ BeginRelease(w) \/ release_account_creation(w)
  <2>1. /\ UNCHANGED available
        /\ \/ pc[w] \in {"create", "release"}
           \/ pc[w] \in {"commit", "return"} /\ todo[w] = {}
        /\ pc'[w] \in {"create", "release"}
    BY <1>7 DEF BeginCreation, commit_account_creation, BeginRelease, release_account_creation
  <2> QED BY <1>1, <2>1 DEF Held
<1>8. CASE BeginReturn(w)
  <2>1. /\ UNCHANGED <<available, available_side_effects>> /\ pc[w] = "unwind" /\ pc'[w] = "return"
        /\ todo'[w] = {l \in Keys : available_side_effects[w][l] # 0}
    BY <1>8 DEF BeginReturn, OutsideUnwind, viewVars
  <2>2. Held(w, k) = - available_side_effects[w][k]
    BY <2>1 DEF Held
  <2>3. Held(w, k)' = - available_side_effects[w][k]
    BY <1>1, <2>1 DEF Held
  <2> QED BY <1>1, <2>1, <2>2, <2>3
<1>9. CASE ReturnDebit(w)
  <2>1. PICK l \in todo[w] :
           /\ available' = [available EXCEPT ![l] = @ - available_side_effects[w][l]]
           /\ todo' = [todo EXCEPT ![w] = @ \ {l}]
    BY <1>9 DEF ReturnDebit
  <2>2. pc[w] = "return" /\ pc'[w] = "return" /\ UNCHANGED available_side_effects
    BY <1>9 DEF ReturnDebit, OutsideUnwind, viewVars
  <2>3. todo'[w] = todo[w] \ {l}
    BY <2>1
  <2>4. CASE k = l
    <3>1. Held(w, k) = - available_side_effects[w][k] /\ Held(w, k)' = 0
      BY <2>2, <2>3, <2>4 DEF Held
    <3>2. available'[k] = available[k] - available_side_effects[w][k]
      BY <1>1, <2>1, <2>4
    <3> QED BY <1>1, <3>1, <3>2
  <2>5. CASE k # l
    <3>1. Held(w, k)' = Held(w, k)
      BY <2>2, <2>3, <2>5 DEF Held
    <3>2. available'[k] = available[k]
      BY <1>1, <2>1, <2>5
    <3> QED BY <3>1, <3>2
  <2> QED BY <2>4, <2>5
<1>10. CASE FinishTransaction(w) \/ AbortTransaction(w)
  <2>1. UNCHANGED available /\ pc[w] \in {"create", "release"} /\ pc'[w] \in {"idle", "threw"}
    BY <1>10 DEF FinishTransaction, AbortTransaction, Return
  <2> QED BY <1>1, <2>1 DEF Held
<1> QED BY <1>3, <1>4, <1>5, <1>6, <1>7, <1>8, <1>9, <1>10 DEF Step

(* Every step accounts for what it does to the balances.                   *)
LEMMA Step_Balances ==
  ASSUME Inv, SlotsInv, Views, BalancesInv, IsFiniteSet(confirmed), NEW w \in Workers, ViewInv(w),
         Progress(w), UNCHANGED committed_offers, Step(w)
  PROVE  BalancesInv'
<1>1. OtherThreads(w) /\ UNCHANGED <<user_ids, committed_available>> /\ pc[w] # "threw"
  BY StepIsLocal
<1>2. Inv'
  BY InvInductive DEF Next
<1> SUFFICES ASSUME NEW k \in Keys, k[1] \in user_ids, ~ threw'
             PROVE  /\ Net(OpsOf(Going), k) \in Int /\ Net(OpsOf(Going), k)' \in Int
                    /\ available'[k] + Held(w, k)' - Net(OpsOf(Going), k)'
                         = available[k] + Held(w, k) - Net(OpsOf(Going), k)
  BY <1>1, <1>2, BalancesKept
<1>3. available[k] \in Int /\ Held(w, k) \in Nat
  BY HeldType DEF Inv, TypeOK, DbTypeOK
<1>4. CASE BeginCommit(w)
  <2>1. /\ Net(OpsOf(Going), k) \in Int
        /\ Net(OpsOf(Going), k)' =
              Net(OpsOf(Going), k) + available_buffer[w][k] + available_side_effects[w][k]
    BY <1>4, CommitAdds
  <2>2. /\ UNCHANGED <<available, available_buffer>> /\ pc[w] = "op" /\ pc'[w] = "commit"
        /\ todo'[w] = {l \in Keys : l[1] \in user_ids /\ available_buffer[w][l] # 0}
    BY <1>4 DEF BeginCommit, OutsideCommit, viewVars, SetPc, Inv, TypeOK, ThreadTypeOK
  <2>3. available_buffer[w][k] \in Nat /\ available_side_effects[w][k] \in Int
    BY ViewTypes
  <2>4. Held(w, k) = - available_side_effects[w][k]
    BY <2>2 DEF Held
  <2>5. Held(w, k)' = available_buffer[w][k]
    BY <2>2, <2>3 DEF Held
  <2> QED BY <1>3, <2>1, <2>2, <2>3, <2>4, <2>5
<1>5. CASE ~ BeginCommit(w)
  <2> DEFINE S == OpsOf(Going)
  <2>1. OpsOf(Going)' = S
    BY <1>5, Step_Going DEF OpsOf
  <2>2. Net(OpsOf(Going), k)' = Net(S, k)
    BY <2>1, NetNext
  <2>3. Net(S, k) \in Int
    <3>1. S \in SUBSET AllOps /\ IsFiniteSet(S)
      BY GoingFacts
    <3>2. {} \in SUBSET AllOps /\ IsFiniteSet({}) /\ S \intersect {} = {}
      BY FS_EmptySet
    <3> HIDE DEF S
    <3> QED BY <3>1, <3>2, NetUnion
  <2>4. available'[k] + Held(w, k)' = available[k] + Held(w, k)
    BY <1>5, Step_Held
  <2>5. Held(w, k)' \in Int /\ available'[k] \in Int
    <3>1. available_side_effects'[w][k] \in Int /\ available_buffer'[w][k] \in Int /\ available'[k] \in Int
      BY <1>2 DEF Inv, TypeOK, DbTypeOK, ThreadTypeOK
    <3> QED BY <3>1 DEF Held
  <2>6. Net(OpsOf(Going), k) \in Int /\ Net(OpsOf(Going), k)' = Net(OpsOf(Going), k)
    BY <2>2, <2>3
  <2> QED BY <1>3, <2>4, <2>5, <2>6
<1> QED BY <1>4, <1>5

(* The accounts that a view is about to hand to the database are new.      *)
LEMMA PendingFacts ==
  ASSUME Inv, CreationInv, NEW w \in Workers
  PROVE  /\ Pending(w) \subseteq NewAccountIDs(w)
         /\ Pending(w) \intersect user_ids = {} /\ NewAccountIDs(w) \intersect user_ids = {}
<1>1. CreatorOK(w)
  BY DEF CreationInv
<1>2. Pending(w) \subseteq NewAccountIDs(w)
  BY DEF Pending, NewAccountIDs, Inv, ViewsConsistent, ThreadConsistent
<1> QED BY <1>1, <1>2 DEF CreatorOK

(* What a step that adds no transaction to the block has to leave alone.   *)
LEMMA NewBalanceKept ==
  ASSUME NEW k \in Keys, NewBalance(k), UNCHANGED <<committed_offers, committed_available, uncommitted_db>>,
         misreleased \subseteq misreleased',
         available'[k] = available[k], Going' = Going,
         \A w \in Committing' : /\ w \in Committing /\ available_buffer'[w] = available_buffer[w]
                                /\ Pending(w)' = Pending(w),
         \A w \in Committing \ Committing' : Pending(w) = {}
  PROVE  NewBalance(k)'
<1>1. OpsOf(Going)' = OpsOf(Going)
  BY DEF OpsOf
<1>2. Net(OpsOf(Going), k)' = Net(OpsOf(Going), k)
  BY <1>1, NetNext
<1>3. Owners' = Owners
  BY DEF Owners
<1> QED BY <1>2, <1>3 DEF NewBalance

(* A step writes no balance of an account that does not exist.             *)
LEMMA NewBalancesUntouched ==
  ASSUME Inv, SlotsInv, Views, NEW w \in Workers, Step(w), NEW k \in Keys, k[1] \notin user_ids,
         pc[w] = "commit" => \A l \in todo[w] : l[1] \in user_ids
  PROVE  available'[k] = available[k]
<1>1. available \in [Keys -> Int]
  BY DEF Inv, TypeOK, DbTypeOK
<1>2. pc[w] # "idle" => tx[w].source \in user_ids
  BY DEF SlotsInv, SlotsHeld, HoldsSlot, Busy
<1>3. CASE UNCHANGED available
  BY <1>3
<1>4. CASE CompareExchange(w)
  <2>1. /\ pc[w] = "cas"
        /\ UNCHANGED available \/ \E n : available' = [available EXCEPT ![DebitKey(w)] = n]
    BY <1>4 DEF CompareExchange
  <2>2. DebitKey(w)[1] = tx[w].source
    BY DEF DebitKey
  <2> QED BY <1>1, <1>2, <2>1, <2>2
<1>5. CASE CommitCredit(w)
  <2>1. pc[w] = "commit" /\ \E l \in todo[w] : \E n : available' = [available EXCEPT ![l] = n]
    BY <1>5 DEF CommitCredit
  <2> QED BY <1>1, <2>1
<1>6. CASE ReturnDebit(w)
  <2>1. PICK l \in todo[w] : available' = [available EXCEPT ![l] = @ - available_side_effects[w][l]]
    BY <1>6 DEF ReturnDebit
  <2>2. CASE k = l
    <3>1. available_side_effects[w][k] = 0
      <4>1. pc[w] = "return"
        BY <1>6 DEF ReturnDebit
      <4> QED BY <1>2, <4>1 DEF Views, ViewOK
    <3> QED BY <1>1, <2>1, <2>2, <3>1
  <2>3. CASE k # l
    BY <1>1, <2>1, <2>3
  <2> QED BY <2>2, <2>3
<1>7. CASE ~ CompareExchange(w) /\ ~ CommitCredit(w) /\ ~ ReturnDebit(w)
  <2> USE DEF OutsideOp, OutsideCommit, OutsideUnwind
  <2>1. CASE BufferlessStep(w)
    BY <1>7, <2>1 DEF BufferlessStep, process_create_account, process_create_sell_offer, process_payment,
          LoadBalance, BeginCreation, commit_account_creation, unwind_operation, BeginReturn, BeginRelease,
          release_account_creation
  <2>2. CASE \/ process_cancel_sell_offer(w) \/ process_money_printer(w) \/ DebitFromBuffer(w) \/ BeginCommit(w)
    BY <2>2 DEF process_cancel_sell_offer, process_money_printer, DebitFromBuffer, BeginCommit
  <2>3. CASE \/ FinishTransaction(w) \/ AbortTransaction(w) \/ \E t \in Txs : process_transaction_begin(w, t)
    BY <2>3 DEF FinishTransaction, AbortTransaction, process_transaction_begin
  <2> QED BY <1>7, <2>1, <2>2, <2>3 DEF Step, BufferlessStep
<1> QED BY <1>4, <1>5, <1>6, <1>7

(* What a step does to the transactions that commit, other than to begin a *)
(* commit or to hand an account to the database.                           *)
LEMMA Step_Committing ==
  ASSUME Inv, NEW w \in Workers, Step(w), ~ BeginCommit(w), ~ commit_account_creation(w)
  PROVE  /\ UNCHANGED uncommitted_db
         /\ pc'[w] = "commit" => pc[w] = "commit" /\ todo'[w] \subseteq todo[w]
         /\ w \in Committing' => /\ w \in Committing /\ available_buffer'[w] = available_buffer[w]
                                 /\ Pending(w)' = Pending(w)
         /\ w \in Committing \ Committing' => Pending(w) = {}
<1> USE DEF Inv, TypeOK, ThreadTypeOK, SetPc, OutsideOp, OutsideCommit, OutsideUnwind, viewVars, OpReady,
            Fail, NextOp, Return, Committing
<1>1. CASE CommitCredit(w)
  <2>1. /\ UNCHANGED <<uncommitted_db, available_buffer, new_accounts, pc>> /\ pc[w] = "commit"
        /\ todo'[w] \subseteq todo[w]
    BY <1>1 DEF CommitCredit
  <2>2. Pending(w)' = Pending(w)
    BY <2>1 DEF Pending
  <2> QED BY <2>1, <2>2
<1>2. CASE BeginCreation(w)
  <2>1. /\ UNCHANGED <<uncommitted_db, available_buffer, new_accounts>> /\ pc[w] = "commit" /\ pc'[w] = "create"
        /\ todo'[w] = DOMAIN new_accounts[w]
    BY <1>2 DEF BeginCreation
  <2>2. Pending(w)' = Pending(w)
    BY <2>1 DEF Pending
  <2> QED BY <2>1, <2>2
<1>3. CASE FinishTransaction(w)
  <2>1. UNCHANGED uncommitted_db /\ pc[w] = "create" /\ todo[w] = {} /\ pc'[w] = "idle"
    BY <1>3 DEF FinishTransaction
  <2> QED BY <2>1 DEF Pending
<1>4. CASE ~ CommitCredit(w) /\ ~ BeginCreation(w) /\ ~ FinishTransaction(w)
  <2>1. UNCHANGED uncommitted_db /\ pc'[w] \notin {"commit", "create"} /\ pc[w] \notin {"commit", "create"}
    <3>1. CASE \E t \in Txs : process_transaction_begin(w, t)
      BY <3>1 DEF process_transaction_begin
    <3>2. CASE process_create_account(w)
      BY <3>2 DEF process_create_account
    <3>3. CASE process_create_sell_offer(w)
      BY <3>3 DEF process_create_sell_offer
    <3>4. CASE process_cancel_sell_offer(w)
      BY <3>4 DEF process_cancel_sell_offer
    <3>5. CASE process_payment(w)
      BY <3>5 DEF process_payment
    <3>6. CASE process_money_printer(w)
      BY <3>6 DEF process_money_printer
    <3>7. CASE DebitFromBuffer(w)
      BY <3>7 DEF DebitFromBuffer
    <3>8. CASE LoadBalance(w)
      BY <3>8 DEF LoadBalance
    <3>9. CASE CompareExchange(w)
      BY <3>9 DEF CompareExchange
    <3>10. CASE unwind_operation(w)
      BY <3>10 DEF unwind_operation
    <3>11. CASE BeginReturn(w)
      BY <3>11 DEF BeginReturn
    <3>12. CASE ReturnDebit(w)
      BY <3>12 DEF ReturnDebit
    <3>13. CASE BeginRelease(w)
      BY <3>13 DEF BeginRelease
    <3>14. CASE release_account_creation(w)
      BY <3>14 DEF release_account_creation
    <3>15. CASE AbortTransaction(w)
      BY <3>15 DEF AbortTransaction
    <3> QED BY <1>4, <3>1, <3>2, <3>3, <3>4, <3>5, <3>6, <3>7, <3>8, <3>9, <3>10, <3>11, <3>12, <3>13, <3>14, <3>15 DEF Step
  <2> QED BY <2>1
<1> QED BY <1>1, <1>2, <1>3, <1>4

(* Whatever step is taken, commits write balances of accounts that exist.  *)
LEMMA Step_CommitsKnown ==
  ASSUME Inv, CommitsKnown, NEW w \in Workers, Step(w)
  PROVE  CommitsKnown'
<1>1. OtherThreads(w) /\ UNCHANGED user_ids
  BY StepIsLocal
<1>2. \A l \in todo'[w] : pc'[w] = "commit" => l[1] \in user_ids
  <2>1. CASE BeginCommit(w)
    <3>1. todo'[w] = {l \in Keys : l[1] \in user_ids /\ available_buffer[w][l] # 0}
      BY <2>1 DEF BeginCommit, Inv, TypeOK, ThreadTypeOK
    <3> QED BY <3>1
  <2>2. CASE commit_account_creation(w)
    BY <2>2 DEF commit_account_creation
  <2>3. CASE ~ BeginCommit(w) /\ ~ commit_account_creation(w)
    BY <2>3, Step_Committing DEF CommitsKnown
  <2> QED BY <2>1, <2>2, <2>3
<1> QED BY <1>1, <1>2 DEF CommitsKnown, OtherThreads

(* The account at the head of the loop gets an entry with what its creator *)
(* paid into it; nobody else has an entry for it or will make one.         *)
LEMMA EntryMade ==
  ASSUME Inv, CreationInv, NEW w \in Workers, commit_account_creation(w)
  PROVE  \E a \in Pending(w), last \in DOMAIN uncommitted_db' :
           /\ DOMAIN uncommitted_db' = DOMAIN uncommitted_db \union {last}
           /\ uncommitted_db'[last].owner = a
           /\ \A x \in Assets : uncommitted_db'[last].balance[x] = available_buffer[w][<<a, x>>]
           /\ \A m \in DOMAIN uncommitted_db : uncommitted_db'[m] = uncommitted_db[m]
           /\ Owners' = Owners \union {a} /\ Pending(w) = Pending(w)' \union {a}
           /\ a \notin misreleased => a \notin Owners /\ a \notin Pending(w)'
<1> USE DEF Inv, TypeOK, ThreadTypeOK, DbTypeOK
<1> DEFINE Entry == [owner : AccountIDs, balance : [Assets -> Int]]
<1>1. PICK n \in todo[w] :
        /\ uncommitted_db' = Append(uncommitted_db,
             [owner   |-> new_accounts[w][n],
              balance |-> [x \in Assets |-> available_buffer[w][<<new_accounts[w][n], x>>]]])
        /\ todo' = [todo EXCEPT ![w] = @ \ {n}]
  BY DEF commit_account_creation
<1>2. pc[w] = "create" /\ todo'[w] = todo[w] \ {n} /\ UNCHANGED <<pc, new_accounts>> /\ Creating(w)
  BY <1>1 DEF commit_account_creation, OutsideCommit, dbVars, viewVars, Creating
<1>3. CreatorOK(w)
  BY DEF CreationInv
<1>4. todo[w] \subseteq DOMAIN new_accounts[w]
  BY <1>2 DEF ViewsConsistent, ThreadConsistent
<1> DEFINE a == new_accounts[w][n]
           e == [owner |-> a, balance |-> [x \in Assets |-> available_buffer[w][<<a, x>>]]]
           last == Len(uncommitted_db) + 1
<1>5. a \in AccountIDs
  BY <1>4
<1>6. e \in Entry /\ e.owner = a /\ \A x \in Assets : e.balance[x] = available_buffer[w][<<a, x>>]
  <2>1. \A x \in Assets : available_buffer[w][<<a, x>>] \in Int
    BY <1>5 DEF Keys
  <2> QED BY <1>5, <2>1
<1>7. /\ DOMAIN uncommitted_db' = DOMAIN uncommitted_db \union {last}
      /\ uncommitted_db'[last] = e
      /\ \A m \in DOMAIN uncommitted_db : uncommitted_db'[m] = uncommitted_db[m]
  <2>1. uncommitted_db \in Seq(Entry) /\ uncommitted_db' = Append(uncommitted_db, e)
    BY <1>1
  <2> HIDE DEF Entry, e
  <2> QED BY <1>6, <2>1, Appended
<1>8. a \in Pending(w) /\ (a \notin misreleased => a \notin Owners)
  BY <1>2, <1>3, <1>4 DEF Pending, NewAccountIDs, CreatorOK
<1>9. Pending(w)' = {new_accounts[w][m] : m \in todo[w] \ {n}} /\ Pending(w) = {new_accounts[w][m] : m \in todo[w]}
  BY <1>2 DEF Pending
<1>10. Pending(w) = Pending(w)' \union {a} /\ (a \notin misreleased => a \notin Pending(w)')
  BY <1>2, <1>3, <1>4, <1>9 DEF CreatorOK
<1> HIDE DEF e, last, a
<1>11. Owners' = Owners \union {a}
  BY <1>6, <1>7 DEF Owners
<1>12. last \in DOMAIN uncommitted_db' /\ a \in Pending(w) /\ uncommitted_db'[last].owner = a
       /\ \A x \in Assets : uncommitted_db'[last].balance[x] = available_buffer[w][<<a, x>>]
  BY <1>6, <1>7, <1>8
<1>13. a \notin misreleased => a \notin Owners /\ a \notin Pending(w)'
  BY <1>8, <1>10
<1> QED
  <2> WITNESS a \in Pending(w), last \in DOMAIN uncommitted_db'
  <2> QED BY <1>7, <1>10, <1>11, <1>12, <1>13

(* A transaction that begins its commit becomes the one that owes a new    *)
(* account its balance.                                                    *)
LEMMA BeginCommit_NewBalance ==
  ASSUME Inv, SlotsInv, Views, CreationInv, IsFiniteSet(confirmed), NEW w \in Workers, ViewInv(w), Progress(w),
         BeginCommit(w), NEW k \in Keys, k[1] \notin user_ids, NewBalance(k)
  PROVE  NewBalance(k)'
<1>1. /\ pc[w] = "op" /\ pc'[w] = "commit" /\ OtherThreads(w)
      /\ UNCHANGED <<available, committed_available, misreleased, uncommitted_db, available_buffer, new_accounts>>
  BY StepIsLocal DEF Step, BeginCommit, OutsideCommit, dbVars, viewVars, SetPc, Inv, TypeOK, ThreadTypeOK
<1>2. available_side_effects[w][k] = 0
  <2>1. tx[w].source \in user_ids
    BY <1>1 DEF SlotsInv, SlotsHeld, HoldsSlot, Busy
  <2> QED BY <2>1 DEF Views, ViewOK
<1>3. available_buffer[w][k] \in Nat
  BY ViewTypes
<1> DEFINE m == Net(OpsOf(Going), k)
           n == Net(OpsOf(Going), k)'
<1>4. m \in Int /\ n = m + available_buffer[w][k]
  <2>1. m \in Int /\ n = m + available_buffer[w][k] + available_side_effects[w][k]
    BY CommitAdds
  <2> HIDE DEF m, n
  <2> QED BY <1>2, <1>3, <2>1
<1>5. /\ Committing' = Committing \union {w} /\ w \notin Committing
      /\ \A v \in Committing : Pending(v)' = Pending(v)
      /\ Pending(w)' = NewAccountIDs(w) /\ Pending(w) = NewAccountIDs(w) /\ Owners' = Owners
  BY <1>1 DEF Committing, Pending, NewAccountIDs, Owners, OtherThreads
<1>0. CASE k[1] \in misreleased
  BY <1>0, <1>1 DEF NewBalance
<1>6. CASE k[1] \in NewAccountIDs(w) /\ k[1] \notin misreleased
  <2>0. Creating(w) /\ \A v \in Committing : Creating(v)
    BY <1>1 DEF Creating, Committing
  <2>1. k[1] \notin Owners
    BY <1>5, <1>6, <2>0 DEF CreationInv, CreatorOK
  <2>2. \A v \in Committing : k[1] \notin Pending(v)
    <3>1. \A v \in Committing : v \in Workers /\ v # w
      BY <1>5 DEF Committing
    <3>2. \A v \in Committing : /\ Pending(v) \subseteq NewAccountIDs(v)
                               /\ NewAccountIDs(v) \intersect NewAccountIDs(w) \subseteq misreleased
      BY <2>0, <3>1, PendingFacts DEF CreationInv
    <3> QED BY <1>6, <3>2
  <2>3. m = 0
    BY <1>6, <2>1, <2>2 DEF NewBalance
  <2>4. n = available_buffer[w][k]
    <3> HIDE DEF m, n
    <3> QED BY <1>3, <1>4, <2>3
  <2>5. \A i \in DOMAIN uncommitted_db : uncommitted_db[i].owner # k[1]
    BY <2>1 DEF Owners
  <2> HIDE DEF m
  <2> QED BY <1>1, <1>5, <1>6, <2>2, <2>4, <2>5 DEF NewBalance, n
<1>7. CASE k[1] \notin NewAccountIDs(w)
  <2>1. available_buffer[w][k] = 0
    BY <1>7 DEF ViewInv
  <2>2. n = m
    <3> HIDE DEF m, n
    <3> QED BY <1>4, <2>1
  <2> QED BY <1>1, <1>5, <1>7, <2>2 DEF NewBalance, n, m
<1> QED BY <1>0, <1>6, <1>7

(* The entry made for a new account has the balance that its creator owes  *)
(* it.                                                                     *)
LEMMA commit_account_creation_NewBalance ==
  ASSUME Inv, CreationInv, NEW w \in Workers, commit_account_creation(w), NEW k \in Keys, NewBalance(k)
  PROVE  NewBalance(k)'
<1>1. PICK a \in Pending(w), last \in DOMAIN uncommitted_db' :
        /\ DOMAIN uncommitted_db' = DOMAIN uncommitted_db \union {last}
        /\ uncommitted_db'[last].owner = a
        /\ \A x \in Assets : uncommitted_db'[last].balance[x] = available_buffer[w][<<a, x>>]
        /\ \A m \in DOMAIN uncommitted_db : uncommitted_db'[m] = uncommitted_db[m]
        /\ Owners' = Owners \union {a} /\ Pending(w) = Pending(w)' \union {a}
        /\ a \notin misreleased => a \notin Owners /\ a \notin Pending(w)'
  BY EntryMade
<1>2. /\ pc[w] = "create" /\ OtherThreads(w)
      /\ UNCHANGED <<available, committed_available, misreleased, available_buffer, pc, committed_offers>>
  BY StepIsLocal DEF Step, commit_account_creation, OutsideCommit, dbVars, bookVars, viewVars
<1>3. Net(OpsOf(Going), k)' = Net(OpsOf(Going), k)
  <2>1. Going' = Going
    BY <1>2, Step_Going DEF Step, BeginCommit
  <2>2. OpsOf(Going)' = OpsOf(Going)
    BY <2>1 DEF OpsOf
  <2> QED BY <1>2, <2>2, NetNext
<1>4. Committing' = Committing /\ w \in Committing /\ \A v \in Committing : v # w => Pending(v)' = Pending(v)
  BY <1>2 DEF Committing, Pending, OtherThreads
<1>0. CASE k[1] \in misreleased
  BY <1>0, <1>2 DEF NewBalance
<1>5. CASE k[1] = a /\ a \notin misreleased
  <2>1. \A v \in Committing : a \notin Pending(v)'
    <3>1. \A v \in Committing : v # w => /\ Pending(v) \subseteq NewAccountIDs(v)
                                         /\ NewAccountIDs(v) \intersect NewAccountIDs(w) \subseteq misreleased
      BY <1>4, PendingFacts DEF CreationInv, Committing, Creating
    <3>2. a \in NewAccountIDs(w)
      BY PendingFacts
    <3> QED BY <1>1, <1>4, <1>5, <3>1, <3>2
  <2>2. \A i \in DOMAIN uncommitted_db : uncommitted_db[i].owner # a
    BY <1>1, <1>5 DEF Owners
  <2>3. k = <<a, k[2]>> /\ k[2] \in Assets
    BY <1>5 DEF Keys
  <2>4. uncommitted_db'[last].balance[k[2]] = Net(OpsOf(Going), k)
    BY <1>1, <1>4, <1>5, <2>3 DEF NewBalance
  <2>5. \A i \in DOMAIN uncommitted_db' : uncommitted_db'[i].owner = k[1] => i = last
    BY <1>1, <1>5, <2>2
  <2> QED BY <1>1, <1>2, <1>3, <1>4, <1>5, <2>1, <2>4, <2>5 DEF NewBalance
<1>6. CASE k[1] # a
  BY <1>1, <1>2, <1>3, <1>4, <1>6 DEF NewBalance
<1> QED BY <1>0, <1>5, <1>6

(* Every step keeps account of the balances of new accounts.               *)
LEMMA Step_NewBalance ==
  ASSUME Inv, SlotsInv, Views, CreationInv, CommitsKnown, IsFiniteSet(confirmed), NEW w \in Workers, ViewInv(w),
         Progress(w), UNCHANGED committed_offers, Step(w), NEW k \in Keys, k[1] \notin user_ids, NewBalance(k)
  PROVE  NewBalance(k)'
<1>1. CASE BeginCommit(w)
  BY <1>1, BeginCommit_NewBalance
<1>2. CASE commit_account_creation(w)
  BY <1>2, commit_account_creation_NewBalance
<1>3. CASE ~ BeginCommit(w) /\ ~ commit_account_creation(w)
  <2>1. OtherThreads(w) /\ UNCHANGED committed_available /\ misreleased \subseteq misreleased'
    BY StepIsLocal
  <2>2. available'[k] = available[k]
    BY NewBalancesUntouched DEF CommitsKnown
  <2>3. Going' = Going
    BY <1>3, Step_Going
  <2>4. /\ UNCHANGED uncommitted_db
        /\ w \in Committing' => /\ w \in Committing /\ available_buffer'[w] = available_buffer[w]
                                /\ Pending(w)' = Pending(w)
        /\ w \in Committing \ Committing' => Pending(w) = {}
    BY <1>3, Step_Committing
  <2>5. \A v \in Workers \ {w} : /\ v \in Committing' <=> v \in Committing
                                 /\ available_buffer'[v] = available_buffer[v] /\ Pending(v)' = Pending(v)
    BY <2>1 DEF OtherThreads, Committing, Pending
  <2>6. Committing \subseteq Workers /\ Committing' \subseteq Workers
    BY DEF Committing
  <2>7. \A v \in Committing' : /\ v \in Committing /\ available_buffer'[v] = available_buffer[v]
                               /\ Pending(v)' = Pending(v)
    BY <2>4, <2>5, <2>6
  <2>8. \A v \in Committing \ Committing' : Pending(v) = {}
    BY <2>4, <2>5, <2>6
  <2> QED BY <2>1, <2>2, <2>3, <2>4, <2>7, <2>8, NewBalanceKept
<1> QED BY <1>1, <1>2, <1>3

(* A step of a thread leaves the views of the others as they are.          *)
LEMMA OtherViewsKept ==
  ASSUME NEW w \in Workers, OtherThreads(w), UNCHANGED <<committed_offers, user_ids>>,
         NEW v \in Workers \ {w}, ViewInv(v)
  PROVE  ViewInv(v)'
<1>1. /\ pc'[v] = pc[v] /\ tx'[v] = tx[v] /\ op_idx'[v] = op_idx[v]
      /\ available_buffer'[v] = available_buffer[v] /\ available_side_effects'[v] = available_side_effects[v]
      /\ new_accounts'[v] = new_accounts[v]
  BY DEF OtherThreads
<1>2. NewAccountIDs(v)' = NewAccountIDs(v) /\ (Succeeding(v)' => Succeeding(v))
  BY <1>1 DEF NewAccountIDs, Succeeding
<1>3. pc'[v] \in {"debit", "cas"} =>
         /\ Op(v).type \in {"CREATE_ACCOUNT", "PAYMENT", "CREATE_SELL_OFFER"}
         /\ Op(v).type # "CREATE_SELL_OFFER" => Op(v).account \in user_ids \union NewAccountIDs(v)'
  BY <1>1, <1>2 DEF ViewInv
<1> QED BY <1>1, <1>2, <1>3, ViewInvKept

(* The block grows by one transaction at a time.                           *)
LEMMA Step_Confirmed ==
  ASSUME Inv, IsFiniteSet(confirmed), NEW w \in Workers, Progress(w), Step(w)
  PROVE  IsFiniteSet(confirmed)' /\ UNCHANGED committed_offers
<1>1. CASE FinishTransaction(w)
  <2>1. confirmed' = confirmed \union {tx[w]} /\ UNCHANGED committed_offers
    BY <1>1 DEF FinishTransaction, bookVars
  <2> QED BY <2>1, FS_AddElement
<1>2. CASE ~ FinishTransaction(w)
  BY <1>2, EveryStep_Books
<1> QED BY <1>1, <1>2

(* Every step of a thread preserves the account of the balances.           *)
LEMMA Step_EffectsInv ==
  ASSUME Inv, SlotsInv, Views, CreationInv, BooksInv, EffectsInv, NEW w \in Workers, Step(w)
  PROVE  EffectsInv'
<1>1. OtherThreads(w) /\ UNCHANGED user_ids
  BY StepIsLocal
<1>2. Progress(w) /\ OffersKnown /\ ViewInv(w)
  BY DEF BooksInv, EffectsInv
<1>3. IsFiniteSet(confirmed)' /\ UNCHANGED committed_offers
  BY <1>2, Step_Confirmed DEF EffectsInv
<1>4. ViewInv(w)'
  BY <1>2, Step_ViewInv
<1>5. \A v \in Workers \ {w} : ViewInv(v)'
  BY <1>1, <1>3, OtherViewsKept DEF EffectsInv
<1>6. BalancesInv'
  BY <1>2, <1>3, Step_Balances DEF EffectsInv
<1>7. \A k \in Keys : k[1] \notin user_ids' => NewBalance(k)'
  BY <1>1, <1>2, <1>3, Step_NewBalance DEF EffectsInv
<1>8. CommitsKnown'
  BY Step_CommitsKnown DEF EffectsInv
<1> QED BY <1>3, <1>4, <1>5, <1>6, <1>7, <1>8 DEF EffectsInv

(* Between blocks no thread holds anything, and no transaction is in the   *)
(* block.                                                                  *)
LEMMA NothingGoing ==
  ASSUME Quiescent, confirmed = {}, NEW k \in Keys
  PROVE  Net(OpsOf(Going), k) = 0 /\ Cardinality(Cells(Workers, held(k))) = 0
<1>1. Going = {}
  BY DEF Going, Committing, Quiescent
<1>2. OpsOf(Going) = {}
  BY <1>1 DEF OpsOf
<1>3. \A w \in Workers : held(k)[w] = 0
  BY DEF held, Held, Quiescent
<1> QED BY <1>2, <1>3, NetEmpty, NoCells

(* Between blocks the balances are the committed ones, and no account that *)
(* does not exist has money.                                               *)
BlockStart ==
  /\ Quiescent /\ confirmed = {} /\ uncommitted_db = << >>
  /\ \A w \in Workers, k \in Keys : available_buffer[w][k] = 0
  /\ \A k \in Keys : available[k] = committed_available[k]
  /\ \A k \in Keys : k[1] \notin user_ids => available[k] = 0

(* Then they are accounted for.                                            *)
LEMMA BetweenBlocks == Inv /\ BlockStart => EffectsInv
<1> SUFFICES ASSUME Inv, BlockStart PROVE EffectsInv
  OBVIOUS
<1> USE DEF BlockStart
<1>1. \A w \in Workers : ViewInv(w)
  BY DEF ViewInv, Succeeding, Quiescent
<1>2. BalancesInv
  <2> SUFFICES ASSUME NEW k \in Keys
               PROVE  available[k] + Cardinality(Cells(Workers, held(k)))
                        = committed_available[k] + Net(OpsOf(Going), k)
    BY DEF BalancesInv
  <2>1. committed_available[k] \in Int
    BY DEF Inv, TypeOK, DbTypeOK
  <2> QED BY <2>1, NothingGoing
<1>3. \A k \in Keys : k[1] \notin user_ids => NewBalance(k)
  <2>1. Committing = {} /\ DOMAIN uncommitted_db = {}
    BY DEF Committing, Quiescent
  <2> QED BY <2>1, NothingGoing DEF NewBalance
<1>4. CommitsKnown
  BY DEF CommitsKnown, Quiescent
<1>5. IsFiniteSet(confirmed)
  BY FS_EmptySet
<1> QED BY <1>1, <1>2, <1>3, <1>4, <1>5 DEF EffectsInv

(* The commit of a block starts the account afresh: what it does not       *)
(* commit has not changed.                                                 *)
LEMMA Commit_EffectsInv ==
  ASSUME Inv, SlotsInv, Views, Untouched, EffectsInv, CommitBlock
  PROVE  EffectsInv'
<1> DEFINE created == {uncommitted_db[n].owner : n \in FirstEntries}
           dirty == account_log \intersect (user_ids \union created)
<1>1. /\ Quiescent /\ Quiescent' /\ confirmed' = {} /\ uncommitted_db' = << >>
      /\ UNCHANGED available_buffer
      /\ user_ids' = user_ids \union created /\ available' = commit_new_accounts
      /\ \A k \in Keys : committed_available'[k] =
           IF k[1] \in dirty \union created THEN commit_new_accounts[k] ELSE committed_available[k]
  BY DEF CommitBlock, Quiescent, viewVars
<1>2. \A w \in Workers, k \in Keys : available_buffer'[w][k] = 0
  BY <1>1 DEF Views, ViewOK, Quiescent
<1>3. ASSUME NEW k \in Keys, k[1] \notin user_ids \union created
      PROVE  available'[k] = 0 /\ available[k] = 0 /\ committed_available[k] = 0
  <2>1. available[k] = 0 /\ committed_available[k] = 0
    BY <1>3 DEF EffectsInv, NewBalance
  <2>2. commit_new_accounts[k] = available[k]
    BY <1>3 DEF commit_new_accounts
  <2> QED BY <1>1, <2>1, <2>2
<1>4. ASSUME NEW k \in Keys PROVE available'[k] = committed_available'[k]
  <2>1. CASE k[1] \in dirty \union created
    BY <1>1, <2>1
  <2>2. CASE k[1] \notin user_ids \union created
    BY <1>1, <1>3, <2>2
  <2>3. CASE k[1] \in user_ids \ (dirty \union created)
    <3>1. k[1] \in user_ids \ account_log /\ Touched = account_log /\ ~ threw
      BY <1>1, <2>3 DEF Touched, threw, Quiescent
    <3>2. Cardinality(Cells(Workers, owed(k))) = 0
      <4>1. \A w \in Workers : owed(k)[w] = 0
        BY <1>1 DEF owed, Owed, Quiescent
      <4> QED BY <4>1, NoCells
    <3>3. available[k] = committed_available[k]
      <4>1. committed_available[k] \in Int
        BY DEF Inv, TypeOK, DbTypeOK
      <4>2. available[k] = committed_available[k] - 0
        BY <3>1, <3>2 DEF Untouched
      <4> QED BY <4>1, <4>2
    <3>4. commit_new_accounts[k] = available[k]
      BY <2>3 DEF commit_new_accounts
    <3> QED BY <1>1, <2>3, <3>3, <3>4
  <2> QED BY <2>1, <2>2, <2>3
<1>5. \A k \in Keys : k[1] \notin user_ids' => available'[k] = 0
  BY <1>1, <1>3
<1>6. Inv'
  BY InvInductive DEF Next
<1>7. BlockStart'
  BY <1>1, <1>2, <1>4, <1>5 DEF BlockStart
<1> QED BY <1>6, <1>7, BetweenBlocks, PTL

(* When the threads have returned, the account of the balances says what   *)
(* the block has done to them.                                             *)
LEMMA EffectsAtEnd ==
  ASSUME Inv, CreationInv, OffersKnown, EffectsInv
  PROVE  ConfirmedEffectsOnly
<1> SUFFICES ASSUME Quiescent, NEW k \in Keys, k[1] \notin misreleased
             PROVE  commit_new_accounts[k] = committed_available[k]
                      + MapThenSumSet(LAMBDA p : Effect(p[1], p[2], k), OpsOf(confirmed))
  BY DEF ConfirmedEffectsOnly
<1>1. Committing = {} /\ Going = confirmed /\ ~ threw
  BY DEF Committing, Going, Quiescent, threw
<1> DEFINE S == OpsOf(confirmed)
<1>2. OpsOf(Going) = S /\ S \in SUBSET AllOps /\ IsFiniteSet(S)
  BY <1>1, GoingFacts DEF EffectsInv
<1>3. MapThenSumSet(LAMBDA p : Effect(p[1], p[2], k), OpsOf(confirmed)) = Net(S, k)
  <2> HIDE DEF S
  <2>1. MapThenSumSet(LAMBDA p : Effect(p[1], p[2], k), S) = Net(S, k)
    BY <1>2, SumIsNet
  <2> QED BY <2>1 DEF S
<1> SUFFICES commit_new_accounts[k] = committed_available[k] + Net(S, k)
  BY <1>3
<1>4. Net(S, k) \in Int
  <2>1. {} \in SUBSET AllOps /\ IsFiniteSet({}) /\ S \intersect {} = {}
    BY FS_EmptySet
  <2> HIDE DEF S
  <2> QED BY <1>2, <2>1, NetUnion
<1>5. CASE k[1] \in user_ids
  <2>1. commit_new_accounts[k] = available[k]
    <3>1. \A n \in FirstEntries : uncommitted_db[n].owner # k[1]
      BY <1>5 DEF FirstEntries, CreationInv, Owners
    <3> QED BY <3>1 DEF commit_new_accounts
  <2>2. Cardinality(Cells(Workers, held(k))) = 0
    <3>1. \A w \in Workers : held(k)[w] = 0
      BY DEF held, Held, Quiescent
    <3> QED BY <3>1, NoCells
  <2>3. available[k] + 0 = committed_available[k] + Net(S, k)
    BY <1>1, <1>2, <1>5, <2>2 DEF EffectsInv, BalancesInv
  <2>4. available[k] \in Int
    BY DEF Inv, TypeOK, DbTypeOK
  <2> QED BY <2>1, <2>3, <2>4
<1>6. CASE k[1] \notin user_ids
  <2>1. NewBalance(k)
    BY <1>6 DEF EffectsInv
  <2>2. CASE \E n \in FirstEntries : uncommitted_db[n].owner = k[1]
    <3> DEFINE n == CHOOSE m \in FirstEntries : uncommitted_db[m].owner = k[1]
    <3>1. n \in FirstEntries /\ uncommitted_db[n].owner = k[1]
      BY <2>2
    <3>2. commit_new_accounts[k] = uncommitted_db[n].balance[k[2]]
      BY <2>2 DEF commit_new_accounts
    <3>3. n \in DOMAIN uncommitted_db
      BY <3>1 DEF FirstEntries
    <3> HIDE DEF n
    <3>4. commit_new_accounts[k] = Net(OpsOf(Going), k) /\ committed_available[k] = 0
      BY <2>1, <3>1, <3>2, <3>3 DEF NewBalance
    <3> QED BY <1>2, <1>4, <3>4
  <2>3. CASE ~ \E n \in FirstEntries : uncommitted_db[n].owner = k[1]
    <3>1. \A n \in DOMAIN uncommitted_db : uncommitted_db[n].owner = k[1] => n \in FirstEntries
      <4>1. \A n \in DOMAIN uncommitted_db : n \in Nat /\ \A j \in 1 .. n - 1 : j \in DOMAIN uncommitted_db /\ j # n
        BY DEF Inv, TypeOK, DbTypeOK
      <4> QED BY <4>1 DEF FirstEntries, CreationInv
    <3>2. k[1] \notin Owners
      BY <2>3, <3>1 DEF Owners
    <3>3. Net(OpsOf(Going), k) = 0 /\ available[k] = 0 /\ committed_available[k] = 0
      BY <1>1, <2>1, <3>2 DEF NewBalance
    <3>4. commit_new_accounts[k] = available[k]
      BY <2>3 DEF commit_new_accounts
    <3> QED BY <1>2, <3>3, <3>4
  <2> QED BY <2>2, <2>3
<1> QED BY <1>5, <1>6

(* When the threads have returned, every balance is its committed value    *)
(* plus the effects of exactly the transactions of the block: a            *)
(* transaction that failed has left no trace, and no money it moved        *)
(* meanwhile is lost or doubled, whatever the threads did concurrently.    *)
(* The hypothesis is the one under which an offer is cancelled once;       *)
(* accounts that may have been created twice (misreleased) are excepted.   *)
THEOREM ConfirmedEffectsOnlyHolds ==
  Spec /\ []NumbersInReach => []ConfirmedEffectsOnly
<1>1. Init => EffectsInv
  <2> SUFFICES ASSUME Init PROVE EffectsInv
    OBVIOUS
  <2>1. BlockStart
    BY DEF Init, BlockStart, Quiescent, Zero
  <2> QED BY <2>1, Initially, BetweenBlocks
<1> DEFINE Known == Inv /\ SlotsInv /\ Views /\ Untouched /\ CreationInv /\ BooksInv
<1>2. Known /\ EffectsInv /\ [Next]_vars => EffectsInv'
  <2> SUFFICES ASSUME Known, EffectsInv, [Next]_vars PROVE EffectsInv'
    OBVIOUS
  <2>1. ASSUME NEW w \in Workers, Step(w) PROVE EffectsInv'
    BY <2>1, Step_EffectsInv
  <2>2. CASE CommitBlock
    BY <2>2, Commit_EffectsInv
  <2>3. CASE UNCHANGED vars
    <3>1. UNCHANGED <<confirmed, pc, tx, op_idx, available_buffer, available_side_effects, new_accounts, todo,
                      user_ids, misreleased, available, committed_available, uncommitted_db, committed_offers>>
      BY <2>3 DEF vars, dbVars, bookVars, blockVars, viewVars
    <3>2. /\ \A w \in Workers : /\ NewAccountIDs(w)' = NewAccountIDs(w) /\ Pending(w)' = Pending(w)
                                 /\ DoneOps(w)' = DoneOps(w) /\ Op(w)' = Op(w)
                                 /\ Succeeding(w)' = Succeeding(w)
          /\ Committing' = Committing /\ Going' = Going /\ OpsOf(Going)' = OpsOf(Going) /\ Owners' = Owners
          /\ threw' = threw
      BY <3>1 DEF NewAccountIDs, Pending, DoneOps, Op, Succeeding, Committing, Going, OpsOf, Owners, threw
    <3>3. \A k \in Keys : /\ Net(OpsOf(Going), k)' = Net(OpsOf(Going), k)
                          /\ \A w \in Workers : Net(DoneOps(w), k)' = Net(DoneOps(w), k)
      BY <3>1, <3>2, NetNext
    <3>4. \A k \in Keys : Cardinality(Cells(Workers, held(k)))' = Cardinality(Cells(Workers, held(k)))
      BY <3>1 DEF Cells, held, Held
    <3>5. \A w \in Workers : ViewInv(w)'
      BY <3>1, <3>2, <3>3 DEF EffectsInv, ViewInv
    <3>6. BalancesInv'
      BY <3>1, <3>2, <3>3, <3>4 DEF EffectsInv, BalancesInv
    <3>7. \A k \in Keys : k[1] \notin user_ids' => NewBalance(k)'
      <4>1. Committing \subseteq Workers
        BY DEF Committing
      <4>2. \A w \in Committing' : /\ w \in Committing /\ available_buffer'[w] = available_buffer[w]
                                   /\ Pending(w)' = Pending(w)
        BY <3>1, <3>2, <4>1
      <4> QED BY <3>1, <3>2, <4>2, NewBalanceKept DEF EffectsInv
    <3>8. CommitsKnown'
      BY <3>1 DEF EffectsInv, CommitsKnown
    <3> QED BY <3>1, <3>5, <3>6, <3>7, <3>8 DEF EffectsInv
  <2> QED BY <2>1, <2>2, <2>3 DEF Next, Done
<1>3. Known /\ EffectsInv => ConfirmedEffectsOnly
  BY EffectsAtEnd DEF BooksInv
<1> QED BY <1>1, <1>2, <1>3, Initially, InvInductive, SlotsInvHolds, UntouchedHolds, CreationInvHolds, BooksInvHolds,
           PTL DEF Spec
==============================================================================
