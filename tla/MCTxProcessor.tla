---------------------------- MODULE MCTxProcessor ----------------------------
EXTENDS TxProcessor, TLC

CONSTANTS w1, w2

MCWorkers == {w1, w2}
MCSymmetry == Permutations(MCWorkers)
MCAssets == {"USD"}
MCBalance == (0 :> [x \in MCAssets |-> 3]) @@ (1 :> [x \in MCAssets |-> 2])

Op0(type, account, amount) ==
  [type |-> type, account |-> account, asset |-> "USD", amount |-> amount,
   valid |-> TRUE, offer |-> <<0, 0>>]
Pay(to, amount) == Op0("PAYMENT", to, amount)
Create(id, amount) == Op0("CREATE_ACCOUNT", id, amount)
Sell(amount) == Op0("CREATE_SELL_OFFER", 0, amount)
Cancel(offer) == [Op0("CANCEL_SELL_OFFER", 0, 0) EXCEPT !.offer = offer]
PrintMoney(amount) == Op0("MONEY_PRINTER", 0, amount)

T(id, source, seq, ops) ==
  [id |-> id, source |-> source, seq |-> seq, wellformed |-> TRUE, ops |-> ops]

(* Account 0 can afford one of its two payments and 1 returns money that   *)
(* may arrive in time; transaction 4 reuses the number of transaction 1;   *)
(* transaction 3 spends once, then fails; the number of transaction 5 lies *)
(* beyond the window of the vector.                                        *)
MCPaymentTxs ==
  { T(1, 0, 1, <<Pay(1, 2)>>),
    T(2, 0, 2, <<Pay(1, 2)>>),
    T(3, 1, 1, <<Pay(0, 2), Pay(0, 2)>>),
    T(4, 0, 1, <<Pay(1, 1)>>),
    T(5, 1, 6, <<Pay(0, 1)>>) }

(* An open offer of account 0 that two of its transactions cancel, one of  *)
(* which fails afterwards; an offer that account 1 cannot always escrow.   *)
MCOffers == { [owner |-> 0, offerId |-> <<0, 1>>, asset |-> "USD", amount |-> 2] }
MCOfferTxs ==
  { T(1, 0, 1, <<Cancel(<<0, 1>>), Pay(1, 5), Pay(1, 1)>>),
    T(2, 0, 2, <<Cancel(<<0, 1>>), Pay(1, 1)>>),
    T(3, 1, 1, <<Sell(2), Sell(1)>>),
    [T(4, 0, 3, <<Pay(1, 1)>>) EXCEPT !.wellformed = FALSE] }

(* Two transactions that create account 2, one that pays it and prints     *)
(* money first, one whose source does not exist before the next block, and *)
(* one that spends once and then fails.                                    *)
MCCreationTxs ==
  { T(1, 0, 1, <<Create(2, 2), Pay(2, 1)>>),
    T(2, 1, 1, <<Create(2, 1), Pay(0, 1)>>),
    T(5, 0, 2, <<Pay(1, 1), Pay(1, 4)>>),
    T(3, 1, 2, <<PrintMoney(1), Pay(2, 2)>>),
    T(4, 2, 1, <<Pay(0, 1)>>) }

(* Ids are small and follow each other, so that indices are ids: a         *)
(* transaction that fails after reserving account 3 releases 2, the index  *)
(* of its new account, which two other transactions create.                *)
MCCollidingTxs ==
  { T(1, 0, 1, <<Create(2, 1), Pay(2, 1)>>),
    T(2, 1, 1, <<Create(3, 1), Pay(0, 4)>>),
    T(3, 1, 2, <<Create(2, 1)>>),
    T(4, 2, 1, <<Pay(0, 1)>>) }

MCMempools == {MCPaymentTxs, MCOfferTxs, MCCreationTxs, MCCollidingTxs}
MCTxs == UNION MCMempools

(* A creation that fails for lack of money, and one that would succeed.    *)
MCFailedCreationTxs ==
  { T(1, 1, 1, <<Create(3, 4)>>), T(2, 0, 1, <<Create(3, 2)>>) }
MCFailedCreation == {MCFailedCreationTxs}
=============================================================================
