--------------------------- MODULE OrderBookProofs ---------------------------
(***************************************************************************)
(* The state of OrderBook stays in its types: in particular the books that a *)
(* save may still need are all kept, from the saved block to the last one.   *)
(***************************************************************************)
EXTENDS OrderBook, TLAPS

LEMMA NoOffersIsBook == NoOffers \in Books
  BY DEF NoOffers, Books

LEMMA InitTypeOK == Init => TypeOK
  BY NoOffersIsBook DEF Init, TypeOK

\* Every step keeps the variables in their types; the domain of kept follows
\* the two counters.
LEMMA NextTypeOK == TypeOK /\ [Next]_vars => TypeOK'
<1> SUFFICES ASSUME TypeOK, [Next]_vars PROVE TypeOK'
  OBVIOUS
<1> USE NoOffersIsBook DEF TypeOK
<1>1. CASE Commit  BY <1>1 DEF Commit
<1>2. CASE Clear   BY <1>2 DEF Clear
<1>3. CASE Keep    BY <1>3 DEF Keep
<1>4. CASE Undo    BY <1>4 DEF Undo, Differing
<1>5. CASE Save    BY <1>5 DEF Save
<1>6. CASE Restart BY <1>6 DEF Restart
<1>7. CASE UNCHANGED vars BY <1>7 DEF vars
<1> QED BY <1>1, <1>2, <1>3, <1>4, <1>5, <1>6, <1>7 DEF Next

\* The state of an orderbook is always well typed: the books of the blocks
\* that a save may still need are all there.
THEOREM TypeCorrect == Spec => []TypeOK
<1>1. Init => TypeOK BY InitTypeOK
<1>2. TypeOK /\ [Next]_vars => TypeOK' BY NextTypeOK
<1> QED BY <1>1, <1>2, PTL DEF Spec
==============================================================================
