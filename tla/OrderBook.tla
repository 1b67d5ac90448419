------------------------------ MODULE OrderBook ------------------------------
(***************************************************************************)
(* What an orderbook promises, without tries, thunks or files: a block first *)
(* cancels and adds offers, then clears the book from the lowest key up, and *)
(* is then kept or undone; the books of kept blocks are saved, and a restart *)
(* begins with the saved one.  WorkUnit is shown to implement it.            *)
(***************************************************************************)
EXTENDS Integers

CONSTANTS Keys,                 \* the keys of offers
          Below(_, _)           \* the order of keys: the price, then the owner and the id

VARIABLES book,                 \* amount offered at each key, 0 where there is no offer
          before,               \* the book when the current block began, if one is open
          stage,                \* "idle", "committed" or "cleared"
          last, saved_block,    \* the last kept and the last saved block
          kept,                 \* the books of the kept blocks from saved_block on
          saved,                \* the book on disk
          strays                \* keys whose offers an undone block left behind

vars == <<book, before, stage, last, saved_block, kept, saved, strays>>

Books == [Keys -> Nat]
NoOffers == [k \in Keys |-> 0]

Init ==
    /\ book \in Books /\ saved = book
    /\ before = NoOffers /\ stage = "idle" /\ strays = {}
    /\ last = 0 /\ saved_block = 0 /\ kept = [n \in 0..0 |-> saved]

\* Offers are cancelled and created, never changed
CancelledOrCreated(b, c) == \A k \in Keys : c[k] = b[k] \/ c[k] = 0 \/ b[k] = 0

Commit ==
    /\ stage = "idle" /\ stage' = "committed"
    /\ before' = book
    /\ book' \in Books
    /\ CancelledOrCreated(book, book')
    /\ UNCHANGED <<last, saved_block, kept, saved, strays>>

\* All offers below a key are executed, some of the offer at the key, none above
ClearedAt(b, c, cut) ==
    \A k \in Keys : /\ Below(k, cut) => c[k] = 0
                    /\ Below(cut, k) => c[k] = b[k]
                    /\ c[k] <= b[k]

Clear ==
    /\ stage = "committed" /\ stage' = "cleared"
    /\ book' \in Books
    /\ book' = NoOffers \/ \E cut \in Keys : ClearedAt(book, book', cut)
    /\ UNCHANGED <<before, last, saved_block, kept, saved, strays>>

Keep ==
    /\ stage = "cleared" /\ stage' = "idle"
    /\ last' = last + 1
    /\ kept' = [n \in saved_block..(last + 1) |-> IF n = last + 1 THEN book ELSE kept[n]]
    /\ before' = NoOffers
    /\ UNCHANGED <<book, saved_block, saved, strays>>

\* Every offer of b, strays aside, is in c with its amount
Has(c, b) == \A k \in Keys \ strays : b[k] > 0 => c[k] = b[k]
Differing(b, c) == {k \in Keys : b[k] # c[k]}

\* A block that is undone gives every offer of before its amount back.  It may
\* leave offers of its own, and take such offers of earlier blocks away.
Undo ==
    /\ stage # "idle" /\ stage' = "idle"
    /\ book' \in Books
    /\ Has(book', before)
    /\ strays' = strays \union Differing(before, book')
    /\ before' = NoOffers
    /\ UNCHANGED <<last, saved_block, kept, saved>>

\* The table on disk loses no offer of the block it is saved for
Save ==
    /\ saved_block' \in (saved_block + 1)..last
    /\ saved' \in Books
    /\ Has(saved', kept[saved_block'])
    /\ kept' = [n \in saved_block'..last |-> kept[n]]
    /\ UNCHANGED <<book, before, stage, last, strays>>

Restart ==
    /\ before' = NoOffers /\ stage' = "idle" /\ strays' = {}
    /\ last' = saved_block
    /\ book' = saved
    /\ kept' = [n \in saved_block..saved_block |-> saved]
    /\ UNCHANGED <<saved_block, saved>>

Next == Commit \/ Clear \/ Keep \/ Undo \/ Save \/ Restart
Spec == Init /\ [][Next]_vars

TypeOK ==
    /\ book \in Books /\ before \in Books /\ saved \in Books
    /\ stage \in {"idle", "committed", "cleared"}
    /\ last \in Nat /\ saved_block \in Nat /\ saved_block <= last
    /\ kept \in [saved_block..last -> Books]
    /\ strays \subseteq Keys
==============================================================================
