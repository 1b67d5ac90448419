----------------------------- MODULE MCWorkUnit ------------------------------
EXTENDS WorkUnit

MCAmount == (<<0, 0, 1>> :> 1) @@ (<<0, 1, 0>> :> 2) @@ (<<0, 1, 1>> :> 1)
MCOnDisk == {<<0, 1, 0>>}

\* What process_clear_offers fills in: a book without an offer left, and nothing,
\* a part or all of an offer executed; and more than an offer holds
HonestHeaders ==
    {[null |-> TRUE, key |-> ZeroKey, amount |-> 0]}
    \union [null : {FALSE}, key : {<<0, 1, 0>>}, amount : {0, 1}]
    \union [null : {FALSE}, key : {<<0, 1, 1>>}, amount : {1, 3}]
\* Fields that contradict each other
OddHeaders ==
    {[null |-> TRUE, key |-> ZeroKey, amount |-> 1], [null |-> TRUE, key |-> <<0, 1, 0>>, amount |-> 1],
     [null |-> FALSE, key |-> ZeroKey, amount |-> 0]}
MCHeaders == HonestHeaders \union OddHeaders
==============================================================================
