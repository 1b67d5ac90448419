----------------------------- MODULE MCReplica -------------------------------
(* Two orderbooks, five blocks, the first four in two batches; the third        *)
(* creates an account, and the fourth clears a new offer at once.            *)
EXTENDS Replica

MCGenesis == {"a", "b"}
MCChain == <<Block(1, {"a"}, {}, {}, <<{"b"}, {"a"}>>, "none"),
             Block(2, {"b"}, {}, {}, <<{"b"}, {}>>, "none"),
             Block(3, {"a"}, {"c"}, {}, <<{}, {"b"}>>, "none"),
             Block(4, {"b"}, {}, {"b"}, <<{"a"}, {}>>, "none"),
             Block(5, {"a"}, {}, {}, <<{}, {}>>, "none")>>

\* A right block with a defect, or other transactions under its header; the last
\* block is there to follow a recovery at the second batch
MCFaulty(n) ==
    IF n = 5 THEN {[MCChain[n] EXCEPT !.fails = "early"]} ELSE
    {[MCChain[n] EXCEPT !.fails = f] : f \in {"early", "tx", "state", "clearing", "hash"}} \union
    {Block(10 + n, {"a"}, {}, {}, <<{"b"}, {}>>, f) : f \in {"tx", "hash"}} \union
    {Block(10 + n, {"a"}, {"d"}, {}, <<{"b"}, {}>>, "state")}
=============================================================================
