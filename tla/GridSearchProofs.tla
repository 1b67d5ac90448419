-------------------------- MODULE GridSearchProofs --------------------------
(***************************************************************************)
(* Proofs about GridSearch, for every pool of workers and every number of  *)
(* blocks.                                                                 *)
(***************************************************************************)
EXTENDS GridSearch, FiniteSetTheorems, TLAPS

\* The places where main has waited for every worker to leave its search.
Quiet == {"prepare", "write", "start", "join_rerun", "join", "destroy", "destroyed"}

\* The workers in a search, and the one whose prices the query returns.
ActiveWorkers == {t \in Workers : Active(t)}
Publisher     == IF ended_by = Timer THEN TimeoutWorker ELSE ended_by

\* wait_for_all_tatonnement_threads relies on the count.
ActiveCounted == num_active_threads = Cardinality(ActiveWorkers)

\* The flag is down only while main waits for results, and goes up when somebody ends the search;
\* timeout_happened says that it was the timer.
FlagInv ==
    /\ main # "finish" => done_tatonnement_flag
    /\ main = "finish" => (done_tatonnement_flag <=> ended_by # Nobody)
    /\ main = "finish" /\ results_ready => done_tatonnement_flag
    /\ timeout_happened <=> ended_by = Timer

\* A worker that is in a search works for the query that is being answered; only who ended it has
\* won.
WorkerInv ==
    \A t \in Workers :
        /\ Active(t) => main \notin Quiet /\ worker[t].prices.query = query
        /\ worker[t].at \in {"won", "lost"} => done_tatonnement_flag /\ worker[t].prices.by = t
        /\ worker[t].at = "won" => ended_by = t /\ ~results_ready

\* What the shared prices are: the start prices until results are ready, then those of the
\* publisher, who is not going to publish again.
WorkspaceInv ==
    /\ main = "start" \/ (main = "finish" /\ ~results_ready)
           => internal_shared_price_workspace = PricesOf(query, Main)
    /\ main \in {"finish", "copy"} /\ results_ready
           => internal_shared_price_workspace = PricesOf(query, Publisher)
    /\ main \notin {"start", "finish"} /\ main \notin Quiet => results_ready
    /\ main \notin Quiet /\ results_ready /\ ended_by = Timer => ~Active(TimeoutWorker)

\* The timeout main is told of is one of this query.
TimerInv ==
    /\ main = "prepare" => timer = "none"
    /\ tatonnement_timeout \/ (timer = "signalled" /\ signal_result) => ended_by = Timer
    /\ main \in {"write", "start"}
           => ~tatonnement_timeout /\ ~(timer = "signalled" /\ signal_result)

\* At most two queries are made for a block.
QueryCount ==
    /\ main \in {"wait_rerun", "join_rerun"} => ~rerun
    /\ main # "prepare" => block >= 1
    /\ query =< 2 * block
    /\ ~rerun /\ main \notin {"prepare", "destroy", "destroyed"} => query =< 2 * block - 1
    /\ main = "write" => query =< (IF rerun THEN 2 * block - 1 ELSE 2 * block - 2)

\* The inductive invariant.
IInv ==
    /\ TypeOK /\ ActiveCounted /\ FlagInv /\ WorkerInv /\ WorkspaceInv /\ TimerInv /\ QueryCount
    /\ PricesAnswerQuery /\ TimeoutBelievedIsReal

\* Facts about the pool: it is finite, and so are the workers in a search.
LEMMA PoolFacts ==
    ASSUME TypeOK
    PROVE  /\ Cardinality(Workers) \in Nat
           /\ IsFiniteSet(ActiveWorkers)
           /\ Cardinality(ActiveWorkers) \in Nat
           /\ Cardinality(ActiveWorkers) =< Cardinality(Workers)
<1>1. ActiveWorkers \in SUBSET Workers
  BY DEF ActiveWorkers
<1> QED BY <1>1, WorkersAssumption, FS_Subset, FS_CardinalityType

\* When wait_for_all_tatonnement_threads returns, no worker is in a search.
LEMMA IdleMeansIdle ==
    ASSUME TypeOK, ActiveCounted, AllThreadsIdle
    PROVE  \A t \in Workers : ~Active(t)
<1>1. ActiveWorkers = {}
  BY PoolFacts, FS_EmptySet DEF ActiveCounted, AllThreadsIdle
<1> QED BY <1>1 DEF ActiveWorkers

\* The oracle starts with its flag up and every worker waiting.
LEMMA Initially == Init => IInv
<1> SUFFICES ASSUME Init PROVE IInv
  OBVIOUS
<1> USE WorkersAssumption DEF Init
<1>1. TypeOK
  <2>1. Cardinality(Workers) \in Nat
    BY FS_CardinalityType
  <2>2. PricesOf(0, Main) \in AllPrices
    BY DEF PricesOf, AllPrices
  <2>3. 0 \in 0 .. Cardinality(Workers) /\ 0 \in 0 .. NumBlocks /\ 0 \in 0 .. 2 * NumBlocks
    BY <2>1
  <2> QED BY <2>2, <2>3 DEF TypeOK
<1>2. ActiveWorkers = {}
  BY DEF ActiveWorkers, Active
<1>3. ActiveCounted
  BY <1>2, FS_EmptySet DEF ActiveCounted
<1>4. FlagInv /\ WorkerInv /\ WorkspaceInv /\ TimerInv /\ QueryCount
  BY DEF FlagInv, WorkerInv, WorkspaceInv, TimerInv, QueryCount, Active, Quiet, Nobody, Timer
<1>5. PricesAnswerQuery /\ TimeoutBelievedIsReal
  BY DEF PricesAnswerQuery, TimeoutBelievedIsReal
<1> QED BY <1>1, <1>3, <1>4, <1>5 DEF IInv

-----------------------------------------------------------------------------
\* The steps of the main thread.

\* A timer is launched while nobody searches; its flags are reset.
LEMMA StartBlock_Preserves == IInv /\ StartBlock => IInv'
<1> SUFFICES ASSUME IInv, StartBlock PROVE IInv'
  OBVIOUS
<1> USE WorkersAssumption DEF IInv, StartBlock, oracleVars, timerVars, mainVars
<1>1. TypeOK'
  <2>1. block + 1 \in 0 .. NumBlocks
    BY DEF TypeOK
  <2> QED BY <2>1 DEF TypeOK
<1>2. ActiveCounted' /\ FlagInv' /\ TimerInv' /\ QueryCount'
  BY DEF TypeOK, ActiveCounted, FlagInv, TimerInv, QueryCount, ActiveWorkers, Active, Nobody, Timer
<1>3. WorkerInv'
  BY DEF TypeOK, FlagInv, WorkerInv, Active, Quiet
<1>4. WorkspaceInv'
  BY DEF TypeOK, FlagInv, WorkerInv, WorkspaceInv, Active, Quiet, Publisher, PricesOf, Nobody, Timer
<1>5. PricesAnswerQuery' /\ TimeoutBelievedIsReal'
  BY DEF TypeOK, PricesAnswerQuery, TimeoutBelievedIsReal, WorkspaceInv, FlagInv, TimerInv, Quiet, Publisher, PricesOf
<1> QED BY <1>1, <1>2, <1>3, <1>4, <1>5

\* The start prices of the new query replace those of the one before.
LEMMA WriteInputs_Preserves == IInv /\ WriteInputs => IInv'
<1> SUFFICES ASSUME IInv, WriteInputs PROVE IInv'
  OBVIOUS
<1> USE WorkersAssumption DEF IInv, WriteInputs, oracleVars, timerVars, mainVars
<1>1. TypeOK'
  <2>1. query + 1 \in 0 .. 2 * NumBlocks
    BY DEF TypeOK, QueryCount
  <2>2. PricesOf(query + 1, Main) \in AllPrices
    BY <2>1 DEF PricesOf, AllPrices
  <2> QED BY <2>1, <2>2 DEF TypeOK
<1>2. ActiveCounted' /\ FlagInv' /\ TimerInv' /\ QueryCount'
  BY DEF TypeOK, ActiveCounted, FlagInv, TimerInv, QueryCount, ActiveWorkers, Active, Nobody, Timer
<1>3. WorkerInv'
  BY DEF TypeOK, FlagInv, WorkerInv, Active, Quiet
<1>4. WorkspaceInv'
  BY DEF TypeOK, FlagInv, WorkerInv, WorkspaceInv, Active, Quiet, Publisher, PricesOf, Nobody, Timer
<1>5. PricesAnswerQuery' /\ TimeoutBelievedIsReal'
  BY DEF TypeOK, PricesAnswerQuery, TimeoutBelievedIsReal, WorkspaceInv, FlagInv, TimerInv, Quiet, Publisher, PricesOf
<1> QED BY <1>1, <1>2, <1>3, <1>4, <1>5

\* The flag goes down: from here on workers may join.
LEMMA start_tatonnement_query_Preserves == IInv /\ start_tatonnement_query => IInv'
<1> SUFFICES ASSUME IInv, start_tatonnement_query PROVE IInv'
  OBVIOUS
<1> USE WorkersAssumption DEF IInv, start_tatonnement_query, oracleVars, timerVars, mainVars
<1>1. TypeOK'
  BY DEF TypeOK
<1>2. ActiveCounted' /\ FlagInv' /\ TimerInv' /\ QueryCount'
  BY DEF TypeOK, ActiveCounted, FlagInv, TimerInv, QueryCount, ActiveWorkers, Active, Nobody, Timer
<1>3. WorkerInv'
  BY DEF TypeOK, FlagInv, WorkerInv, Active, Quiet
<1>4. WorkspaceInv'
  BY DEF TypeOK, FlagInv, WorkerInv, WorkspaceInv, Active, Quiet, Publisher, PricesOf, Nobody, Timer
<1>5. PricesAnswerQuery' /\ TimeoutBelievedIsReal'
  BY DEF TypeOK, PricesAnswerQuery, TimeoutBelievedIsReal, WorkspaceInv, FlagInv, TimerInv, Quiet, Publisher, PricesOf
<1> QED BY <1>1, <1>2, <1>3, <1>4, <1>5

\* Results are ready only when somebody has raised the flag.
LEMMA finish_tatonnement_query_Preserves == IInv /\ finish_tatonnement_query => IInv'
<1> SUFFICES ASSUME IInv, finish_tatonnement_query PROVE IInv'
  OBVIOUS
<1> USE WorkersAssumption DEF IInv, finish_tatonnement_query, oracleVars, timerVars, mainVars
<1>1. TypeOK'
  BY DEF TypeOK
<1>2. ActiveCounted' /\ FlagInv' /\ TimerInv' /\ QueryCount'
  BY DEF TypeOK, ActiveCounted, FlagInv, TimerInv, QueryCount, ActiveWorkers, Active, Nobody, Timer
<1>3. WorkerInv'
  BY DEF TypeOK, FlagInv, WorkerInv, Active, Quiet
<1>4. WorkspaceInv'
  BY DEF TypeOK, FlagInv, WorkerInv, WorkspaceInv, Active, Quiet, Publisher, PricesOf, Nobody, Timer
<1>5. PricesAnswerQuery' /\ TimeoutBelievedIsReal'
  BY DEF TypeOK, PricesAnswerQuery, TimeoutBelievedIsReal, WorkspaceInv, FlagInv, TimerInv, Quiet, Publisher, PricesOf
<1> QED BY <1>1, <1>2, <1>3, <1>4, <1>5

\* What is copied is the publisher's, because results are ready.
LEMMA CopyPrices_Preserves == IInv /\ CopyPrices => IInv'
<1> SUFFICES ASSUME IInv, CopyPrices PROVE IInv'
  OBVIOUS
<1> USE WorkersAssumption DEF IInv, CopyPrices, oracleVars, timerVars, mainVars
<1>1. TypeOK'
  BY DEF TypeOK
<1>2. ActiveCounted' /\ FlagInv' /\ TimerInv' /\ QueryCount'
  BY DEF TypeOK, ActiveCounted, FlagInv, TimerInv, QueryCount, ActiveWorkers, Active, Nobody, Timer
<1>3. WorkerInv'
  BY DEF TypeOK, FlagInv, WorkerInv, Active, Quiet
<1>4. WorkspaceInv'
  BY DEF TypeOK, FlagInv, WorkerInv, WorkspaceInv, Active, Quiet, Publisher, PricesOf, Nobody, Timer
<1>5. PricesAnswerQuery' /\ TimeoutBelievedIsReal'
  BY DEF TypeOK, PricesAnswerQuery, TimeoutBelievedIsReal, WorkspaceInv, FlagInv, TimerInv, Quiet, Publisher, PricesOf
<1> QED BY <1>1, <1>2, <1>3, <1>4, <1>5

\* A timeout main reads was this query's.
LEMMA ReadTimeout_Preserves == IInv /\ ReadTimeout => IInv'
<1> SUFFICES ASSUME IInv, ReadTimeout PROVE IInv'
  OBVIOUS
<1> USE WorkersAssumption DEF IInv, ReadTimeout, oracleVars, timerVars, mainVars
<1>1. TypeOK'
  BY DEF TypeOK
<1>2. ActiveCounted' /\ FlagInv' /\ TimerInv' /\ QueryCount'
  BY DEF TypeOK, ActiveCounted, FlagInv, TimerInv, QueryCount, ActiveWorkers, Active, Nobody, Timer
<1>3. WorkerInv'
  BY DEF TypeOK, FlagInv, WorkerInv, Active, Quiet
<1>4. WorkspaceInv'
  BY DEF TypeOK, FlagInv, WorkerInv, WorkspaceInv, Active, Quiet, Publisher, PricesOf, Nobody, Timer
<1>5. PricesAnswerQuery' /\ TimeoutBelievedIsReal'
  BY DEF TypeOK, PricesAnswerQuery, TimeoutBelievedIsReal, WorkspaceInv, FlagInv, TimerInv, Quiet, Publisher, PricesOf
<1> QED BY <1>1, <1>2, <1>3, <1>4, <1>5

\* The wait makes the pool quiet, since active workers are counted.
LEMMA WaitBeforeRerun_Preserves == IInv /\ WaitBeforeRerun => IInv'
<1> SUFFICES ASSUME IInv, WaitBeforeRerun PROVE IInv'
  OBVIOUS
<1> USE WorkersAssumption DEF IInv, WaitBeforeRerun, oracleVars, timerVars, mainVars
<1>1. TypeOK'
  BY DEF TypeOK
<1>2. ActiveCounted' /\ FlagInv' /\ TimerInv' /\ QueryCount'
  BY DEF TypeOK, ActiveCounted, FlagInv, TimerInv, QueryCount, ActiveWorkers, Active, Nobody, Timer
<1>3. WorkerInv'
  BY IdleMeansIdle DEF TypeOK, FlagInv, WorkerInv, Active, Quiet
<1>4. WorkspaceInv'
  BY DEF TypeOK, FlagInv, WorkerInv, WorkspaceInv, Active, Quiet, Publisher, PricesOf, Nobody, Timer
<1>5. PricesAnswerQuery' /\ TimeoutBelievedIsReal'
  BY DEF TypeOK, PricesAnswerQuery, TimeoutBelievedIsReal, WorkspaceInv, FlagInv, TimerInv, Quiet, Publisher, PricesOf
<1> QED BY <1>1, <1>2, <1>3, <1>4, <1>5

\* The second timer starts with both flags reset, and nobody searching.
LEMMA RelaunchTimer_Preserves == IInv /\ RelaunchTimer => IInv'
<1> SUFFICES ASSUME IInv, RelaunchTimer PROVE IInv'
  OBVIOUS
<1> USE WorkersAssumption DEF IInv, RelaunchTimer, oracleVars, timerVars, mainVars
<1>1. TypeOK'
  BY DEF TypeOK
<1>2. ActiveCounted' /\ FlagInv' /\ TimerInv' /\ QueryCount'
  BY DEF TypeOK, ActiveCounted, FlagInv, TimerInv, QueryCount, ActiveWorkers, Active, Nobody, Timer
<1>3. WorkerInv'
  BY DEF TypeOK, FlagInv, WorkerInv, Active, Quiet
<1>4. WorkspaceInv'
  BY DEF TypeOK, FlagInv, WorkerInv, WorkspaceInv, Active, Quiet, Publisher, PricesOf, Nobody, Timer
<1>5. PricesAnswerQuery' /\ TimeoutBelievedIsReal'
  BY DEF TypeOK, PricesAnswerQuery, TimeoutBelievedIsReal, WorkspaceInv, FlagInv, TimerInv, Quiet, Publisher, PricesOf
<1> QED BY <1>1, <1>2, <1>3, <1>4, <1>5

\* Offers are cleared while losers may still be leaving their search.
LEMMA ClearOffers_Preserves == IInv /\ ClearOffers => IInv'
<1> SUFFICES ASSUME IInv, ClearOffers PROVE IInv'
  OBVIOUS
<1> USE WorkersAssumption DEF IInv, ClearOffers, oracleVars, timerVars, mainVars
<1>1. TypeOK'
  BY DEF TypeOK
<1>2. ActiveCounted' /\ FlagInv' /\ TimerInv' /\ QueryCount'
  BY DEF TypeOK, ActiveCounted, FlagInv, TimerInv, QueryCount, ActiveWorkers, Active, Nobody, Timer
<1>3. WorkerInv'
  BY DEF TypeOK, FlagInv, WorkerInv, Active, Quiet
<1>4. WorkspaceInv'
  BY DEF TypeOK, FlagInv, WorkerInv, WorkspaceInv, Active, Quiet, Publisher, PricesOf, Nobody, Timer
<1>5. PricesAnswerQuery' /\ TimeoutBelievedIsReal'
  BY DEF TypeOK, PricesAnswerQuery, TimeoutBelievedIsReal, WorkspaceInv, FlagInv, TimerInv, Quiet, Publisher, PricesOf
<1> QED BY <1>1, <1>2, <1>3, <1>4, <1>5

\* The same wait at the end of the block.
LEMMA WaitAtEnd_Preserves == IInv /\ WaitAtEnd => IInv'
<1> SUFFICES ASSUME IInv, WaitAtEnd PROVE IInv'
  OBVIOUS
<1> USE WorkersAssumption DEF IInv, WaitAtEnd, oracleVars, timerVars, mainVars
<1>1. TypeOK'
  BY DEF TypeOK
<1>2. ActiveCounted' /\ FlagInv' /\ TimerInv' /\ QueryCount'
  BY DEF TypeOK, ActiveCounted, FlagInv, TimerInv, QueryCount, ActiveWorkers, Active, Nobody, Timer
<1>3. WorkerInv'
  BY IdleMeansIdle DEF TypeOK, FlagInv, WorkerInv, Active, Quiet
<1>4. WorkspaceInv'
  BY DEF TypeOK, FlagInv, WorkerInv, WorkspaceInv, Active, Quiet, Publisher, PricesOf, Nobody, Timer
<1>5. PricesAnswerQuery' /\ TimeoutBelievedIsReal'
  BY DEF TypeOK, PricesAnswerQuery, TimeoutBelievedIsReal, WorkspaceInv, FlagInv, TimerInv, Quiet, Publisher, PricesOf
<1> QED BY <1>1, <1>2, <1>3, <1>4, <1>5

\* The timer is gone before the next block starts.
LEMMA JoinTimer_Preserves == IInv /\ JoinTimer => IInv'
<1> SUFFICES ASSUME IInv, JoinTimer PROVE IInv'
  OBVIOUS
<1> USE WorkersAssumption DEF IInv, JoinTimer, oracleVars, timerVars, mainVars
<1>1. TypeOK'
  BY DEF TypeOK
<1>2. ActiveCounted' /\ FlagInv' /\ TimerInv' /\ QueryCount'
  BY DEF TypeOK, ActiveCounted, FlagInv, TimerInv, QueryCount, ActiveWorkers, Active, Nobody, Timer
<1>3. WorkerInv'
  BY DEF TypeOK, FlagInv, WorkerInv, Active, Quiet
<1>4. WorkspaceInv'
  BY DEF TypeOK, FlagInv, WorkerInv, WorkspaceInv, Active, Quiet, Publisher, PricesOf, Nobody, Timer
<1>5. PricesAnswerQuery' /\ TimeoutBelievedIsReal'
  BY DEF TypeOK, PricesAnswerQuery, TimeoutBelievedIsReal, WorkspaceInv, FlagInv, TimerInv, Quiet, Publisher, PricesOf
<1> QED BY <1>1, <1>2, <1>3, <1>4, <1>5

\* Raising the flags changes nothing for a quiet pool.
LEMMA EndThreads_Preserves == IInv /\ EndThreads => IInv'
<1> SUFFICES ASSUME IInv, EndThreads PROVE IInv'
  OBVIOUS
<1> USE WorkersAssumption DEF IInv, EndThreads, oracleVars, timerVars, mainVars
<1>1. TypeOK'
  BY DEF TypeOK
<1>2. ActiveCounted' /\ FlagInv' /\ TimerInv' /\ QueryCount'
  BY DEF TypeOK, ActiveCounted, FlagInv, TimerInv, QueryCount, ActiveWorkers, Active, Nobody, Timer
<1>3. WorkerInv'
  BY DEF TypeOK, FlagInv, WorkerInv, Active, Quiet
<1>4. WorkspaceInv'
  BY DEF TypeOK, FlagInv, WorkerInv, WorkspaceInv, Active, Quiet, Publisher, PricesOf, Nobody, Timer
<1>5. PricesAnswerQuery' /\ TimeoutBelievedIsReal'
  BY DEF TypeOK, PricesAnswerQuery, TimeoutBelievedIsReal, WorkspaceInv, FlagInv, TimerInv, Quiet, Publisher, PricesOf
<1> QED BY <1>1, <1>2, <1>3, <1>4, <1>5

\* Nor does joining it.
LEMMA JoinThreads_Preserves == IInv /\ JoinThreads => IInv'
<1> SUFFICES ASSUME IInv, JoinThreads PROVE IInv'
  OBVIOUS
<1> USE WorkersAssumption DEF IInv, JoinThreads, oracleVars, timerVars, mainVars
<1>1. TypeOK'
  BY DEF TypeOK
<1>2. ActiveCounted' /\ FlagInv' /\ TimerInv' /\ QueryCount'
  BY DEF TypeOK, ActiveCounted, FlagInv, TimerInv, QueryCount, ActiveWorkers, Active, Nobody, Timer
<1>3. WorkerInv'
  BY DEF TypeOK, FlagInv, WorkerInv, Active, Quiet
<1>4. WorkspaceInv'
  BY DEF TypeOK, FlagInv, WorkerInv, WorkspaceInv, Active, Quiet, Publisher, PricesOf, Nobody, Timer
<1>5. PricesAnswerQuery' /\ TimeoutBelievedIsReal'
  BY DEF TypeOK, PricesAnswerQuery, TimeoutBelievedIsReal, WorkspaceInv, FlagInv, TimerInv, Quiet, Publisher, PricesOf
<1> QED BY <1>1, <1>2, <1>3, <1>4, <1>5

-----------------------------------------------------------------------------
\* The steps of the timeout thread.

\* A cancelled timer touches nothing.
LEMMA TimerCancelled_Preserves == IInv /\ TimerCancelled => IInv'
<1> SUFFICES ASSUME IInv, TimerCancelled PROVE IInv'
  OBVIOUS
<1> USE WorkersAssumption DEF IInv, TimerCancelled, oracleVars, timerVars, mainVars
<1>1. TypeOK'
  BY DEF TypeOK
<1>2. ActiveCounted' /\ FlagInv' /\ TimerInv' /\ QueryCount'
  BY DEF TypeOK, ActiveCounted, FlagInv, TimerInv, QueryCount, ActiveWorkers, Active, Nobody, Timer
<1>3. WorkerInv'
  BY DEF TypeOK, FlagInv, WorkerInv, Active, Quiet
<1>4. WorkspaceInv'
  BY DEF TypeOK, FlagInv, WorkerInv, WorkspaceInv, Active, Quiet, Publisher, PricesOf, Nobody, Timer
<1>5. PricesAnswerQuery' /\ TimeoutBelievedIsReal'
  BY DEF TypeOK, PricesAnswerQuery, TimeoutBelievedIsReal, WorkspaceInv, FlagInv, TimerInv, Quiet, Publisher, PricesOf
<1> QED BY <1>1, <1>2, <1>3, <1>4, <1>5

\* Nor does one that has slept its time.
LEMMA TimerDue_Preserves == IInv /\ TimerDue => IInv'
<1> SUFFICES ASSUME IInv, TimerDue PROVE IInv'
  OBVIOUS
<1> USE WorkersAssumption DEF IInv, TimerDue, oracleVars, timerVars, mainVars
<1>1. TypeOK'
  BY DEF TypeOK
<1>2. ActiveCounted' /\ FlagInv' /\ TimerInv' /\ QueryCount'
  BY DEF TypeOK, ActiveCounted, FlagInv, TimerInv, QueryCount, ActiveWorkers, Active, Nobody, Timer
<1>3. WorkerInv'
  BY DEF TypeOK, FlagInv, WorkerInv, Active, Quiet
<1>4. WorkspaceInv'
  BY DEF TypeOK, FlagInv, WorkerInv, WorkspaceInv, Active, Quiet, Publisher, PricesOf, Nobody, Timer
<1>5. PricesAnswerQuery' /\ TimeoutBelievedIsReal'
  BY DEF TypeOK, PricesAnswerQuery, TimeoutBelievedIsReal, WorkspaceInv, FlagInv, TimerInv, Quiet, Publisher, PricesOf
<1> QED BY <1>1, <1>2, <1>3, <1>4, <1>5

\* Raising the flag and learning who was first are one step.
LEMMA signal_grid_search_timeout_Preserves == IInv /\ signal_grid_search_timeout => IInv'
<1> SUFFICES ASSUME IInv, signal_grid_search_timeout PROVE IInv'
  OBVIOUS
<1> USE WorkersAssumption DEF IInv, signal_grid_search_timeout, oracleVars, timerVars, mainVars
<1>1. TypeOK'
  BY DEF TypeOK
<1>2. ActiveCounted' /\ FlagInv' /\ TimerInv' /\ QueryCount'
  BY DEF TypeOK, ActiveCounted, FlagInv, TimerInv, QueryCount, ActiveWorkers, Active, Nobody, Timer
<1>3. WorkerInv'
  BY DEF TypeOK, FlagInv, WorkerInv, Active, Quiet
<1>4. WorkspaceInv'
  BY DEF TypeOK, FlagInv, WorkerInv, WorkspaceInv, Active, Quiet, Publisher, PricesOf, Nobody, Timer
<1>5. PricesAnswerQuery' /\ TimeoutBelievedIsReal'
  BY DEF TypeOK, PricesAnswerQuery, TimeoutBelievedIsReal, WorkspaceInv, FlagInv, TimerInv, Quiet, Publisher, PricesOf
<1> QED BY <1>1, <1>2, <1>3, <1>4, <1>5

\* What the timer stores for main is still true: the flag stays up meanwhile.
LEMMA TimerStores_Preserves == IInv /\ TimerStores => IInv'
<1> SUFFICES ASSUME IInv, TimerStores PROVE IInv'
  OBVIOUS
<1> USE WorkersAssumption DEF IInv, TimerStores, oracleVars, timerVars, mainVars
<1>1. TypeOK'
  BY DEF TypeOK
<1>2. ActiveCounted' /\ FlagInv' /\ TimerInv' /\ QueryCount'
  BY DEF TypeOK, ActiveCounted, FlagInv, TimerInv, QueryCount, ActiveWorkers, Active, Nobody, Timer
<1>3. WorkerInv'
  BY DEF TypeOK, FlagInv, WorkerInv, Active, Quiet
<1>4. WorkspaceInv'
  BY DEF TypeOK, FlagInv, WorkerInv, WorkspaceInv, Active, Quiet, Publisher, PricesOf, Nobody, Timer
<1>5. PricesAnswerQuery' /\ TimeoutBelievedIsReal'
  BY DEF TypeOK, PricesAnswerQuery, TimeoutBelievedIsReal, WorkspaceInv, FlagInv, TimerInv, Quiet, Publisher, PricesOf
<1> QED BY <1>1, <1>2, <1>3, <1>4, <1>5

-----------------------------------------------------------------------------
\* The steps of a worker.

\* A worker that joins finds the start prices of this query, and is counted.
LEMMA JoinSearch_Preserves ==
    ASSUME IInv, NEW t \in Workers, JoinSearch(t)
    PROVE  IInv'
<1> USE WorkersAssumption DEF IInv, JoinSearch, oracleVars, timerVars, mainVars
<1>1. ~Active(t) /\ ActiveWorkers' = ActiveWorkers \union {t}
  BY DEF TypeOK, ActiveWorkers, Active
<1>2. ActiveCounted'
  BY <1>1, PoolFacts, FS_AddElement DEF ActiveCounted, ActiveWorkers
<1>3. TypeOK'
  <2>1. num_active_threads' \in 0 .. Cardinality(Workers)
    <3>1. ActiveWorkers' \in SUBSET Workers
      BY DEF ActiveWorkers
    <3> QED BY <1>2, <3>1, FS_Subset, FS_CardinalityType DEF ActiveCounted, TypeOK
  <2> QED BY <2>1 DEF TypeOK
<1>4. FlagInv' /\ TimerInv' /\ QueryCount'
  BY DEF TypeOK, FlagInv, TimerInv, QueryCount
<1>5. WorkerInv'
  BY DEF TypeOK, FlagInv, WorkerInv, WorkspaceInv, Active, Quiet, PricesOf
<1>6. WorkspaceInv'
  BY DEF TypeOK, FlagInv, WorkerInv, WorkspaceInv, Active, Quiet, Publisher, PricesOf
<1>7. PricesAnswerQuery' /\ TimeoutBelievedIsReal'
  BY DEF TypeOK, PricesAnswerQuery, TimeoutBelievedIsReal
<1> QED BY <1>2, <1>3, <1>4, <1>5, <1>6, <1>7

\* A worker ends only when it waits.
LEMMA ExitThread_Preserves ==
    ASSUME IInv, NEW t \in Workers, ExitThread(t)
    PROVE  IInv'
<1> USE WorkersAssumption DEF IInv, ExitThread, oracleVars, timerVars, mainVars
<1>1. ActiveWorkers' = ActiveWorkers
  BY DEF TypeOK, ActiveWorkers, Active
<1>2. ActiveCounted' /\ FlagInv' /\ TimerInv' /\ QueryCount'
  BY <1>1 DEF ActiveCounted, FlagInv, TimerInv, QueryCount
<1>3. TypeOK'
  BY DEF TypeOK
<1>4. WorkerInv'
  BY DEF TypeOK, WorkerInv, Active
<1>5. WorkspaceInv'
  BY DEF TypeOK, WorkspaceInv, Active, Publisher
<1>6. PricesAnswerQuery' /\ TimeoutBelievedIsReal'
  BY DEF PricesAnswerQuery, TimeoutBelievedIsReal
<1> QED BY <1>2, <1>3, <1>4, <1>5, <1>6

\* The first to raise the flag is the one that ended the search.
LEMMA FindEquilibrium_Preserves ==
    ASSUME IInv, NEW t \in Workers, FindEquilibrium(t)
    PROVE  IInv'
<1> USE WorkersAssumption DEF IInv, FindEquilibrium, Searching, oracleVars, timerVars, mainVars
<1>1. ActiveWorkers' = ActiveWorkers
  BY DEF TypeOK, ActiveWorkers, Active
<1>2. ActiveCounted' /\ FlagInv' /\ TimerInv' /\ QueryCount'
  BY <1>1 DEF ActiveCounted, TypeOK, FlagInv, TimerInv, QueryCount, Nobody, Timer
<1>3. TypeOK'
  <2>1. PricesOf(worker[t].prices.query, t) \in AllPrices
    BY DEF TypeOK, PricesOf, AllPrices
  <2> QED BY <2>1 DEF TypeOK
<1>4. WorkerInv'
  BY DEF TypeOK, FlagInv, WorkerInv, Active, Quiet, PricesOf
<1>5. WorkspaceInv'
  BY DEF TypeOK, FlagInv, WorkerInv, WorkspaceInv, Active, Quiet, Publisher, PricesOf
<1>6. PricesAnswerQuery' /\ TimeoutBelievedIsReal'
  BY DEF TypeOK, FlagInv, PricesAnswerQuery, TimeoutBelievedIsReal
<1> QED BY <1>2, <1>3, <1>4, <1>5, <1>6

\* A worker that sees the flag up has lost.
LEMMA SeeOtherFinisher_Preserves ==
    ASSUME IInv, NEW t \in Workers, SeeOtherFinisher(t)
    PROVE  IInv'
<1> USE WorkersAssumption DEF IInv, SeeOtherFinisher, Searching, oracleVars, timerVars, mainVars
<1>1. ActiveWorkers' = ActiveWorkers
  BY DEF TypeOK, ActiveWorkers, Active
<1>2. ActiveCounted' /\ FlagInv' /\ TimerInv' /\ QueryCount'
  BY <1>1 DEF ActiveCounted, FlagInv, TimerInv, QueryCount
<1>3. TypeOK'
  <2>1. PricesOf(worker[t].prices.query, t) \in AllPrices
    BY DEF TypeOK, PricesOf, AllPrices
  <2> QED BY <2>1 DEF TypeOK
<1>4. WorkerInv'
  BY DEF TypeOK, WorkerInv, Active, PricesOf
<1>5. WorkspaceInv'
  BY DEF TypeOK, WorkspaceInv, Active, Publisher
<1>6. PricesAnswerQuery' /\ TimeoutBelievedIsReal'
  BY DEF PricesAnswerQuery, TimeoutBelievedIsReal
<1> QED BY <1>2, <1>3, <1>4, <1>5, <1>6

\* Only the publisher publishes, once.
LEMMA LeaveSearch_Preserves ==
    ASSUME IInv, NEW t \in Workers, LeaveSearch(t)
    PROVE  IInv'
<1> USE WorkersAssumption DEF IInv, LeaveSearch, Publishes, oracleVars, timerVars, mainVars
<1>1. Active(t) /\ ActiveWorkers' = ActiveWorkers \ {t}
  BY DEF TypeOK, ActiveWorkers, Active
<1>2. ActiveCounted'
  BY <1>1, PoolFacts, FS_RemoveElement DEF ActiveCounted, ActiveWorkers
<1>3. TypeOK'
  <2>1. num_active_threads' \in 0 .. Cardinality(Workers)
    <3>1. ActiveWorkers' \in SUBSET Workers
      BY DEF ActiveWorkers
    <3> QED BY <1>2, <3>1, FS_Subset, FS_CardinalityType DEF ActiveCounted, TypeOK
  <2> QED BY <2>1 DEF TypeOK
<1>4. FlagInv' /\ TimerInv' /\ QueryCount'
  BY DEF TypeOK, FlagInv, WorkerInv, TimerInv, QueryCount
<1>5. WorkerInv'
  BY DEF TypeOK, FlagInv, WorkerInv, Active, Quiet, Nobody, Timer
<1>6. WorkspaceInv'
  <2>1. worker[t].prices = PricesOf(query, t)
    BY <1>1 DEF TypeOK, AllPrices, WorkerInv, PricesOf, Active
  <2>2. Publishes(t) => t = Publisher /\ main \notin Quiet /\ main # "start"
    BY <1>1 DEF TypeOK, FlagInv, WorkerInv, Publisher, Quiet, Nobody, Timer
  <2>3. Publishes(t) => ~results_ready
    BY <1>1, <2>2 DEF TypeOK, FlagInv, WorkerInv, WorkspaceInv, Publisher, Quiet, Nobody, Timer
  <2>4. CASE Publishes(t)
    BY <2>1, <2>2, <2>3, <2>4 DEF TypeOK, WorkerInv, WorkspaceInv, Active, Quiet, Publisher
  <2>5. CASE ~Publishes(t)
    BY <2>5 DEF TypeOK, WorkspaceInv, Active, Quiet, Publisher
  <2> QED BY <2>4, <2>5
<1>7. PricesAnswerQuery' /\ TimeoutBelievedIsReal'
  BY DEF TypeOK, PricesAnswerQuery, TimeoutBelievedIsReal
<1> QED BY <1>2, <1>3, <1>4, <1>5, <1>6, <1>7

-----------------------------------------------------------------------------
\* No step breaks the invariant.
LEMMA Inductive == IInv /\ [Next]_vars => IInv'
<1> SUFFICES ASSUME IInv, [Next]_vars PROVE IInv'
  OBVIOUS
<1>1. CASE MainStep
  BY <1>1, StartBlock_Preserves, WriteInputs_Preserves, start_tatonnement_query_Preserves,
     finish_tatonnement_query_Preserves, CopyPrices_Preserves, ReadTimeout_Preserves,
     WaitBeforeRerun_Preserves, RelaunchTimer_Preserves, ClearOffers_Preserves,
     WaitAtEnd_Preserves, JoinTimer_Preserves, EndThreads_Preserves, JoinThreads_Preserves
     DEF MainStep
<1>2. CASE TimerStep
  BY <1>2, TimerCancelled_Preserves, TimerDue_Preserves, signal_grid_search_timeout_Preserves,
     TimerStores_Preserves DEF TimerStep
<1>3. CASE \E t \in Workers : WorkerStep(t) \/ JoinSearch(t) \/ FindEquilibrium(t)
  BY <1>3, ExitThread_Preserves, SeeOtherFinisher_Preserves, LeaveSearch_Preserves,
     JoinSearch_Preserves, FindEquilibrium_Preserves DEF WorkerStep
<1>4. CASE UNCHANGED vars
  <2> USE <1>4 DEF vars, oracleVars, timerVars, mainVars
  <2>1. TypeOK' /\ ActiveCounted' /\ FlagInv' /\ WorkerInv' /\ WorkspaceInv' /\ TimerInv' /\ QueryCount'
    BY DEF IInv, TypeOK, ActiveCounted, ActiveWorkers, FlagInv, WorkerInv, WorkspaceInv, TimerInv,
           QueryCount, Active, Publisher
  <2>2. PricesAnswerQuery' /\ TimeoutBelievedIsReal'
    BY DEF IInv, PricesAnswerQuery, TimeoutBelievedIsReal
  <2> QED BY <2>1, <2>2 DEF IInv
<1> QED BY <1>1, <1>2, <1>3, <1>4 DEF Next, Destroyed

\* The invariant holds in every reachable state.
THEOREM InvariantHolds == Spec => []IInv
  BY Initially, Inductive, PTL DEF Spec

\* Type correctness of the oracle, its pool, the timer and the main thread: the count of active
\* threads stays within the pool, and a block makes at most two queries.
THEOREM TypeCorrect == Spec => []TypeOK
<1>1. IInv => TypeOK
  BY DEF IInv
<1> QED BY <1>1, InvariantHolds, PTL

\* Nobody searches in the inputs of a query, or in the orderbooks' indexes, while main writes them
\* without a lock.
THEOREM SetupUndisturbed == Spec => []NoSearchDuringSetup
<1>1. IInv => NoSearchDuringSetup
  BY DEF IInv, WorkerInv, NoSearchDuringSetup, Quiet
<1> QED BY <1>1, InvariantHolds, PTL

\* The prices main copies out without a lock are those that this query's winner, or after a timeout
\* the worker kept for that case, computed for this query.
THEOREM PricesRight == Spec => []PricesAnswerQuery
<1>1. IInv => PricesAnswerQuery
  BY DEF IInv
<1> QED BY <1>1, InvariantHolds, PTL

\* Main drops the lower bounds of the linear program only when the timeout ended the search.
THEOREM TimeoutReal == Spec => []TimeoutBelievedIsReal
<1>1. IInv => TimeoutBelievedIsReal
  BY DEF IInv
<1> QED BY <1>1, InvariantHolds, PTL

\* Published prices are not overwritten before the next query is set up: of all workers that leave
\* a search, one publishes, and no worker joins a search that is over.
THEOREM PricesPublishedOnce == Spec => PublishedOnce
<1>1. IInv /\ [Next]_vars
        => [results_ready /\ results_ready' /\ query' = query
              => internal_shared_price_workspace' = internal_shared_price_workspace]_vars
  <2> SUFFICES ASSUME IInv, Next, results_ready, results_ready', query' = query
               PROVE  internal_shared_price_workspace' = internal_shared_price_workspace
    OBVIOUS
  <2>1. CASE MainStep
    BY <2>1 DEF MainStep, StartBlock, WriteInputs, start_tatonnement_query,
       finish_tatonnement_query, CopyPrices, ReadTimeout, WaitBeforeRerun, RelaunchTimer,
       ClearOffers, WaitAtEnd, JoinTimer, EndThreads, JoinThreads, oracleVars, IInv, TypeOK
  <2>2. CASE TimerStep
    BY <2>2 DEF TimerStep, TimerCancelled, TimerDue, signal_grid_search_timeout, TimerStores, oracleVars
  <2>3. ASSUME NEW t \in Workers, LeaveSearch(t)
        PROVE  internal_shared_price_workspace' = internal_shared_price_workspace
    <3>1. Active(t)
      BY <2>3 DEF LeaveSearch, Active
    <3>2. ~Publishes(t)
      BY <3>1 DEF IInv, Publishes, TypeOK, FlagInv, WorkerInv, WorkspaceInv
    <3> QED BY <2>3, <3>2 DEF LeaveSearch
  <2>4. ASSUME NEW t \in Workers, ExitThread(t) \/ SeeOtherFinisher(t) \/ JoinSearch(t) \/ FindEquilibrium(t)
        PROVE  internal_shared_price_workspace' = internal_shared_price_workspace
    BY <2>4 DEF ExitThread, SeeOtherFinisher, JoinSearch, FindEquilibrium, oracleVars
  <2>5. CASE Destroyed
    BY <2>5 DEF Destroyed, vars, oracleVars
  <2> QED BY <2>1, <2>2, <2>3, <2>4, <2>5 DEF Next, WorkerStep
<1> QED BY <1>1, InvariantHolds, PTL DEF Spec, PublishedOnce
=============================================================================
