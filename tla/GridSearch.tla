------------------------------ MODULE GridSearch ------------------------------
(***************************************************************************)
(* The price computation of a block: TatonnementOracle's grid search       *)
(* (tatonnement_oracle.h, tatonnement_oracle.cc) driven by                 *)
(* edce_block_creation_logic (edce.cc).                                    *)
(*                                                                         *)
(* A pool of worker threads sleeps on start_cv.  For every query the main  *)
(* thread writes the start prices, lowers done_tatonnement_flag and waits  *)
(* on finished_cv; every worker that wakes up in time searches from those  *)
(* prices, the first to raise the flag again has won and publishes its     *)
(* prices.  A timer may raise the flag instead, and then the one worker    *)
(* with use_in_case_of_timeout publishes what it has.                      *)
(*                                                                         *)
(* One step is one critical section of mtx, one access to an atomic, or a  *)
(* stretch of the main thread that shares nothing but what the properties  *)
(* are about.  Prices are abstracted to where they come from: the query    *)
(* they answer and the thread that computed them.  The numeric search is   *)
(* the choice of a worker to find an equilibrium or not.                   *)
(***************************************************************************)
EXTENDS Naturals, FiniteSets

CONSTANTS
    Workers,          \* the worker threads
    TimeoutWorker,    \* the one with use_in_case_of_timeout
    Main,             \* the thread that creates blocks
    NumBlocks         \* blocks created before the oracle is destroyed (bound)

\* What the history variable ended_by holds when no worker has ended the search
Nobody == "nobody"
Timer  == "timer"

ASSUME WorkersAssumption ==
    /\ IsFiniteSet(Workers)
    /\ TimeoutWorker \in Workers
    /\ {Main, Nobody, Timer} \cap Workers = {}
    /\ NumBlocks \in Nat

VARIABLES
    done_tatonnement_flag,
    timeout_happened,
    num_active_threads,
    results_ready,
    kill_threads_flag,
    internal_shared_price_workspace,
    worker,               \* where each worker is, and the prices it holds
    timer,                \* the timeout thread: "none", "sleeping", "due", "signalled"
    signal_result,        \* what signal_grid_search_timeout returned to the timer
    tatonnement_timeout,  \* the two atomics of edce_block_creation_logic
    cancel_timeout,
    main,                 \* where the main thread is
    rerun,                \* main is in the second query of the block
    prices,               \* price_workspace of the main thread, or price_copy in the second query
    use_lower_bound,      \* the same, or use_lower_bound_2
    block,                \* blocks started
    query,                \* queries started: names the start prices of each
    ended_by              \* history: who raised the flag in this query

oracleVars == <<done_tatonnement_flag, timeout_happened, num_active_threads,
                results_ready, kill_threads_flag, internal_shared_price_workspace>>
timerVars  == <<timer, signal_result, tatonnement_timeout>>
mainVars   == <<main, rerun, prices, use_lower_bound, block, query, cancel_timeout>>
vars == <<oracleVars, worker, timerVars, mainVars, ended_by>>

PricesOf(q, who) == [query |-> q, by |-> who]
AllPrices        == [query : 0 .. 2 * NumBlocks, by : Workers \cup {Main}]

Searching(t) == worker[t].at = "searching"
Active(t)    == worker[t].at \in {"searching", "won", "lost"}

TypeOK ==
    /\ done_tatonnement_flag \in BOOLEAN
    /\ timeout_happened \in BOOLEAN
    /\ num_active_threads \in 0 .. Cardinality(Workers)
    /\ results_ready \in BOOLEAN
    /\ kill_threads_flag \in BOOLEAN
    /\ internal_shared_price_workspace \in AllPrices
    /\ worker \in [Workers -> [at : {"waiting", "searching", "won", "lost", "exited"},
                               prices : AllPrices]]
    /\ timer \in {"none", "sleeping", "due", "signalled"}
    /\ signal_result \in BOOLEAN
    /\ tatonnement_timeout \in BOOLEAN
    /\ cancel_timeout \in BOOLEAN
    /\ main \in {"prepare", "write", "start", "finish", "copy", "decide", "wait_rerun",
                 "join_rerun", "clear", "wait", "join", "destroy", "destroyed"}
    /\ rerun \in BOOLEAN
    /\ prices \in AllPrices
    /\ use_lower_bound \in BOOLEAN
    /\ block \in 0 .. NumBlocks
    /\ query \in 0 .. 2 * NumBlocks
    /\ ended_by \in Workers \cup {Nobody, Timer}

Init ==
    /\ done_tatonnement_flag = TRUE
    /\ timeout_happened = FALSE
    /\ num_active_threads = 0
    /\ results_ready = FALSE
    /\ kill_threads_flag = FALSE
    /\ internal_shared_price_workspace = PricesOf(0, Main)
    /\ worker = [t \in Workers |-> [at |-> "waiting", prices |-> PricesOf(0, Main)]]
    /\ timer = "none"
    /\ signal_result = FALSE
    /\ tatonnement_timeout = FALSE
    /\ cancel_timeout = FALSE
    /\ main = "prepare"
    /\ rerun = FALSE
    /\ prices = PricesOf(0, Main)
    /\ use_lower_bound = FALSE
    /\ block = 0
    /\ query = 0
    /\ ended_by = Nobody

-------------------------------------------------------------------------------
\* The worker threads.

\* Mutant: the worker that wakes up is not counted.
JoinUncounted(t) ==
    /\ worker[t].at = "waiting"
    /\ ~done_tatonnement_flag
    /\ ~kill_threads_flag
    /\ worker' = [worker EXCEPT ![t] = [at |-> "searching",
                                        prices |-> internal_shared_price_workspace]]
    /\ UNCHANGED <<oracleVars, timerVars, mainVars, ended_by>>

\* start_cv.wait returns, the worker copies the start prices and goes searching.
JoinSearch(t) ==
    /\ worker[t].at = "waiting"
    /\ ~done_tatonnement_flag
    /\ ~kill_threads_flag
    /\ worker' = [worker EXCEPT ![t] = [at |-> "searching",
                                        prices |-> internal_shared_price_workspace]]
    /\ num_active_threads' = num_active_threads + 1
    /\ UNCHANGED <<done_tatonnement_flag, timeout_happened, results_ready, kill_threads_flag,
                   internal_shared_price_workspace, timerVars, mainVars, ended_by>>

\* start_cv.wait returns because the oracle is being destroyed.
ExitThread(t) ==
    /\ worker[t].at = "waiting"
    /\ kill_threads_flag
    /\ worker' = [worker EXCEPT ![t].at = "exited"]
    /\ UNCHANGED <<oracleVars, timerVars, mainVars, ended_by>>

\* The prices clear the market: exchange the flag; only the first to raise it has won.
FindEquilibrium(t) ==
    /\ Searching(t)
    /\ done_tatonnement_flag' = TRUE
    /\ worker' = [worker EXCEPT ![t] =
            [at     |-> IF done_tatonnement_flag THEN "lost" ELSE "won",
             prices |-> PricesOf(@.prices.query, t)]]
    /\ ended_by' = IF done_tatonnement_flag THEN ended_by ELSE t
    /\ UNCHANGED <<timeout_happened, num_active_threads, results_ready, kill_threads_flag,
                   internal_shared_price_workspace, timerVars, mainVars>>

\* Mutant: a search that only ends when it finds an equilibrium of its own.
NeverSeeOtherFinisher(t) == FALSE

\* Every so many rounds a worker looks whether somebody else has finished.
SeeOtherFinisher(t) ==
    /\ Searching(t)
    /\ done_tatonnement_flag
    /\ worker' = [worker EXCEPT ![t] = [at |-> "lost", prices |-> PricesOf(@.prices.query, t)]]
    /\ UNCHANGED <<oracleVars, timerVars, mainVars, ended_by>>

\* Mutant: the timeout makes every worker publish.
PublishesOnTimeout(t) == worker[t].at = "won" \/ timeout_happened

\* Mutant: the timeout makes nobody publish.
PublishesIfWon(t) == worker[t].at = "won"

Publishes(t) ==
    \/ worker[t].at = "won"
    \/ timeout_happened /\ t = TimeoutWorker

\* Back from the search, under mtx: publish or not, wake whoever waits on finished_cv.
LeaveSearch(t) ==
    /\ worker[t].at \in {"won", "lost"}
    /\ num_active_threads' = num_active_threads - 1
    /\ internal_shared_price_workspace' =
            IF Publishes(t) THEN worker[t].prices ELSE internal_shared_price_workspace
    /\ results_ready' = (results_ready \/ Publishes(t))
    /\ worker' = [worker EXCEPT ![t].at = "waiting"]
    /\ UNCHANGED <<done_tatonnement_flag, timeout_happened, kill_threads_flag, timerVars,
                   mainVars, ended_by>>

-------------------------------------------------------------------------------
\* The timeout thread of one query.

\* One of its ten naps is over and the search is cancelled.
TimerCancelled ==
    /\ timer = "sleeping"
    /\ cancel_timeout
    /\ timer' = "none"
    /\ UNCHANGED <<oracleVars, worker, signal_result, tatonnement_timeout, mainVars, ended_by>>

\* The last nap is over and the search was not cancelled when it looked.
TimerDue ==
    /\ timer = "sleeping"
    /\ ~cancel_timeout
    /\ timer' = "due"
    /\ UNCHANGED <<oracleVars, worker, signal_result, tatonnement_timeout, mainVars, ended_by>>

\* Mutant: reports a timeout whether or not the search was already over.
SignalAlways ==
    /\ timer = "due"
    /\ timer' = "signalled"
    /\ done_tatonnement_flag' = TRUE
    /\ timeout_happened' = TRUE
    /\ signal_result' = TRUE
    /\ ended_by' = IF done_tatonnement_flag THEN ended_by ELSE Timer
    /\ UNCHANGED <<num_active_threads, results_ready, kill_threads_flag,
                   internal_shared_price_workspace, worker, tatonnement_timeout, mainVars>>

signal_grid_search_timeout ==
    /\ timer = "due"
    /\ timer' = "signalled"
    /\ done_tatonnement_flag' = TRUE
    /\ timeout_happened' = (timeout_happened \/ ~done_tatonnement_flag)
    /\ signal_result' = ~done_tatonnement_flag
    /\ ended_by' = IF done_tatonnement_flag THEN ended_by ELSE Timer
    /\ UNCHANGED <<num_active_threads, results_ready, kill_threads_flag,
                   internal_shared_price_workspace, worker, tatonnement_timeout, mainVars>>

\* The assignment to timeout_happened_flag, after the critical section, and the end of the thread.
TimerStores ==
    /\ timer = "signalled"
    /\ tatonnement_timeout' = signal_result
    /\ timer' = "none"
    /\ UNCHANGED <<oracleVars, worker, signal_result, mainVars, ended_by>>

-------------------------------------------------------------------------------
\* The main thread: edce_block_creation_logic.

\* commit_for_production regenerates the indexes the workers search in; the timer is launched.
StartBlock ==
    /\ main = "prepare"
    /\ block < NumBlocks
    /\ block' = block + 1
    /\ rerun' = FALSE
    /\ timer' = "sleeping"
    /\ tatonnement_timeout' = FALSE
    /\ cancel_timeout' = FALSE
    /\ main' = "write"
    /\ UNCHANGED <<oracleVars, worker, signal_result, prices, use_lower_bound, query, ended_by>>

\* compute_prices_grid_search writes its inputs without a lock.
WriteInputs ==
    /\ main = "write"
    /\ query' = query + 1
    /\ internal_shared_price_workspace' = PricesOf(query', Main)
    /\ main' = "start"
    /\ UNCHANGED <<done_tatonnement_flag, timeout_happened, num_active_threads, results_ready,
                   kill_threads_flag, worker, timerVars, rerun, prices, use_lower_bound, block,
                   cancel_timeout, ended_by>>

\* Mutant: the timeout of the query before stays in force.
StartKeepingTimeout ==
    /\ main = "start"
    /\ done_tatonnement_flag' = FALSE
    /\ results_ready' = FALSE
    /\ ended_by' = Nobody
    /\ main' = "finish"
    /\ UNCHANGED <<timeout_happened, num_active_threads, kill_threads_flag,
                   internal_shared_price_workspace, worker, timerVars, rerun, prices,
                   use_lower_bound, block, query, cancel_timeout>>

\* Mutant: the results of the query before stay ready.
StartKeepingResults ==
    /\ main = "start"
    /\ done_tatonnement_flag' = FALSE
    /\ timeout_happened' = FALSE
    /\ ended_by' = Nobody
    /\ main' = "finish"
    /\ UNCHANGED <<num_active_threads, results_ready, kill_threads_flag,
                   internal_shared_price_workspace, worker, timerVars, rerun, prices,
                   use_lower_bound, block, query, cancel_timeout>>

start_tatonnement_query ==
    /\ main = "start"
    /\ done_tatonnement_flag' = FALSE
    /\ results_ready' = FALSE
    /\ timeout_happened' = FALSE
    /\ ended_by' = Nobody
    /\ main' = "finish"
    /\ UNCHANGED <<num_active_threads, kill_threads_flag, internal_shared_price_workspace,
                   worker, timerVars, rerun, prices, use_lower_bound, block, query,
                   cancel_timeout>>

finish_tatonnement_query ==
    /\ main = "finish"
    /\ results_ready
    /\ main' = "copy"
    /\ UNCHANGED <<oracleVars, worker, timerVars, rerun, prices, use_lower_bound, block, query,
                   cancel_timeout, ended_by>>

\* Copy the prices out, again without a lock.  Only the first query cancels its timer.
CopyPrices ==
    /\ main = "copy"
    /\ prices' = internal_shared_price_workspace
    /\ cancel_timeout' = (cancel_timeout \/ ~rerun)
    /\ main' = "decide"
    /\ UNCHANGED <<oracleVars, worker, timerVars, rerun, use_lower_bound, block, query, ended_by>>

\* Read whether there was a timeout; if the first query timed out, a second one is made.
ReadTimeout ==
    /\ main = "decide"
    /\ use_lower_bound' = ~tatonnement_timeout
    /\ main' = IF ~rerun /\ tatonnement_timeout THEN "wait_rerun" ELSE "clear"
    /\ UNCHANGED <<oracleVars, worker, timerVars, rerun, prices, block, query, cancel_timeout,
                   ended_by>>

\* Mutant: go on without waiting.
AnyThreadsIdle == TRUE

\* wait_for_all_tatonnement_threads returns.
AllThreadsIdle == num_active_threads = 0

WaitBeforeRerun ==
    /\ main = "wait_rerun"
    /\ AllThreadsIdle
    /\ main' = "join_rerun"
    /\ UNCHANGED <<oracleVars, worker, timerVars, rerun, prices, use_lower_bound, block, query,
                   cancel_timeout, ended_by>>

\* Join the timer, reset both flags, launch a timer for the second query.
RelaunchTimer ==
    /\ main = "join_rerun"
    /\ timer = "none"
    /\ timer' = "sleeping"
    /\ tatonnement_timeout' = FALSE
    /\ cancel_timeout' = FALSE
    /\ rerun' = TRUE
    /\ main' = "write"
    /\ UNCHANGED <<oracleVars, worker, signal_result, prices, use_lower_bound, block, query,
                   ended_by>>

\* Clear the offers, check and commit the database, insert the header.  The two checks that throw
\* end the process, since the timer is still joinable.
ClearOffers ==
    /\ main = "clear"
    /\ main' = "wait"
    /\ UNCHANGED <<oracleVars, worker, timerVars, rerun, prices, use_lower_bound, block, query,
                   cancel_timeout, ended_by>>

WaitAtEnd ==
    /\ main = "wait"
    /\ AllThreadsIdle
    /\ main' = "join"
    /\ UNCHANGED <<oracleVars, worker, timerVars, rerun, prices, use_lower_bound, block, query,
                   cancel_timeout, ended_by>>

JoinTimer ==
    /\ main = "join"
    /\ timer = "none"
    /\ main' = IF block = NumBlocks THEN "destroy" ELSE "prepare"
    /\ UNCHANGED <<oracleVars, worker, timerVars, rerun, prices, use_lower_bound, block, query,
                   cancel_timeout, ended_by>>

\* end_tatonnement_threads: raise the flags, then join every worker.
EndThreads ==
    /\ main = "destroy"
    /\ ~kill_threads_flag
    /\ kill_threads_flag' = TRUE
    /\ done_tatonnement_flag' = TRUE
    /\ UNCHANGED <<timeout_happened, num_active_threads, results_ready,
                   internal_shared_price_workspace, worker, timerVars, mainVars, ended_by>>

JoinThreads ==
    /\ main = "destroy"
    /\ kill_threads_flag
    /\ \A t \in Workers : worker[t].at = "exited"
    /\ main' = "destroyed"
    /\ UNCHANGED <<oracleVars, worker, timerVars, rerun, prices, use_lower_bound, block, query,
                   cancel_timeout, ended_by>>

\* The oracle is gone: nothing happens any more.
Destroyed == main = "destroyed" /\ UNCHANGED vars

-------------------------------------------------------------------------------
MainStep ==
    \/ StartBlock \/ WriteInputs \/ start_tatonnement_query \/ finish_tatonnement_query
    \/ CopyPrices \/ ReadTimeout \/ WaitBeforeRerun \/ RelaunchTimer \/ ClearOffers
    \/ WaitAtEnd \/ JoinTimer \/ EndThreads \/ JoinThreads

TimerStep == TimerCancelled \/ TimerDue \/ signal_grid_search_timeout \/ TimerStores

\* What a worker does whether or not it finds an equilibrium.
WorkerStep(t) == ExitThread(t) \/ SeeOtherFinisher(t) \/ LeaveSearch(t)

Next ==
    \/ MainStep
    \/ TimerStep
    \/ \E t \in Workers : WorkerStep(t) \/ JoinSearch(t) \/ FindEquilibrium(t)
    \/ Destroyed

Spec == Init /\ [][Next]_vars

\* Threads that can run do run.  A search need never find an equilibrium, and a worker may sleep
\* through a whole query; TimeoutWorker wakes up eventually, if the query waits for it.
FairSpec ==
    /\ Spec
    /\ WF_vars(MainStep)
    /\ WF_vars(TimerStep)
    /\ \A t \in Workers : WF_vars(WorkerStep(t))
    /\ WF_vars(JoinSearch(TimeoutWorker))

-------------------------------------------------------------------------------
\* Properties.

\* The inputs of a query and the indexes of the orderbooks are written without a lock
\* (tatonnement_oracle.cc:526-540, commit_for_production); no worker may still be searching in
\* them then.
NoSearchDuringSetup ==
    main \in {"prepare", "write", "start"} => \A t \in Workers : ~Active(t)

\* The prices main copied out answer the query it asked: they were computed in this query, by the
\* winner of the search or, after a timeout, by the worker kept for that case.
PricesAnswerQuery ==
    main = "decide" =>
        /\ prices.query = query
        /\ prices.by = IF ended_by = Timer THEN TimeoutWorker ELSE ended_by

\* Once results are ready nobody overwrites them until the next query is set up, although main
\* reads them without the lock.
PublishedOnce ==
    [][results_ready /\ results_ready' /\ query' = query
          => internal_shared_price_workspace' = internal_shared_price_workspace]_vars

\* A timeout main believes in really ended the search: it never drops the lower bounds of the
\* linear program (edce.cc:567-570) for prices that clear the market.
TimeoutBelievedIsReal ==
    main \in {"clear", "wait_rerun"} /\ ~use_lower_bound => ended_by = Timer

\* The flag main reads says whether the timeout ended the search ("return true iff timeout causes
\* tatonnement end", tatonnement_oracle.h:178).
TimeoutReported ==
    main = "decide" => (tatonnement_timeout <=> ended_by = Timer)

\* The timer expired before the query began, or before TimeoutWorker had woken up for it: then
\* nobody need ever publish.  The 2 seconds of the timer are what rules it out.
TimerTooEarly ==
    /\ main = "finish"
    /\ timer = "none"
    /\ \/ ended_by = Nobody
       \/ ended_by = Timer /\ worker[TimeoutWorker].prices.query # query

\* compute_prices_grid_search returns whether or not an equilibrium is found, unless the timer
\* comes too early: if nobody finds one, the timeout makes TimeoutWorker publish.
QueriesAnswered == main = "write" ~> main \in {"clear", "wait_rerun"} \/ TimerTooEarly

\* edce_block_creation_logic returns once it has prices: every worker leaves its search, and the
\* timer can be joined.
BlocksFinish == main = "clear" ~> main \in {"prepare", "destroyed"}
=============================================================================
