----------------------------- MODULE DemandOracle -----------------------------
(***************************************************************************)
(* ParallelDemandOracle (parallel_demand_oracle.h): the helper threads of  *)
(* one worker of the grid search.  The work units are divided between the  *)
(* caller and the helpers; in every round each computes the demand of its  *)
(* share and the caller adds the shares up.                                *)
(*                                                                         *)
(* Between activate_oracle and deactivate_oracle a helper spins on two     *)
(* flags while it holds its mutex, and the rounds are handed back and      *)
(* forth through flags that are loaded and reset in two separate           *)
(* operations.  Loads and stores are sequentially consistent here: each    *)
(* flag is paired with the fences that make it so.                         *)
(*                                                                         *)
(* Demand is abstracted to which work units it covers and at which round's *)
(* prices it was computed.                                                 *)
(***************************************************************************)
EXTENDS Naturals, Bags, FiniteSets

CONSTANTS
    NumHelpers,      \* NUM_WORKERS
    MaxWorkUnits,    \* the numbers of work units considered
    MaxQueries,      \* queries of the grid search (bound)
    MaxRounds        \* rounds in a query (bound)

ASSUME BoundsAssumption ==
    /\ NumHelpers \in Nat \ {0}
    /\ MaxWorkUnits \in Nat
    /\ MaxQueries \in Nat
    /\ MaxRounds \in Nat \ {0}

Helpers == 0 .. NumHelpers - 1

VARIABLES
    num_work_units,
    caller,          \* where the calling thread is
    at_worker,       \* the worker its loop is at
    round,           \* rounds started: names the prices of each
    first_round,     \* the first round of this query
    num_queries,
    total,           \* the caller's supplies and demands
    helper,          \* where each helper is
    round_start, tatonnement_round_flag, sleep_flag, round_done_flag, done_flag,
    query_prices,    \* the round whose prices a helper was given
    demands          \* the supplies and demands of each helper

flagVars   == <<round_start, tatonnement_round_flag, sleep_flag, round_done_flag, done_flag>>
callerVars == <<num_work_units, caller, at_worker, round, first_round, num_queries, total>>
vars == <<callerVars, helper, flagVars, query_prices, demands>>

-------------------------------------------------------------------------------
\* The division of the work units.

NumShares == NumHelpers + 1

CallerShare == 0 .. (num_work_units \div NumShares) - 1

\* Mutant: the last share ends where it starts when the division has a remainder.
EvenShare(w) ==
    (num_work_units \div NumShares) * (w + 1) .. (num_work_units \div NumShares) * (w + 2) - 1

\* Mutant: the end of a share is part of it.
InclusiveShare(w) ==
    (num_work_units * (w + 1)) \div NumShares .. (num_work_units * (w + 2)) \div NumShares

HelperShare(w) ==
    (num_work_units * (w + 1)) \div NumShares .. (num_work_units * (w + 2)) \div NumShares - 1

\* calculate_demands_and_supplies for every unit of a share, at the prices of a round.
DemandOf(share, r) == SetToBag({<<u, r>> : u \in share})

-------------------------------------------------------------------------------
TypeOK ==
    /\ num_work_units \in 0 .. MaxWorkUnits
    /\ caller \in {"outside", "activating", "signalling", "computing", "collecting", "resetting",
                   "returned", "deactivating", "waiting", "ending", "ended"}
    /\ at_worker \in Helpers
    /\ round \in 0 .. MaxQueries * MaxRounds
    /\ first_round \in 0 .. MaxQueries * MaxRounds
    /\ num_queries \in 0 .. MaxQueries
    /\ IsABag(total)
    /\ helper \in [Helpers -> {"asleep", "spinning", "taking", "clearing", "computing",
                               "dozing", "exited"}]
    /\ round_start \in [Helpers -> BOOLEAN]
    /\ tatonnement_round_flag \in [Helpers -> BOOLEAN]
    /\ sleep_flag \in [Helpers -> BOOLEAN]
    /\ round_done_flag \in [Helpers -> BOOLEAN]
    /\ done_flag \in [Helpers -> BOOLEAN]
    /\ query_prices \in [Helpers -> 0 .. MaxQueries * MaxRounds]
    /\ demands = [w \in Helpers |-> demands[w]]
    /\ \A w \in Helpers :
          /\ IsABag(demands[w])
          /\ DOMAIN demands[w] \subseteq (0 .. num_work_units - 1) \X (1 .. MaxQueries * MaxRounds)

Init ==
    /\ num_work_units \in 0 .. MaxWorkUnits
    /\ caller = "outside"
    /\ at_worker = 0
    /\ round = 0
    /\ first_round = 0
    /\ num_queries = 0
    /\ total = EmptyBag
    /\ helper = [w \in Helpers |-> "asleep"]
    /\ round_start = [w \in Helpers |-> FALSE]
    /\ tatonnement_round_flag = [w \in Helpers |-> FALSE]
    /\ sleep_flag = [w \in Helpers |-> FALSE]
    /\ round_done_flag = [w \in Helpers |-> FALSE]
    /\ done_flag = [w \in Helpers |-> FALSE]
    /\ query_prices = [w \in Helpers |-> 0]
    /\ demands = [w \in Helpers |-> EmptyBag]

\* A helper holds its mutex unless it waits on its condition variable or has exited.
HoldsMutex(w) == helper[w] \notin {"asleep", "exited"}

-------------------------------------------------------------------------------
\* The caller.  Its loops visit the workers in order.

LoopOver(from, to) ==
    /\ caller = from
    /\ caller' = IF at_worker + 1 = NumHelpers THEN to ELSE from
    /\ at_worker' = (at_worker + 1) % NumHelpers

\* grid_search_tatonnement_query begins, and activates the oracle.
BeginQuery ==
    /\ caller = "outside"
    /\ num_queries < MaxQueries
    /\ num_queries' = num_queries + 1
    /\ first_round' = round + 1
    /\ caller' = "activating"
    /\ UNCHANGED <<num_work_units, at_worker, round, total, helper, flagVars, query_prices, demands>>

activate_worker ==
    /\ ~HoldsMutex(at_worker)
    /\ round_start' = [round_start EXCEPT ![at_worker] = TRUE]
    /\ LoopOver("activating", "returned")
    /\ UNCHANGED <<num_work_units, round, first_round, num_queries, total, helper,
                   tatonnement_round_flag, sleep_flag, round_done_flag, done_flag, query_prices, demands>>

\* get_supply_demand is called with cleared totals and the prices of a new round.
BeginRound ==
    /\ caller = "returned"
    /\ round < first_round - 1 + MaxRounds
    /\ round' = round + 1
    /\ total' = EmptyBag
    /\ caller' = "signalling"
    /\ UNCHANGED <<num_work_units, at_worker, first_round, num_queries, helper, flagVars,
                   query_prices, demands>>

signal_round_start ==
    /\ LoopOver("signalling", "computing")
    /\ query_prices' = [query_prices EXCEPT ![at_worker] = round]
    /\ tatonnement_round_flag' = [tatonnement_round_flag EXCEPT ![at_worker] = TRUE]
    /\ UNCHANGED <<num_work_units, round, first_round, num_queries, total, helper,
                   round_start, sleep_flag, round_done_flag, done_flag, demands>>

ComputeOwnShare ==
    /\ caller = "computing"
    /\ total' = total (+) DemandOf(CallerShare, round)
    /\ caller' = "collecting"
    /\ UNCHANGED <<num_work_units, at_worker, round, first_round, num_queries, helper, flagVars,
                   query_prices, demands>>

\* Mutant: goes on to the results without waiting for the flag.
SeeAnyRoundDone ==
    /\ caller = "collecting"
    /\ caller' = "resetting"
    /\ UNCHANGED <<num_work_units, at_worker, round, first_round, num_queries, total, helper,
                   flagVars, query_prices, demands>>

\* wait_for_compute_done_and_get_results: the load that sees the flag.
SeeRoundDone ==
    /\ caller = "collecting"
    /\ round_done_flag[at_worker]
    /\ caller' = "resetting"
    /\ UNCHANGED <<num_work_units, at_worker, round, first_round, num_queries, total, helper,
                   flagVars, query_prices, demands>>

\* The store that resets it; then the results are added up.
CollectResults ==
    /\ caller = "resetting"
    /\ round_done_flag' = [round_done_flag EXCEPT ![at_worker] = FALSE]
    /\ total' = total (+) demands[at_worker]
    /\ caller' = IF at_worker + 1 = NumHelpers THEN "returned" ELSE "collecting"
    /\ at_worker' = (at_worker + 1) % NumHelpers
    /\ UNCHANGED <<num_work_units, round, first_round, num_queries, helper,
                   round_start, tatonnement_round_flag, sleep_flag, done_flag, query_prices, demands>>

\* The search ends, after at least the round before its loop; the oracle is deactivated.
EndQuery ==
    /\ caller = "returned"
    /\ round >= first_round
    /\ caller' = "deactivating"
    /\ UNCHANGED <<num_work_units, at_worker, round, first_round, num_queries, total, helper,
                   flagVars, query_prices, demands>>

deactivate_worker ==
    /\ LoopOver("deactivating", "outside")
    /\ sleep_flag' = [sleep_flag EXCEPT ![at_worker] = TRUE]
    /\ UNCHANGED <<num_work_units, round, first_round, num_queries, total, helper,
                   round_start, tatonnement_round_flag, round_done_flag, done_flag, query_prices, demands>>

\* The destructors, from the last worker to the first: wait until a helper has nothing to do,
\* then end its thread.
BeginDestruction ==
    /\ caller = "outside"
    /\ num_queries = MaxQueries
    /\ caller' = "waiting"
    /\ at_worker' = NumHelpers - 1
    /\ UNCHANGED <<num_work_units, round, first_round, num_queries, total, helper,
                   flagVars, query_prices, demands>>

wait_for_async_task ==
    /\ caller = "waiting"
    /\ ~HoldsMutex(at_worker)
    /\ ~round_start[at_worker]
    /\ caller' = "ending"
    /\ UNCHANGED <<num_work_units, at_worker, round, first_round, num_queries, total, helper,
                   flagVars, query_prices, demands>>

end_async_thread ==
    /\ caller = "ending"
    /\ ~HoldsMutex(at_worker)
    /\ done_flag' = [done_flag EXCEPT ![at_worker] = TRUE]
    /\ caller' = IF at_worker = 0 THEN "ended" ELSE "waiting"
    /\ at_worker' = IF at_worker = 0 THEN 0 ELSE at_worker - 1
    /\ UNCHANGED <<num_work_units, round, first_round, num_queries, total, helper,
                   round_start, tatonnement_round_flag, sleep_flag, round_done_flag, query_prices, demands>>

-------------------------------------------------------------------------------
\* The helper threads: DemandOracleWorker::run.

Goes(w, from, to) ==
    /\ helper[w] = from
    /\ helper' = [helper EXCEPT ![w] = to]
    /\ UNCHANGED <<callerVars, query_prices>>

\* cv.wait returns because of round_start.
WakeUp(w) ==
    /\ ~done_flag[w]
    /\ round_start[w]
    /\ round_start' = [round_start EXCEPT ![w] = FALSE]
    /\ Goes(w, "asleep", "spinning")
    /\ UNCHANGED <<tatonnement_round_flag, sleep_flag, round_done_flag, done_flag, demands>>

Exit(w) ==
    /\ done_flag[w]
    /\ Goes(w, "asleep", "exited")
    /\ UNCHANGED <<flagVars, demands>>

\* spinlock: the load that sees tatonnement_round_flag, and the store that resets it.
SeeRoundStart(w) ==
    /\ tatonnement_round_flag[w]
    /\ Goes(w, "spinning", "taking")
    /\ UNCHANGED <<flagVars, demands>>

\* Mutant: the flag is not reset, so that the helper computes again after it is done.
TakeRoundKeepingFlag(w) ==
    /\ Goes(w, "taking", "clearing")
    /\ UNCHANGED <<flagVars, demands>>

TakeRound(w) ==
    /\ tatonnement_round_flag' = [tatonnement_round_flag EXCEPT ![w] = FALSE]
    /\ Goes(w, "taking", "clearing")
    /\ UNCHANGED <<round_start, sleep_flag, round_done_flag, done_flag, demands>>

\* spinlock: the loads that see no new round but sleep_flag.
SeeSleep(w) ==
    /\ ~tatonnement_round_flag[w]
    /\ sleep_flag[w]
    /\ Goes(w, "spinning", "dozing")
    /\ UNCHANGED <<flagVars, demands>>

\* Mutant: the helper goes to sleep and leaves the flag up for the query after.
FallAsleepKeepingFlag(w) ==
    /\ Goes(w, "dozing", "asleep")
    /\ UNCHANGED <<flagVars, demands>>

\* The store that resets it; then the helper notifies and waits on its condition variable.
FallAsleep(w) ==
    /\ sleep_flag' = [sleep_flag EXCEPT ![w] = FALSE]
    /\ Goes(w, "dozing", "asleep")
    /\ UNCHANGED <<round_start, tatonnement_round_flag, round_done_flag, done_flag, demands>>

\* The supplies and demands of the round before are set to zero.
ClearDemands(w) ==
    /\ demands' = [demands EXCEPT ![w] = EmptyBag]
    /\ Goes(w, "clearing", "computing")
    /\ UNCHANGED flagVars

\* get_supply_demand, then signal_round_compute_done.
ComputeShare(w) ==
    /\ demands' = [demands EXCEPT ![w] = @ (+) DemandOf(HelperShare(w), query_prices[w])]
    /\ round_done_flag' = [round_done_flag EXCEPT ![w] = TRUE]
    /\ Goes(w, "computing", "spinning")
    /\ UNCHANGED <<round_start, tatonnement_round_flag, sleep_flag, done_flag>>

-------------------------------------------------------------------------------
CallerStep ==
    \/ BeginQuery \/ activate_worker \/ BeginRound \/ signal_round_start \/ ComputeOwnShare
    \/ SeeRoundDone \/ CollectResults \/ EndQuery \/ deactivate_worker
    \/ BeginDestruction \/ wait_for_async_task \/ end_async_thread

HelperStep(w) ==
    \/ WakeUp(w) \/ Exit(w) \/ SeeRoundStart(w) \/ TakeRound(w) \/ SeeSleep(w)
    \/ FallAsleep(w) \/ ClearDemands(w) \/ ComputeShare(w)

\* Everything is over.
Ended ==
    /\ caller = "ended"
    /\ \A w \in Helpers : helper[w] = "exited"
    /\ UNCHANGED vars

Next == CallerStep \/ (\E w \in Helpers : HelperStep(w)) \/ Ended

Spec == Init /\ [][Next]_vars

\* Every thread that can run does.
FairSpec == Spec /\ WF_vars(CallerStep) /\ \A w \in Helpers : WF_vars(HelperStep(w))

-------------------------------------------------------------------------------
\* Properties.

\* What get_supply_demand returns covers every work unit exactly once, at the prices of this
\* round: no share is lost, counted twice, or left over from the round or the query before.
RoundComplete ==
    caller = "returned" /\ round >= first_round
        => total = SetToBag({<<u, round>> : u \in 0 .. num_work_units - 1})

\* A round's prices are never replaced while a helper computes with them (query_prices is a
\* pointer into the caller's workspace, which it overwrites between rounds).
PricesStable ==
    caller \in {"returned", "deactivating", "outside"}
        => \A w \in Helpers : helper[w] \notin {"taking", "clearing", "computing"}

\* A helper that is told to sleep is asleep before the next query activates it, with none of its
\* flags left up, so that it does not leave that query at once.
CleanStart ==
    caller = "signalling" =>
        /\ \A w \in Helpers : ~sleep_flag[w]
        /\ \A w \in at_worker .. NumHelpers - 1 : ~round_done_flag[w]

\* The calls return and the threads end: nobody spins forever on a flag that was lost.
EverythingEnds == <>(caller = "ended" /\ \A w \in Helpers : helper[w] = "exited")
=============================================================================
