------------------------- MODULE DemandOracleProofs -------------------------
(***************************************************************************)
(* Proofs about DemandOracle, for every number of helpers, of work units,  *)
(* of queries and of rounds.                                               *)
(***************************************************************************)
EXTENDS DemandOracle, Integers, TLAPS

-----------------------------------------------------------------------------
\* The inductive invariant.  What a helper does and what its flags say are determined by the place
\* of the caller: every helper is in one of these six modes.

Flags(w, start, tatonnement_round, sleep, done) ==
    /\ round_start[w] = start
    /\ tatonnement_round_flag[w] = tatonnement_round
    /\ sleep_flag[w] = sleep
    /\ round_done_flag[w] = done

\* Not in a query.
Off(w) == helper[w] = "asleep" /\ Flags(w, FALSE, FALSE, FALSE, FALSE)

\* Told to sleep, and not yet asleep.
Leaving(w) == helper[w] \in {"spinning", "dozing"} /\ Flags(w, FALSE, FALSE, TRUE, FALSE)

\* In a query, between two rounds.
Awake(w) == helper[w] = "spinning" /\ Flags(w, FALSE, FALSE, FALSE, FALSE)
Ready(w) == Awake(w) \/ (helper[w] = "asleep" /\ Flags(w, TRUE, FALSE, FALSE, FALSE))

\* In a round: told of it, at work, or done.
Given(w) ==
    /\ \/ helper[w] = "asleep" /\ Flags(w, TRUE, TRUE, FALSE, FALSE)
       \/ helper[w] \in {"spinning", "taking"} /\ Flags(w, FALSE, TRUE, FALSE, FALSE)
    /\ query_prices[w] = round
AtWork(w) ==
    /\ helper[w] \in {"clearing", "computing"}
    /\ Flags(w, FALSE, FALSE, FALSE, FALSE)
    /\ query_prices[w] = round
    /\ helper[w] = "computing" => demands[w] = EmptyBag
Finished(w) ==
    /\ helper[w] = "spinning"
    /\ Flags(w, FALSE, FALSE, FALSE, TRUE)
    /\ demands[w] = DemandOf(HelperShare(w), round)

Out(w)     == Off(w) \/ Leaving(w)
InRound(w) == Given(w) \/ AtWork(w) \/ Finished(w)

\* The helpers that the caller's loop has visited, and those that it has not.
Visited == {w \in Helpers : w < at_worker}
ToVisit == {w \in Helpers : w >= at_worker}

HelperModes ==
    /\ caller = "outside" => \A w \in Helpers : Out(w)
    /\ caller = "activating" => (\A w \in Visited : Ready(w)) /\ (\A w \in ToVisit : Out(w))
    /\ caller = "returned" => \A w \in Helpers : Ready(w) /\ (round >= first_round => Awake(w))
    /\ caller = "signalling" => (\A w \in Visited : InRound(w)) /\ (\A w \in ToVisit : Ready(w))
    /\ caller = "computing" => \A w \in Helpers : InRound(w)
    /\ caller = "collecting" => (\A w \in Visited : Awake(w)) /\ (\A w \in ToVisit : InRound(w))
    /\ caller = "resetting" => /\ \A w \in Visited : Awake(w)
                               /\ \A w \in ToVisit : InRound(w)
                               /\ Finished(at_worker)
    /\ caller = "deactivating" => (\A w \in Visited : Out(w)) /\ (\A w \in ToVisit : Awake(w))

\* The destructors.
Destruction == {"waiting", "ending", "ended"}
DestructionInv ==
    /\ caller \notin Destruction => \A w \in Helpers : ~done_flag[w]
    /\ caller \in Destruction =>
          \A w \in Helpers : IF done_flag[w] THEN helper[w] \in {"asleep", "exited"} ELSE Out(w)

\* The caller is at the first worker when none of its loops runs.
LoopInv == caller \in {"outside", "returned", "computing"} => at_worker = 0

\* The rounds of a query.
RoundCount ==
    /\ round =< num_queries * MaxRounds
    /\ caller \notin {"outside"} \union Destruction =>
          /\ num_queries >= 1
          /\ 1 =< first_round
          /\ first_round - 1 =< (num_queries - 1) * MaxRounds
          /\ first_round - 1 =< round
    /\ caller \in {"signalling", "computing", "collecting", "resetting"} => round >= first_round
    /\ caller = "activating" => round < first_round

\* A helper's demands are nothing or those of its share.
DemandsInv ==
    \A w \in Helpers :
        \/ demands[w] = EmptyBag
        \/ \E r \in 1 .. MaxQueries * MaxRounds : demands[w] = DemandOf(HelperShare(w), r)

\* What the caller has added up: the work units before the share it is at.
ShareStart(k) == (num_work_units * (k + 1)) \div NumShares
UnitsBelow(n, r) == SetToBag({<<u, r>> : u \in 0 .. n - 1})
TotalInv ==
    /\ caller \in {"signalling", "computing"} => total = EmptyBag
    /\ caller \in {"collecting", "resetting"} => total = UnitsBelow(ShareStart(at_worker), round)

\* The invariant.
IInv ==
    /\ TypeOK /\ HelperModes /\ DestructionInv /\ LoopInv /\ RoundCount /\ DemandsInv /\ TotalInv
    /\ RoundComplete

-----------------------------------------------------------------------------
\* Arithmetic and bags.

\* Division by the number of shares is monotonic.
LEMMA DivMonotonic ==
    ASSUME NEW a \in Nat, NEW b \in Nat, a =< b, NEW n \in Nat \ {0}
    PROVE  a \div n \in Nat /\ b \div n \in Nat /\ a \div n =< b \div n
<1> DEFINE p == a \div n
           q == b \div n
<1>1. p \in Nat /\ q \in Nat
  BY Z3
<1>2. n * p =< a /\ b < n * q + n
  BY Z3
<1>3. CASE p > q
  <2>1. p >= q + 1
    BY <1>1, <1>3
  <2>2. n * p >= n * (q + 1)
    BY <1>1, <2>1, Z3
  <2>3. n * (q + 1) = n * q + n
    BY <1>1, Z3
  <2> QED BY <1>1, <1>2, <2>2, <2>3, Z3
<1> QED BY <1>1, <1>3

\* A multiple is divided without remainder.
LEMMA DivExact ==
    ASSUME NEW a \in Nat, NEW n \in Nat \ {0}
    PROVE  (a * n) \div n = a
  BY Z3

\* Multiplication is monotonic.
LEMMA TimesMonotonic ==
    ASSUME NEW m \in Nat, NEW i \in Nat, NEW j \in Nat, i =< j
    PROVE  m * i \in Nat /\ m * j \in Nat /\ m * i =< m * j
<1>1. j - i \in Nat /\ m * (j - i) \in Nat
  BY Z3
<1>2. m * j = m * i + m * (j - i)
  BY Z3
<1>3. m * i \in Nat /\ m * j \in Nat
  BY Z3
<1> QED BY <1>1, <1>2, <1>3

\* Where the caller's loop over the helpers goes.
LEMMA NextWorker ==
    ASSUME NEW k \in Helpers
    PROVE  (k + 1) % NumHelpers = IF k + 1 = NumHelpers THEN 0 ELSE k + 1
  BY BoundsAssumption, Z3 DEF Helpers

\* Sums of bags of disjoint sets.
LEMMA DisjointSum ==
    ASSUME NEW A, NEW B, A \cap B = {}
    PROVE  SetToBag(A) (+) SetToBag(B) = SetToBag(A \union B)
  BY DEF SetToBag, (+)

\* Nothing is added by an empty bag.
LEMMA EmptySum ==
    ASSUME NEW B
    PROVE  EmptyBag (+) SetToBag(B) = SetToBag(B)
  BY DEF EmptyBag, SetToBag, (+)

\* A sum of bags is a bag.
LEMMA BagSum ==
    ASSUME NEW A, NEW B, IsABag(A), IsABag(B)
    PROVE  IsABag(A (+) B)
  BY DEF IsABag, (+)

\* A set is a bag.
LEMMA BagOfSet == \A S : IsABag(SetToBag(S)) /\ DOMAIN SetToBag(S) = S
  BY DEF IsABag, SetToBag

\* The shares divide the work units.
LEMMA Shares ==
    ASSUME num_work_units \in Nat, NEW w \in Helpers
    PROVE  /\ ShareStart(w) \in Nat /\ ShareStart(w + 1) \in Nat
           /\ ShareStart(w) =< ShareStart(w + 1)
           /\ ShareStart(w + 1) =< num_work_units
           /\ HelperShare(w) = ShareStart(w) .. ShareStart(w + 1) - 1
           /\ HelperShare(w) \subseteq 0 .. num_work_units - 1
<1>1. NumShares \in Nat \ {0} /\ w \in Nat /\ w + 1 \in Nat /\ w + 2 \in Nat /\ w + 2 =< NumShares
  BY BoundsAssumption DEF NumShares, Helpers
<1> DEFINE a == num_work_units * (w + 1)
           b == num_work_units * (w + 2)
           c == num_work_units * NumShares
<1>2. a \in Nat /\ b \in Nat /\ c \in Nat /\ a =< b /\ b =< c
  BY <1>1, TimesMonotonic
<1>3. /\ a \div NumShares \in Nat /\ b \div NumShares \in Nat
      /\ a \div NumShares =< b \div NumShares
      /\ b \div NumShares =< c \div NumShares
  <2> HIDE DEF a, b, c
  <2> QED BY <1>1, <1>2, DivMonotonic
<1>4. c \div NumShares = num_work_units
  BY <1>1, DivExact
<1>5. ShareStart(w) = a \div NumShares /\ ShareStart(w + 1) = b \div NumShares
  <2>1. (w + 1) + 1 = w + 2
    BY <1>1
  <2> QED BY <2>1 DEF ShareStart
<1>6. HelperShare(w) = ShareStart(w) .. ShareStart(w + 1) - 1
  BY <1>5 DEF HelperShare
<1> HIDE DEF a, b, c
<1> QED BY <1>3, <1>4, <1>5, <1>6

\* The caller's share is what comes before the helpers', and the last helper's ends with the last
\* work unit.
LEMMA ShareEnds ==
    ASSUME num_work_units \in Nat
    PROVE  /\ CallerShare = 0 .. ShareStart(0) - 1
           /\ ShareStart(NumHelpers) = num_work_units
<1>1. NumShares \in Nat \ {0} /\ NumHelpers + 1 = NumShares
  BY BoundsAssumption DEF NumShares
<1>2. num_work_units * (0 + 1) = num_work_units
  OBVIOUS
<1>3. CallerShare = 0 .. ShareStart(0) - 1
  BY <1>2 DEF CallerShare, ShareStart
<1>4. ShareStart(NumHelpers) = num_work_units
  BY <1>1, DivExact DEF ShareStart
<1> QED BY <1>3, <1>4

\* Collecting the results of a helper moves the total on by its share.
LEMMA CollectedShare ==
    ASSUME num_work_units \in Nat, NEW w \in Helpers, NEW r
    PROVE  UnitsBelow(ShareStart(w), r) (+) DemandOf(HelperShare(w), r)
             = UnitsBelow(ShareStart(w + 1), r)
<1> DEFINE A == {<<u, r>> : u \in 0 .. ShareStart(w) - 1}
           B == {<<u, r>> : u \in HelperShare(w)}
<1>1. /\ ShareStart(w) \in Nat /\ ShareStart(w + 1) \in Nat
      /\ ShareStart(w) =< ShareStart(w + 1)
      /\ HelperShare(w) = ShareStart(w) .. ShareStart(w + 1) - 1
  BY Shares
<1>2. A \cap B = {}
  BY <1>1
<1>3. A \union B = {<<u, r>> : u \in 0 .. ShareStart(w + 1) - 1}
  BY <1>1
<1> QED BY <1>2, <1>3, DisjointSum DEF UnitsBelow, DemandOf

\* Demands of a share are of the right type.
LEMMA DemandsType ==
    ASSUME num_work_units \in Nat, NEW w \in Helpers, NEW d,
           \/ d = EmptyBag
           \/ \E r \in 1 .. MaxQueries * MaxRounds : d = DemandOf(HelperShare(w), r)
    PROVE  /\ IsABag(d)
           /\ DOMAIN d \subseteq (0 .. num_work_units - 1) \X (1 .. MaxQueries * MaxRounds)
<1>1. CASE d = EmptyBag
  BY <1>1, BagOfSet DEF EmptyBag
<1>2. ASSUME NEW r \in 1 .. MaxQueries * MaxRounds, d = DemandOf(HelperShare(w), r)
      PROVE  /\ IsABag(d)
             /\ DOMAIN d \subseteq (0 .. num_work_units - 1) \X (1 .. MaxQueries * MaxRounds)
  BY <1>2, BagOfSet, Shares DEF DemandOf
<1> QED BY <1>1, <1>2

\* The bounds of rounds and queries.
LEMMA Bounds ==
    ASSUME TypeOK, RoundCount
    PROVE  /\ num_work_units \in Nat /\ round \in Nat /\ first_round \in Nat /\ num_queries \in Nat
           /\ MaxQueries \in Nat /\ MaxRounds \in Nat \ {0} /\ NumHelpers \in Nat \ {0}
           /\ at_worker \in Nat /\ at_worker < NumHelpers
  BY BoundsAssumption DEF TypeOK, Helpers

-----------------------------------------------------------------------------
\* The invariant holds initially.
LEMMA Initially == Init => IInv
<1> SUFFICES ASSUME Init PROVE IInv
  OBVIOUS
<1> USE BoundsAssumption DEF Init
<1>1. 0 \in Helpers /\ 0 \in 0 .. MaxQueries * MaxRounds /\ 0 \in 0 .. MaxQueries
  BY DEF Helpers
<1>2. TypeOK
  BY <1>1, BagOfSet DEF TypeOK, EmptyBag
<1>3. HelperModes /\ DestructionInv /\ LoopInv
  BY DEF HelperModes, Out, Off, Flags, DestructionInv, LoopInv
<1>4. RoundCount /\ DemandsInv /\ TotalInv /\ RoundComplete
  BY DEF RoundCount, DemandsInv, TotalInv, RoundComplete
<1> QED BY <1>2, <1>3, <1>4 DEF IInv

-----------------------------------------------------------------------------
\* How a step moves the helpers between their modes.

Untouched(v) ==
    /\ helper'[v] = helper[v]
    /\ round_start'[v] = round_start[v]
    /\ tatonnement_round_flag'[v] = tatonnement_round_flag[v]
    /\ sleep_flag'[v] = sleep_flag[v]
    /\ round_done_flag'[v] = round_done_flag[v]
    /\ query_prices'[v] = query_prices[v]
    /\ demands'[v] = demands[v]

\* The modes of a helper that a step leaves alone.
LEMMA ModesKept ==
    ASSUME NEW v \in Helpers, Untouched(v), num_work_units' = num_work_units
    PROVE  /\ Off(v) => Off(v)'
           /\ Out(v) => Out(v)'
           /\ Awake(v) => Awake(v)'
           /\ Ready(v) => Ready(v)'
           /\ round' = round => (InRound(v) => InRound(v)') /\ (Finished(v) => Finished(v)')
<1>1. /\ Off(v) => Off(v)'
      /\ Leaving(v) => Leaving(v)'
      /\ Awake(v) => Awake(v)'
      /\ Ready(v) => Ready(v)'
  BY DEF Untouched, Off, Leaving, Awake, Ready, Flags
<1>2. ASSUME round' = round
      PROVE  (Given(v) => Given(v)') /\ (AtWork(v) => AtWork(v)') /\ (Finished(v) => Finished(v)')
  BY <1>2 DEF Untouched, Given, AtWork, Finished, Flags, DemandOf, HelperShare
<1> QED BY <1>1, <1>2 DEF Out, InRound

\* A step of a helper keeps it in a query or out of it, and in its round until it is done.
LEMMA HelperMoves ==
    ASSUME TypeOK, NEW w \in Helpers, HelperStep(w), ~done_flag[w]
    PROVE  /\ Out(w) => Out(w)'
           /\ Awake(w) => Awake(w)'
           /\ Ready(w) => Ready(w)'
           /\ InRound(w) => InRound(w)'
           /\ Finished(w) => Finished(w)'
<1> USE DEF TypeOK, Goes, callerVars, flagVars, Flags, Out, Off, Leaving, Awake, Ready, InRound,
            Given, AtWork, Finished
<1>1. CASE WakeUp(w)
  BY <1>1 DEF WakeUp, DemandOf, HelperShare
<1>2. CASE Exit(w)
  BY <1>2 DEF Exit
<1>3. CASE SeeRoundStart(w)
  BY <1>3 DEF SeeRoundStart
<1>4. CASE TakeRound(w)
  BY <1>4 DEF TakeRound
<1>5. CASE SeeSleep(w)
  BY <1>5 DEF SeeSleep
<1>6. CASE FallAsleep(w)
  BY <1>6 DEF FallAsleep
<1>7. CASE ClearDemands(w)
  BY <1>7 DEF ClearDemands
<1>8. CASE ComputeShare(w)
  <2>1. EmptyBag (+) DemandOf(HelperShare(w), query_prices[w]) = DemandOf(HelperShare(w), query_prices[w])
    BY EmptySum DEF DemandOf
  <2>2. HelperShare(w)' = HelperShare(w)
    BY <1>8 DEF ComputeShare, HelperShare
  <2>3. ~(Out(w) \/ Awake(w) \/ Ready(w) \/ Finished(w) \/ Given(w))
    BY <1>8 DEF ComputeShare
  <2>4. AtWork(w) => Finished(w)'
    BY <1>8, <2>1, <2>2 DEF ComputeShare, DemandOf
  <2> QED BY <2>3, <2>4
<1> QED BY <1>1, <1>2, <1>3, <1>4, <1>5, <1>6, <1>7, <1>8 DEF HelperStep

\* The other helpers, and everything of the caller's, are left alone.
LEMMA OthersUntouched ==
    ASSUME TypeOK, NEW w \in Helpers, HelperStep(w)
    PROVE  /\ UNCHANGED <<callerVars, query_prices, done_flag>>
           /\ \A v \in Helpers \ {w} : Untouched(v)
  BY DEF HelperStep, WakeUp, Exit, SeeRoundStart, TakeRound, SeeSleep, FallAsleep, ClearDemands,
         ComputeShare, Goes, flagVars, Untouched, TypeOK

\* A helper that computes does so for the round that the caller waits for.
LEMMA ComputingIsAtWork ==
    ASSUME IInv, NEW w \in Helpers, helper[w] = "computing"
    PROVE  AtWork(w) /\ round \in 1 .. MaxQueries * MaxRounds
<1> USE DEF IInv
<1>1. ~(Out(w) \/ Ready(w) \/ Awake(w) \/ Given(w) \/ Finished(w))
  BY DEF Out, Off, Leaving, Ready, Awake, Given, Finished
<1>2. w \in Visited \/ w \in ToVisit
  BY DEF Visited, ToVisit, TypeOK, Helpers
<1>3. caller \notin Destruction
  BY <1>1 DEF DestructionInv
<1>4. caller \in {"signalling", "computing", "collecting", "resetting"} /\ InRound(w)
  BY <1>1, <1>2, <1>3 DEF HelperModes, TypeOK, Destruction
<1>5. round >= first_round /\ first_round >= 1
  BY <1>3, <1>4, Bounds DEF RoundCount
<1> QED BY <1>1, <1>4, <1>5, Bounds DEF InRound, TypeOK

\* The steps of the helpers.
LEMMA HelperStep_Preserves ==
    ASSUME IInv, NEW w \in Helpers, HelperStep(w)
    PROVE  IInv'
<1> USE Bounds DEF IInv
<1>1. /\ UNCHANGED <<callerVars, query_prices, done_flag>>
      /\ \A v \in Helpers \ {w} : Untouched(v)
  BY OthersUntouched
<1>2. UNCHANGED <<num_work_units, caller, at_worker, round, first_round, num_queries, total>>
  BY <1>1 DEF callerVars
<1>3. ASSUME NEW v \in Helpers, ~done_flag[v]
      PROVE  /\ Out(v) => Out(v)'
             /\ Awake(v) => Awake(v)'
             /\ Ready(v) => Ready(v)'
             /\ InRound(v) => InRound(v)'
             /\ Finished(v) => Finished(v)'
  BY <1>1, <1>2, <1>3, HelperMoves, ModesKept
<1>4. HelperModes'
  <2>1. CASE caller \in Destruction
    BY <1>2, <2>1 DEF HelperModes, Destruction
  <2>2. CASE caller \notin Destruction
    <3>1. \A v \in Helpers : ~done_flag[v]
      BY <2>2 DEF DestructionInv
    <3>2. Visited' = Visited /\ ToVisit' = ToVisit /\ Visited \subseteq Helpers /\ ToVisit \subseteq Helpers
      BY <1>2 DEF Visited, ToVisit
    <3>3. Finished(at_worker) => Finished(at_worker)'
      <4>1. at_worker \in Helpers
        BY DEF TypeOK
      <4>2. Finished(at_worker)' <=> \A v \in Helpers : v = at_worker => Finished(v)'
        BY <4>1, <1>2 DEF Finished, Flags, HelperShare
      <4> QED BY <4>1, <4>2, <3>1, <1>3
    <3> QED BY <1>2, <1>3, <3>1, <3>2, <3>3 DEF HelperModes
  <2> QED BY <2>1, <2>2
<1>5. DestructionInv'
  <2>1. done_flag[w] => helper'[w] \in {helper[w], "exited"} \/ helper[w] \notin {"asleep", "exited"}
    BY DEF HelperStep, WakeUp, Exit, SeeRoundStart, TakeRound, SeeSleep, FallAsleep, ClearDemands,
           ComputeShare, Goes, TypeOK
  <2>2. \A v \in Helpers \ {w} : helper'[v] = helper[v]
    BY <1>1 DEF Untouched
  <2> QED BY <1>1, <1>2, <1>3, <2>1, <2>2 DEF DestructionInv
<1>6. LoopInv' /\ RoundCount'
  BY <1>2 DEF LoopInv, RoundCount
<1>7. DemandsInv'
  <2>1. CASE ComputeShare(w)
    <3>1. demands[w] = EmptyBag /\ query_prices[w] = round /\ round \in 1 .. MaxQueries * MaxRounds
      BY <2>1, ComputingIsAtWork DEF ComputeShare, Goes, AtWork
    <3>2. demands'[w] = DemandOf(HelperShare(w), round)
      BY <2>1, <3>1, EmptySum DEF ComputeShare, DemandOf, TypeOK
    <3> QED BY <1>1, <1>2, <3>1, <3>2 DEF DemandsInv, Untouched, HelperShare, DemandOf
  <2>2. CASE ~ComputeShare(w)
    <3>1. demands'[w] \in {demands[w], EmptyBag}
      BY <2>2 DEF HelperStep, WakeUp, Exit, SeeRoundStart, TakeRound, SeeSleep, FallAsleep,
         ClearDemands, TypeOK
    <3> QED BY <1>1, <1>2, <3>1 DEF DemandsInv, Untouched, HelperShare, DemandOf
  <2> QED BY <2>1, <2>2
<1>8. TypeOK'
  <2>1. \A v \in Helpers :
          /\ IsABag(demands'[v])
          /\ DOMAIN demands'[v] \subseteq (0 .. num_work_units - 1) \X (1 .. MaxQueries * MaxRounds)
    BY <1>2, <1>7, DemandsType DEF DemandsInv, HelperShare, DemandOf
  <2>2. /\ helper' \in [Helpers -> {"asleep", "spinning", "taking", "clearing", "computing",
                                    "dozing", "exited"}]
        /\ round_start' \in [Helpers -> BOOLEAN]
        /\ tatonnement_round_flag' \in [Helpers -> BOOLEAN]
        /\ sleep_flag' \in [Helpers -> BOOLEAN]
        /\ round_done_flag' \in [Helpers -> BOOLEAN]
        /\ demands' = [v \in Helpers |-> demands'[v]]
    BY DEF HelperStep, WakeUp, Exit, SeeRoundStart, TakeRound, SeeSleep, FallAsleep, ClearDemands,
           ComputeShare, Goes, flagVars, TypeOK
  <2> QED BY <1>1, <1>2, <2>1, <2>2 DEF TypeOK
<1>9. TotalInv' /\ RoundComplete'
  BY <1>2 DEF TotalInv, RoundComplete, UnitsBelow, ShareStart
<1> QED BY <1>4, <1>5, <1>6, <1>7, <1>8, <1>9

-----------------------------------------------------------------------------
\* The steps of the caller.

\* Where a loop goes, and which helpers it has then visited.
LEMMA LoopFacts ==
    ASSUME TypeOK
    PROVE  LET k == (at_worker + 1) % NumHelpers
           IN /\ k \in Helpers
              /\ k = IF at_worker + 1 = NumHelpers THEN 0 ELSE at_worker + 1
              /\ at_worker' = k /\ k # 0
                    => /\ Visited' = Visited \union {at_worker}
                       /\ ToVisit' = ToVisit \ {at_worker}
              /\ k = 0 => Visited \union {at_worker} = Helpers
              /\ k # 0 => at_worker + 1 # NumHelpers
<1>1. at_worker \in Helpers /\ NumHelpers \in Nat \ {0}
  BY BoundsAssumption DEF TypeOK
<1>2. (at_worker + 1) % NumHelpers = IF at_worker + 1 = NumHelpers THEN 0 ELSE at_worker + 1
  BY <1>1, NextWorker
<1> HIDE DEF Helpers
<1>3. (at_worker + 1) % NumHelpers \in Helpers
  BY <1>1, <1>2 DEF Helpers
<1> QED BY <1>1, <1>2, <1>3 DEF Visited, ToVisit, Helpers

\* At the start of a loop nobody is visited.
LEMMA LoopStart ==
    /\ at_worker = 0 => Visited = {} /\ ToVisit = Helpers
    /\ at_worker' = 0 => Visited' = {} /\ ToVisit' = Helpers
  BY BoundsAssumption DEF Visited, ToVisit, Helpers

\* The caller is at some worker.
LEMMA AtWorker ==
    ASSUME TypeOK
    PROVE  /\ at_worker \in Helpers /\ at_worker \in ToVisit
           /\ Visited \subseteq Helpers \ {at_worker} /\ ToVisit \subseteq Helpers
           /\ Visited \union ToVisit = Helpers /\ Visited \cap ToVisit = {}
  BY BoundsAssumption DEF TypeOK, Visited, ToVisit, Helpers

\* A query begins with the helpers out, or still leaving the query before.
LEMMA BeginQuery_Preserves == IInv /\ BeginQuery => IInv'
<1> SUFFICES ASSUME IInv, BeginQuery PROVE IInv'
  OBVIOUS
<1> USE Bounds DEF IInv, BeginQuery, callerVars, flagVars
<1>1. TypeOK'
  <2>1. num_queries + 1 \in 0 .. MaxQueries /\ round + 1 \in 0 .. MaxQueries * MaxRounds
    <3>1. (num_queries + 1) * MaxRounds = num_queries * MaxRounds + MaxRounds
      BY Z3
    <3>2. MaxRounds * (num_queries + 1) =< MaxRounds * MaxQueries
      BY TimesMonotonic DEF TypeOK
    <3>3. MaxRounds * (num_queries + 1) = (num_queries + 1) * MaxRounds /\ MaxRounds * MaxQueries = MaxQueries * MaxRounds
      BY Z3
    <3> QED BY <3>1, <3>2, <3>3 DEF TypeOK, RoundCount
  <2> QED BY <2>1 DEF TypeOK
<1>2. HelperModes'
  <2>1. \A v \in Helpers : Untouched(v)
    BY DEF Untouched
  <2> QED BY <2>1, ModesKept, LoopStart DEF HelperModes, LoopInv
<1>3. DestructionInv' /\ LoopInv'
  BY LoopFacts DEF DestructionInv, LoopInv, LoopOver, Destruction, TypeOK
<1>4. RoundCount'
  <2>1. (num_queries + 1) * MaxRounds = num_queries * MaxRounds + MaxRounds /\ num_queries * MaxRounds \in Nat
    BY Z3
  <2>2. (num_queries + 1) - 1 = num_queries
    OBVIOUS
  <2> QED BY <2>1, <2>2 DEF RoundCount, Destruction
<1>5. DemandsInv'
  BY DEF DemandsInv, DemandOf, HelperShare
<1>6. TotalInv' /\ RoundComplete'
  BY DEF TotalInv, RoundComplete, RoundCount, UnitsBelow, ShareStart, LoopOver, TypeOK
<1> QED BY <1>1, <1>2, <1>3, <1>4, <1>5, <1>6

\* A helper is activated only when it sleeps, with all its flags reset.
LEMMA activate_worker_Preserves == IInv /\ activate_worker => IInv'
<1> SUFFICES ASSUME IInv, activate_worker PROVE IInv'
  OBVIOUS
<1> USE Bounds DEF IInv, activate_worker, callerVars, flagVars
<1>1. TypeOK'
  BY LoopFacts DEF TypeOK, LoopOver
<1>2. HelperModes'
  <2>1. \A v \in Helpers \ {at_worker} : Untouched(v)
    BY DEF Untouched, TypeOK
  <2>2. ~HoldsMutex(at_worker) /\ Out(at_worker) => Off(at_worker)
    BY DEF HoldsMutex, Out, Leaving
  <2>3. \A v \in Helpers : v = at_worker /\ Off(v) => Ready(v)'
    BY DEF Off, Ready, Flags, TypeOK
  <2> QED BY <2>1, <2>2, <2>3, ModesKept, AtWorker, LoopFacts, LoopStart DEF HelperModes, LoopOver, RoundCount
<1>3. DestructionInv' /\ LoopInv'
  BY LoopFacts DEF DestructionInv, LoopInv, LoopOver, Destruction, TypeOK
<1>4. RoundCount'
  BY DEF RoundCount, Destruction, LoopOver, TypeOK
<1>5. DemandsInv'
  BY DEF DemandsInv, DemandOf, HelperShare
<1>6. TotalInv' /\ RoundComplete'
  BY DEF TotalInv, RoundComplete, RoundCount, UnitsBelow, ShareStart, LoopOver, TypeOK
<1> QED BY <1>1, <1>2, <1>3, <1>4, <1>5, <1>6

\* A round begins with all helpers between rounds.
LEMMA BeginRound_Preserves == IInv /\ BeginRound => IInv'
<1> SUFFICES ASSUME IInv, BeginRound PROVE IInv'
  OBVIOUS
<1> USE Bounds DEF IInv, BeginRound, callerVars, flagVars
<1>1. TypeOK'
  <2>1. round + 1 \in 0 .. MaxQueries * MaxRounds
    <3>1. (num_queries - 1) * MaxRounds + MaxRounds = num_queries * MaxRounds
      BY Z3
    <3>2. MaxRounds * num_queries =< MaxRounds * MaxQueries
      BY TimesMonotonic DEF TypeOK
    <3>3. MaxRounds * num_queries = num_queries * MaxRounds /\ MaxRounds * MaxQueries = MaxQueries * MaxRounds
      BY Z3
    <3>4. (num_queries - 1) * MaxRounds \in Int /\ num_queries * MaxRounds \in Nat /\ MaxQueries * MaxRounds \in Nat
      BY Z3
    <3>5. round < first_round - 1 + MaxRounds /\ first_round - 1 =< (num_queries - 1) * MaxRounds
      BY DEF RoundCount, Destruction
    <3> QED BY <3>1, <3>2, <3>3, <3>4, <3>5
  <2> QED BY <2>1, BagOfSet DEF TypeOK, EmptyBag
<1>2. HelperModes'
  <2>1. \A v \in Helpers : Untouched(v)
    BY DEF Untouched
  <2> QED BY <2>1, ModesKept, LoopStart DEF HelperModes, LoopInv, RoundCount
<1>3. DestructionInv' /\ LoopInv'
  BY LoopFacts DEF DestructionInv, LoopInv, LoopOver, Destruction, TypeOK
<1>4. RoundCount'
  BY DEF RoundCount, Destruction, LoopOver, TypeOK
<1>5. DemandsInv'
  BY DEF DemandsInv, DemandOf, HelperShare
<1>6. TotalInv' /\ RoundComplete'
  BY DEF TotalInv, RoundComplete, RoundCount, UnitsBelow, ShareStart, LoopOver, TypeOK
<1> QED BY <1>1, <1>2, <1>3, <1>4, <1>5, <1>6

\* A helper is told of a round and given its prices.
LEMMA signal_round_start_Preserves == IInv /\ signal_round_start => IInv'
<1> SUFFICES ASSUME IInv, signal_round_start PROVE IInv'
  OBVIOUS
<1> USE Bounds DEF IInv, signal_round_start, callerVars, flagVars
<1>1. TypeOK'
  BY LoopFacts DEF TypeOK, LoopOver
<1>2. HelperModes'
  <2>1. \A v \in Helpers \ {at_worker} : Untouched(v)
    BY DEF Untouched, TypeOK
  <2>2. \A v \in Helpers : v = at_worker /\ Ready(v) => Given(v)'
    BY DEF Ready, Awake, Given, Flags, TypeOK
  <2> QED BY <2>1, <2>2, ModesKept, AtWorker, LoopFacts, LoopStart DEF HelperModes, LoopOver, InRound
<1>3. DestructionInv' /\ LoopInv'
  BY LoopFacts DEF DestructionInv, LoopInv, LoopOver, Destruction, TypeOK
<1>4. RoundCount'
  BY DEF RoundCount, Destruction, LoopOver, TypeOK
<1>5. DemandsInv'
  BY DEF DemandsInv, DemandOf, HelperShare
<1>6. TotalInv' /\ RoundComplete'
  BY DEF TotalInv, RoundComplete, RoundCount, UnitsBelow, ShareStart, LoopOver, TypeOK
<1> QED BY <1>1, <1>2, <1>3, <1>4, <1>5, <1>6

\* The caller's share comes first.
LEMMA ComputeOwnShare_Preserves == IInv /\ ComputeOwnShare => IInv'
<1> SUFFICES ASSUME IInv, ComputeOwnShare PROVE IInv'
  OBVIOUS
<1> USE Bounds DEF IInv, ComputeOwnShare, callerVars, flagVars
<1>1. TypeOK'
  <2>1. IsABag(total')
    BY BagSum, BagOfSet DEF DemandOf, TypeOK
  <2> QED BY <2>1 DEF TypeOK
<1>2. HelperModes'
  <2>1. \A v \in Helpers : Untouched(v)
    BY DEF Untouched
  <2> QED BY <2>1, ModesKept, LoopStart DEF HelperModes, LoopInv, RoundCount
<1>3. DestructionInv' /\ LoopInv'
  BY LoopFacts DEF DestructionInv, LoopInv, LoopOver, Destruction, TypeOK
<1>4. RoundCount'
  BY DEF RoundCount, Destruction, LoopOver, TypeOK
<1>5. DemandsInv'
  BY DEF DemandsInv, DemandOf, HelperShare
<1>6. TotalInv' /\ RoundComplete'
  <2>1. at_worker = 0 /\ total = EmptyBag
    BY DEF LoopInv, TotalInv
  <2>2. total' = UnitsBelow(ShareStart(0), round)
    BY <2>1, EmptySum, ShareEnds DEF DemandOf, UnitsBelow
  <2> QED BY <2>1, <2>2 DEF TotalInv, RoundComplete, UnitsBelow, ShareStart
<1> QED BY <1>1, <1>2, <1>3, <1>4, <1>5, <1>6

\* A helper in a round whose flag is up has finished it.
LEMMA SeeRoundDone_Preserves == IInv /\ SeeRoundDone => IInv'
<1> SUFFICES ASSUME IInv, SeeRoundDone PROVE IInv'
  OBVIOUS
<1> USE Bounds DEF IInv, SeeRoundDone, callerVars, flagVars
<1>1. TypeOK'
  BY DEF TypeOK
<1>2. HelperModes'
  <2>1. \A v \in Helpers : Untouched(v)
    BY DEF Untouched
  <2>2. InRound(at_worker) => Finished(at_worker)
    BY DEF InRound, Given, AtWork, Flags
  <2>3. Finished(at_worker) => Finished(at_worker)'
    BY DEF Finished, Flags, HelperShare, DemandOf
  <2> QED BY <2>1, <2>2, <2>3, ModesKept, AtWorker DEF HelperModes, Visited, ToVisit
<1>3. DestructionInv' /\ LoopInv'
  BY LoopFacts DEF DestructionInv, LoopInv, LoopOver, Destruction, TypeOK
<1>4. RoundCount'
  BY DEF RoundCount, Destruction, LoopOver, TypeOK
<1>5. DemandsInv'
  BY DEF DemandsInv, DemandOf, HelperShare
<1>6. TotalInv' /\ RoundComplete'
  BY DEF TotalInv, RoundComplete, RoundCount, UnitsBelow, ShareStart, LoopOver, TypeOK
<1> QED BY <1>1, <1>2, <1>3, <1>4, <1>5, <1>6

\* What is collected is the helper's share at this round's prices.
LEMMA CollectResults_Preserves == IInv /\ CollectResults => IInv'
<1> SUFFICES ASSUME IInv, CollectResults PROVE IInv'
  OBVIOUS
<1> USE Bounds DEF IInv, CollectResults, callerVars, flagVars
<1>1. TypeOK'
  <2>1. IsABag(total')
    BY BagSum, AtWorker DEF TypeOK
  <2> QED BY <2>1, LoopFacts DEF TypeOK
<1>2. HelperModes'
  <2>1. \A v \in Helpers \ {at_worker} : Untouched(v)
    BY DEF Untouched, TypeOK
  <2>2. \A v \in Helpers : v = at_worker /\ Finished(v) => Awake(v)'
    BY DEF Finished, Awake, Flags, TypeOK
  <2>3. \A v \in Visited \union {at_worker} : Awake(v)'
    BY <2>1, <2>2, ModesKept, AtWorker DEF HelperModes
  <2>4. \A v \in ToVisit \ {at_worker} : InRound(v)'
    BY <2>1, ModesKept, AtWorker DEF HelperModes
  <2>5. CASE at_worker + 1 = NumHelpers
    <3>1. caller' = "returned" /\ Visited \union {at_worker} = Helpers
      BY <2>5, LoopFacts
    <3>2. \A v \in Helpers : Awake(v)' /\ Ready(v)'
      BY <2>3, <3>1 DEF Ready
    <3> QED BY <3>1, <3>2 DEF HelperModes
  <2>6. CASE at_worker + 1 # NumHelpers
    <3>1. /\ caller' = "collecting"
          /\ Visited' = Visited \union {at_worker}
          /\ ToVisit' = ToVisit \ {at_worker}
      BY <2>6, LoopFacts
    <3> QED BY <2>3, <2>4, <3>1 DEF HelperModes
  <2> QED BY <2>5, <2>6
<1>3. DestructionInv' /\ LoopInv'
  BY LoopFacts DEF DestructionInv, LoopInv, LoopOver, Destruction, TypeOK
<1>4. RoundCount'
  BY DEF RoundCount, Destruction, LoopOver, TypeOK
<1>5. DemandsInv'
  BY DEF DemandsInv, DemandOf, HelperShare
<1>6. TotalInv' /\ RoundComplete'
  <2>1. total' = UnitsBelow(ShareStart(at_worker + 1), round)
    BY AtWorker, CollectedShare DEF HelperModes, Finished, TotalInv
  <2>2. ShareStart(NumHelpers) = num_work_units
    BY ShareEnds
  <2> QED BY <2>1, <2>2, LoopFacts DEF TotalInv, RoundComplete, UnitsBelow, ShareStart
<1> QED BY <1>1, <1>2, <1>3, <1>4, <1>5, <1>6

\* A query ends with every helper awake, since it had a round.
LEMMA EndQuery_Preserves == IInv /\ EndQuery => IInv'
<1> SUFFICES ASSUME IInv, EndQuery PROVE IInv'
  OBVIOUS
<1> USE Bounds DEF IInv, EndQuery, callerVars, flagVars
<1>1. TypeOK'
  BY DEF TypeOK
<1>2. HelperModes'
  <2>1. \A v \in Helpers : Untouched(v)
    BY DEF Untouched
  <2> QED BY <2>1, ModesKept, LoopStart DEF HelperModes, LoopInv, RoundCount
<1>3. DestructionInv' /\ LoopInv'
  BY LoopFacts DEF DestructionInv, LoopInv, LoopOver, Destruction, TypeOK
<1>4. RoundCount'
  BY DEF RoundCount, Destruction, LoopOver, TypeOK
<1>5. DemandsInv'
  BY DEF DemandsInv, DemandOf, HelperShare
<1>6. TotalInv' /\ RoundComplete'
  BY DEF TotalInv, RoundComplete, RoundCount, UnitsBelow, ShareStart, LoopOver, TypeOK
<1> QED BY <1>1, <1>2, <1>3, <1>4, <1>5, <1>6

\* A helper is told to sleep between rounds.
LEMMA deactivate_worker_Preserves == IInv /\ deactivate_worker => IInv'
<1> SUFFICES ASSUME IInv, deactivate_worker PROVE IInv'
  OBVIOUS
<1> USE Bounds DEF IInv, deactivate_worker, callerVars, flagVars
<1>1. TypeOK'
  BY LoopFacts DEF TypeOK, LoopOver
<1>2. HelperModes'
  <2>1. \A v \in Helpers \ {at_worker} : Untouched(v)
    BY DEF Untouched, TypeOK
  <2>2. \A v \in Helpers : v = at_worker /\ Awake(v) => Leaving(v)'
    BY DEF Awake, Leaving, Flags, TypeOK
  <2> QED BY <2>1, <2>2, ModesKept, AtWorker, LoopFacts, LoopStart DEF HelperModes, LoopOver, Out
<1>3. DestructionInv' /\ LoopInv'
  BY LoopFacts DEF DestructionInv, LoopInv, LoopOver, Destruction, TypeOK
<1>4. RoundCount'
  BY DEF RoundCount, Destruction, LoopOver, TypeOK
<1>5. DemandsInv'
  BY DEF DemandsInv, DemandOf, HelperShare
<1>6. TotalInv' /\ RoundComplete'
  BY DEF TotalInv, RoundComplete, RoundCount, UnitsBelow, ShareStart, LoopOver, TypeOK
<1> QED BY <1>1, <1>2, <1>3, <1>4, <1>5, <1>6

\* The destructors run when the helpers are out of the last query.
LEMMA BeginDestruction_Preserves == IInv /\ BeginDestruction => IInv'
<1> SUFFICES ASSUME IInv, BeginDestruction PROVE IInv'
  OBVIOUS
<1> USE Bounds DEF IInv, BeginDestruction, callerVars, flagVars
<1>1. TypeOK'
  BY DEF TypeOK, Helpers
<1>2. HelperModes'
  BY DEF HelperModes
<1>3. DestructionInv' /\ LoopInv'
  <2>1. \A v \in Helpers : Untouched(v)
    BY DEF Untouched
  <2> QED BY <2>1, ModesKept DEF DestructionInv, LoopInv, HelperModes, Destruction, Untouched
<1>4. RoundCount'
  BY DEF RoundCount, Destruction, LoopOver, TypeOK
<1>5. DemandsInv'
  BY DEF DemandsInv, DemandOf, HelperShare
<1>6. TotalInv' /\ RoundComplete'
  BY DEF TotalInv, RoundComplete, RoundCount, UnitsBelow, ShareStart, LoopOver, TypeOK
<1> QED BY <1>1, <1>2, <1>3, <1>4, <1>5, <1>6

\* Waiting changes nothing.
LEMMA wait_for_async_task_Preserves == IInv /\ wait_for_async_task => IInv'
<1> SUFFICES ASSUME IInv, wait_for_async_task PROVE IInv'
  OBVIOUS
<1> USE Bounds DEF IInv, wait_for_async_task, callerVars, flagVars
<1>1. TypeOK'
  BY DEF TypeOK
<1>2. HelperModes'
  BY DEF HelperModes
<1>3. DestructionInv' /\ LoopInv'
  <2>1. \A v \in Helpers : Untouched(v)
    BY DEF Untouched
  <2> QED BY <2>1, ModesKept DEF DestructionInv, LoopInv, HelperModes, Destruction, Untouched
<1>4. RoundCount'
  BY DEF RoundCount, Destruction, LoopOver, TypeOK
<1>5. DemandsInv'
  BY DEF DemandsInv, DemandOf, HelperShare
<1>6. TotalInv' /\ RoundComplete'
  BY DEF TotalInv, RoundComplete, RoundCount, UnitsBelow, ShareStart, LoopOver, TypeOK
<1> QED BY <1>1, <1>2, <1>3, <1>4, <1>5, <1>6

\* A thread is ended while it sleeps.
LEMMA end_async_thread_Preserves == IInv /\ end_async_thread => IInv'
<1> SUFFICES ASSUME IInv, end_async_thread PROVE IInv'
  OBVIOUS
<1> USE Bounds DEF IInv, end_async_thread, callerVars, flagVars
<1>1. TypeOK'
  BY DEF TypeOK, Helpers
<1>2. HelperModes'
  BY DEF HelperModes
<1>3. DestructionInv' /\ LoopInv'
  <2>1. \A v \in Helpers : Untouched(v)
    BY DEF Untouched
  <2>2. helper[at_worker] \in {"asleep", "exited"}
    BY DEF HoldsMutex
  <2> QED BY <2>1, <2>2, ModesKept, AtWorker DEF DestructionInv, LoopInv, Destruction, TypeOK, Untouched
<1>4. RoundCount'
  BY DEF RoundCount, Destruction, LoopOver, TypeOK
<1>5. DemandsInv'
  BY DEF DemandsInv, DemandOf, HelperShare
<1>6. TotalInv' /\ RoundComplete'
  BY DEF TotalInv, RoundComplete, RoundCount, UnitsBelow, ShareStart, LoopOver, TypeOK
<1> QED BY <1>1, <1>2, <1>3, <1>4, <1>5, <1>6

-----------------------------------------------------------------------------
\* No step breaks the invariant.
LEMMA Inductive == IInv /\ [Next]_vars => IInv'
<1> SUFFICES ASSUME IInv, [Next]_vars PROVE IInv'
  OBVIOUS
<1>1. CASE CallerStep
  BY <1>1, BeginQuery_Preserves, activate_worker_Preserves, BeginRound_Preserves,
     signal_round_start_Preserves, ComputeOwnShare_Preserves, SeeRoundDone_Preserves,
     CollectResults_Preserves, EndQuery_Preserves, deactivate_worker_Preserves,
     BeginDestruction_Preserves, wait_for_async_task_Preserves, end_async_thread_Preserves
     DEF CallerStep
<1>2. CASE \E w \in Helpers : HelperStep(w)
  BY <1>2, HelperStep_Preserves
<1>3. CASE UNCHANGED vars
  <2> USE <1>3 DEF vars, callerVars, flagVars
  <2>1. \A v \in Helpers : Untouched(v)
    BY DEF Untouched
  <2>2. TypeOK' /\ LoopInv' /\ RoundCount' /\ TotalInv' /\ RoundComplete'
    BY DEF IInv, TypeOK, LoopInv, RoundCount, TotalInv, RoundComplete, UnitsBelow, ShareStart
  <2>3. Finished(at_worker) => Finished(at_worker)'
    BY DEF Finished, Flags, HelperShare, DemandOf
  <2>4. HelperModes' /\ DestructionInv'
    BY <2>1, <2>3, ModesKept, AtWorker DEF IInv, HelperModes, DestructionInv, Visited, ToVisit, Untouched
  <2>5. DemandsInv'
    BY DEF IInv, DemandsInv, HelperShare, DemandOf
  <2> QED BY <2>2, <2>4, <2>5 DEF IInv
<1> QED BY <1>1, <1>2, <1>3 DEF Next, Ended

\* The invariant holds in every reachable state.
THEOREM InvariantHolds == Spec => []IInv
  BY Initially, Inductive, PTL DEF Spec

\* Type correctness of the caller, the helpers and their flags; demands are bags of work units at
\* rounds that there were.
THEOREM TypeCorrect == Spec => []TypeOK
<1>1. IInv => TypeOK
  BY DEF IInv
<1> QED BY <1>1, InvariantHolds, PTL

\* For every number of helpers and of work units, what get_supply_demand returns covers every work
\* unit exactly once, at this round's prices.
THEOREM RoundsComplete == Spec => []RoundComplete
<1>1. IInv => RoundComplete
  BY DEF IInv
<1> QED BY <1>1, InvariantHolds, PTL

\* The prices a helper was given are not overwritten while it computes with them.
THEOREM PricesStay == Spec => []PricesStable
<1>1. ASSUME IInv
      PROVE  PricesStable
  <2>1. \A w \in Helpers : Out(w) \/ Ready(w) \/ Awake(w) => helper[w] \notin {"taking", "clearing", "computing"}
    BY DEF Out, Off, Leaving, Ready, Awake
  <2> QED BY <1>1, <2>1, AtWorker DEF IInv, HelperModes, PricesStable
<1> QED BY <1>1, InvariantHolds, PTL

\* A query starts with no flag of the query before left up.
THEOREM StartsClean == Spec => []CleanStart
<1>1. ASSUME IInv
      PROVE  CleanStart
  <2>1. \A w \in Helpers : Ready(w) \/ InRound(w) => ~sleep_flag[w]
    BY DEF Ready, Awake, InRound, Given, AtWork, Finished, Flags
  <2>2. \A w \in Helpers : Ready(w) => ~round_done_flag[w]
    BY DEF Ready, Awake, Flags
  <2>3. at_worker .. NumHelpers - 1 = ToVisit
    BY <1>1, Bounds DEF ToVisit, Helpers, IInv
  <2> QED BY <1>1, <2>1, <2>2, <2>3, AtWorker DEF IInv, HelperModes, CleanStart
<1> QED BY <1>1, InvariantHolds, PTL
=============================================================================
