-------------------------- MODULE BlockSpaceProofs --------------------------
(***************************************************************************)
(* Proofs about BlockSpace, for every mempool, every number of threads and *)
(* every block limit.                                                      *)
(***************************************************************************)
EXTENDS BlockSpace, Counting

-----------------------------------------------------------------------------
\* The inductive invariant.

\* The slots of the block that a body has reserved and not given back or added to the block size.
Held(w) ==
    IF pc[w] \in {"shrink", "process", "giveback"} THEN chunk_sz[w]
    ELSE IF pc[w] = "account" THEN elts_added_to_block[w]
    ELSE 0
held == [w \in Workers |-> Held(w)]
AllHeld == Cardinality(Cells(Workers, held))

\* The chunks that no body has reached.
Unvisited == unassigned \union UNION {range[w] : w \in Workers}

\* The mempool fits into the block; one thread runs the reduction.
Fits == SizeOf(Chunks) =< max_block_size
OneBody == \A v, w \in bodies : v = w

\* What a body still has to visit is an interval; what it adds is at most what it looked at.
BodyOK(w) ==
    /\ w \notin bodies => pc[w] = "idle"
    /\ range[w] # {} => \E i, j \in Chunks : i =< j /\ range[w] = i .. j
    /\ pc[w] = "idle" => range[w] = {}
    /\ pc[w] = "reserve" => range[w] # {}
    /\ pc[w] = "shrink" => remaining_space[w] < chunk_sz[w]
    /\ pc[w] \in {"giveback", "account"} => elts_added_to_block[w] =< chunk_sz[w]
BodyInv == \A w \in Workers : BodyOK(w)

\* No chunk is given to two bodies.
DisjointRanges ==
    /\ \A w \in Workers : range[w] \cap unassigned = {}
    /\ \A v, w \in Workers : v # w => range[v] \cap range[w] = {}

\* Every slot is free, held by a body, or taken by a transaction of the block.
Balanced == remaining_block_space = (max_block_size - total_block_size) - AllHeld

\* While the mempool fits, there is room for all that was not visited.
RoomInv ==
    Fits => /\ Balanced
            /\ ignored = 0
            /\ (total_block_size + AllHeld) + SizeOf(Unvisited) =< SizeOf(Chunks)
            /\ \A w \in Workers : /\ pc[w] # "shrink"
                                  /\ pc[w] = "account" => remaining_space[w] >= SizeOf(range[w])

\* One body alone overdraws the space only until it has shrunk its reservation.
AloneInv ==
    OneBody => /\ Balanced
               /\ bodies = {} => remaining_block_space >= 0
               /\ \A w \in bodies :
                      IF pc[w] = "shrink"
                      THEN /\ 0 =< remaining_space[w]
                           /\ remaining_block_space = remaining_space[w] - chunk_sz[w]
                      ELSE remaining_block_space >= 0

IInv == TypeOK /\ BodyInv /\ DisjointRanges /\ RoomInv /\ AloneInv

-----------------------------------------------------------------------------
\* The chunks of the mempool.
LEMMA ChunksFacts ==
    /\ IsFiniteSet(Chunks)
    /\ Chunks = 1 .. Len(ChunkSize) /\ Len(ChunkSize) \in Nat
    /\ \A c \in Chunks : ChunkSize[c] \in Nat
<1>1. Chunks = 1 .. Len(ChunkSize) /\ Len(ChunkSize) \in Nat
  BY ConstantsAssumption DEF Chunks
<1>2. IsFiniteSet(1 .. Len(ChunkSize))
  BY <1>1, FS_Interval
<1>3. \A c \in Chunks : ChunkSize[c] \in Nat
  BY ConstantsAssumption DEF Chunks
<1>. QED
  BY <1>1, <1>2, <1>3

\* The size of a set of chunks, of a smaller one, and of one without a chunk.
LEMMA Sizes ==
    ASSUME NEW cs \in SUBSET Chunks
    PROVE  /\ SizeOf(cs) \in Nat
           /\ \A ds \in SUBSET cs : SizeOf(ds) \in Nat /\ SizeOf(ds) =< SizeOf(cs)
           /\ \A c \in cs : SizeOf(cs) = SizeOf(cs \ {c}) + ChunkSize[c]
<1>. USE ChunksFacts
<1>1. \A ds : SizeOf(ds) = Cardinality(Cells(ds, ChunkSize))
  BY DEF SizeOf, TransactionsOf, Cells
<1>2. \A ds \in SUBSET Chunks : IsFiniteSet(ds) /\ \A c \in ds : ChunkSize[c] \in Nat
  BY FS_Subset
<1>3. \A ds \in SUBSET Chunks : SizeOf(ds) \in Nat
  BY <1>1, <1>2, CellsFinite
<1>4. \A ds \in SUBSET cs : SizeOf(ds) =< SizeOf(cs)
  BY <1>1, <1>2, CellsOfSubset
<1>5. \A c \in cs : SizeOf(cs) = SizeOf(cs \ {c}) + ChunkSize[c]
  BY <1>1, <1>2, CellsRemove
<1>. QED
  BY <1>3, <1>4, <1>5

\* The first chunk of a range.
LEMMA IntervalMin ==
    ASSUME NEW i \in Int, NEW j \in Int, i =< j
    PROVE  Min(i .. j) = i
  BY DEF Min

\* The locals of one worker change, and nobody else's.
Others(w) ==
    \A v \in Workers \ {w} :
        /\ pc'[v] = pc[v] /\ range'[v] = range[v] /\ chunk_sz'[v] = chunk_sz[v]
        /\ remaining_space'[v] = remaining_space[v]
        /\ elts_added_to_block'[v] = elts_added_to_block[v]

\* A body changes its own locals only.
LEMMA OthersKept ==
    ASSUME TypeOK, NEW w \in Workers, Body(w)
    PROVE  Others(w)
<1>. USE DEF Others, TypeOK, locals
<1>1. CASE StartRange(w)
  BY <1>1 DEF StartRange
<1>2. CASE ReserveSpace(w)
  BY <1>2 DEF ReserveSpace
<1>3. CASE ShrinkReservation(w)
  BY <1>3 DEF ShrinkReservation, Return
<1>4. CASE ProcessChunk(w)
  BY <1>4 DEF ProcessChunk
<1>5. CASE GiveBack(w)
  BY <1>5 DEF GiveBack
<1>6. CASE AccountChunk(w)
  BY <1>6 DEF AccountChunk, Return
<1>. QED
  BY <1>1, <1>2, <1>3, <1>4, <1>5, <1>6 DEF Body

\* What the bodies hold is a number.
LEMMA HeldType ==
    ASSUME TypeOK
    PROVE  held \in [Workers -> Nat] /\ AllHeld \in Nat
<1>1. held \in [Workers -> Nat]
  BY DEF TypeOK, held, Held
<1>. QED
  BY <1>1, ConstantsAssumption, CellsFinite DEF AllHeld

\* A step of a body changes what all of them hold by what it changes of its own.
LEMMA HeldStep ==
    ASSUME TypeOK, TypeOK', NEW w \in Workers, Others(w)
    PROVE  /\ Held(w) \in Nat /\ Held(w)' \in Nat
           /\ AllHeld \in Nat /\ AllHeld' \in Nat
           /\ Held(w) =< AllHeld
           /\ AllHeld' = AllHeld - Held(w) + Held(w)'
<1>1. held \in [Workers -> Nat] /\ held' \in [Workers -> Nat]
  BY DEF TypeOK, held, Held
<1>2. held[w] = Held(w) /\ held'[w] = Held(w)'
  BY DEF held
<1>3. \A v \in Workers \ {w} : held'[v] = held[v]
  BY DEF held, Held, Others
<1>4. IsFiniteSet(Workers)
  BY ConstantsAssumption
<1>5. /\ held[w] =< Cardinality(Cells(Workers, held))
      /\ Cardinality(Cells(Workers, held)) \in Nat
      /\ Cardinality(Cells(Workers, held')) = Cardinality(Cells(Workers, held)) - held[w] + held'[w]
  BY <1>1, <1>3, <1>4, CellsUpdate
<1>6. AllHeld = Cardinality(Cells(Workers, held)) /\ AllHeld' = Cardinality(Cells(Workers, held'))
  BY DEF AllHeld, Cells
<1>7. AllHeld' \in Nat
  BY <1>1, <1>4, <1>6, CellsFinite
<1>. QED
  BY <1>1, <1>2, <1>5, <1>6, <1>7

\* The conditions on a worker that does nothing.
LEMMA BodiesKept ==
    ASSUME BodyInv, NEW w \in Workers, Others(w), bodies' = bodies, BodyOK(w)'
    PROVE  BodyInv'
  BY DEF BodyInv, BodyOK, Others

\* The invariant holds initially.
LEMMA Initially == Init => IInv
<1>. SUFFICES ASSUME Init PROVE IInv
  OBVIOUS
<1>1. TypeOK
  BY ConstantsAssumption DEF Init, TypeOK
<1>2. BodyInv /\ DisjointRanges
  BY DEF Init, BodyInv, BodyOK, DisjointRanges
<1>3. AllHeld = 0
  <2>1. \A w \in Workers : held[w] = 0
    BY DEF Init, held, Held
  <2>. QED
    BY <2>1, NoCells DEF AllHeld
<1>4. Balanced
  BY <1>1, <1>3 DEF Init, TypeOK, Balanced
<1>5. RoomInv
  <2>1. Unvisited = Chunks
    BY DEF Init, Unvisited
  <2>2. SizeOf(Chunks) \in Nat
    BY Sizes
  <2>. QED
    BY <1>3, <1>4, <2>1, <2>2 DEF RoomInv, Init
<1>6. AloneInv
  BY <1>1, <1>4 DEF AloneInv, Init, TypeOK
<1>. QED
  BY <1>1, <1>2, <1>5, <1>6 DEF IInv

-----------------------------------------------------------------------------
\* What is not visited is part of the mempool, and a range is part of that.
LEMMA UnvisitedFacts ==
    ASSUME TypeOK
    PROVE  /\ Unvisited \in SUBSET Chunks
           /\ \A w \in Workers : range[w] \in SUBSET Unvisited
           /\ SizeOf(Chunks) \in Nat
           /\ SizeOf(Unvisited) \in Nat
           /\ \A w \in Workers : SizeOf(range[w]) \in Nat /\ SizeOf(range[w]) =< SizeOf(Unvisited)
<1>1. /\ Unvisited \in SUBSET Chunks
      /\ \A w \in Workers : range[w] \in SUBSET Unvisited
  BY DEF TypeOK, Unvisited
<1>. QED
  BY <1>1, Sizes

\* What a step of a body has to establish when the mempool fits.
LEMMA RoomKept ==
    ASSUME TypeOK, RoomInv, NEW w \in Workers, Others(w), max_block_size' = max_block_size,
           ASSUME Fits
           PROVE  /\ Balanced' /\ ignored' = 0
                  /\ (total_block_size' + AllHeld') + SizeOf(Unvisited') =< SizeOf(Chunks)
                  /\ pc'[w] # "shrink"
                  /\ pc'[w] = "account" => remaining_space'[w] >= SizeOf(range'[w])
    PROVE  RoomInv'
<1>. SUFFICES ASSUME Fits'
              PROVE  /\ Balanced' /\ ignored' = 0
                     /\ ((total_block_size + AllHeld) + SizeOf(Unvisited) =< SizeOf(Chunks))'
                     /\ \A v \in Workers :
                           /\ pc'[v] # "shrink"
                           /\ pc'[v] = "account" => (remaining_space[v] >= SizeOf(range[v]))'
  BY DEF RoomInv
<1>1. Fits
  BY DEF Fits, SizeOf, TransactionsOf
<1>2. /\ SizeOf(Chunks)' = SizeOf(Chunks) /\ SizeOf(Unvisited)' = SizeOf(Unvisited')
      /\ \A v \in Workers : SizeOf(range[v])' = SizeOf(range'[v])
  BY DEF SizeOf, TransactionsOf, Chunks
<1>3. \A v \in Workers \ {w} :
         pc'[v] # "shrink" /\ (pc'[v] = "account" => remaining_space'[v] >= SizeOf(range'[v]))
  BY <1>1 DEF RoomInv, Others
<1>. QED
  BY <1>1, <1>2, <1>3

\* What a step of a body has to establish when it is alone.
LEMMA AloneKept ==
    ASSUME AloneInv, NEW w \in bodies, bodies' = bodies,
           ASSUME OneBody
           PROVE  /\ Balanced'
                  /\ IF pc'[w] = "shrink"
                     THEN /\ 0 =< remaining_space'[w]
                          /\ remaining_block_space' = remaining_space'[w] - chunk_sz'[w]
                     ELSE remaining_block_space' >= 0
    PROVE  AloneInv'
<1>. SUFFICES ASSUME OneBody PROVE AloneInv'
  BY DEF AloneInv, OneBody
<1>1. \A v \in bodies : v = w
  BY DEF OneBody
<1>. QED
  BY <1>1 DEF AloneInv

\* A body is given chunks that nobody else has.
LEMMA StartRange_Preserves ==
    ASSUME IInv, NEW w \in Workers, Body(w), StartRange(w)
    PROVE  IInv'
<1>. USE DEF IInv
<1>1. /\ w \in bodies /\ bodies' = bodies /\ max_block_size' = max_block_size /\ Others(w)
  BY OthersKept DEF Body
<1>2. PICK i, j \in unassigned :
         /\ i =< j
         /\ i .. j \subseteq unassigned
         /\ range' = [range EXCEPT ![w] = i .. j]
         /\ unassigned' = unassigned \ (i .. j)
  BY DEF StartRange
<1>3. TypeOK'
  BY <1>1, <1>2 DEF TypeOK, StartRange, locals
<1>4. i \in Chunks /\ j \in Chunks /\ i \in Int /\ j \in Int /\ range'[w] = i .. j /\ i \in i .. j
  BY <1>2, ChunksFacts DEF TypeOK
<1>5. pc[w] = "idle" /\ pc'[w] = "reserve" /\ range[w] = {}
  BY DEF StartRange, TypeOK, BodyInv, BodyOK
<1>6. BodyInv'
  <2>1. BodyOK(w)'
    BY <1>1, <1>2, <1>4, <1>5 DEF BodyOK
  <2>. QED
    BY <1>1, <2>1, BodiesKept
<1>7. DisjointRanges'
  BY <1>2 DEF DisjointRanges, TypeOK
<1>8. AllHeld' = AllHeld /\ AllHeld \in Nat
  <2>1. Held(w) = 0 /\ Held(w)' = 0
    BY <1>5 DEF Held
  <2>. QED
    BY <1>1, <1>3, <2>1, HeldStep
<1>9. Unvisited' = Unvisited
  BY <1>2, <1>5 DEF Unvisited, TypeOK
<1>10. Balanced => Balanced'
  BY <1>1, <1>8 DEF Balanced, StartRange
<1>11. RoomInv'
  BY <1>1, <1>5, <1>8, <1>9, <1>10, RoomKept DEF RoomInv, StartRange
<1>12. AloneInv'
  BY <1>1, <1>5, <1>10, AloneKept DEF AloneInv, StartRange
<1>. QED
  BY <1>3, <1>6, <1>7, <1>11, <1>12

\* A reservation finds room for the chunk when the mempool fits; a body alone finds the space that
\* is really left.
LEMMA ReserveSpace_Preserves ==
    ASSUME IInv, NEW w \in Workers, Body(w), ReserveSpace(w)
    PROVE  IInv'
<1>. USE DEF IInv
<1>1. /\ w \in bodies /\ bodies' = bodies /\ max_block_size' = max_block_size /\ Others(w)
  BY OthersKept DEF Body
<1>2. PICK c, j \in Chunks : c =< j /\ range[w] = c .. j
  BY DEF ReserveSpace, BodyInv, BodyOK
<1>3. c \in Int /\ j \in Int /\ c \in range[w] /\ ChunkSize[c] \in Nat /\ Min(range[w]) = c
  BY <1>2, ChunksFacts, IntervalMin
<1>4. /\ pc[w] = "reserve"
      /\ range' = [range EXCEPT ![w] = range[w] \ {c}]
      /\ chunk_sz' = [chunk_sz EXCEPT ![w] = ChunkSize[c]]
      /\ remaining_space' = [remaining_space EXCEPT ![w] = remaining_block_space]
      /\ remaining_block_space' = remaining_block_space - ChunkSize[c]
      /\ pc' = [pc EXCEPT ![w] = IF remaining_block_space < ChunkSize[c]
                                 THEN "shrink" ELSE "process"]
      /\ UNCHANGED <<unassigned, elts_added_to_block, total_block_size, ignored>>
  BY <1>3 DEF ReserveSpace
<1>5. TypeOK'
  BY <1>1, <1>3, <1>4 DEF TypeOK
<1>6. /\ range'[w] = range[w] \ {c} /\ chunk_sz'[w] = ChunkSize[c]
      /\ remaining_space'[w] = remaining_block_space
      /\ pc'[w] = IF remaining_block_space < ChunkSize[c] THEN "shrink" ELSE "process"
      /\ remaining_block_space \in Int /\ total_block_size \in Nat /\ max_block_size \in Nat
  BY <1>4 DEF TypeOK
<1>7. BodyInv'
  <2>1. range'[w] = (c + 1) .. j
    BY <1>2, <1>3, <1>6
  <2>2. range'[w] # {} => c + 1 \in Chunks /\ c + 1 =< j
    BY <1>2, <1>3, <2>1, ChunksFacts
  <2>3. BodyOK(w)'
    BY <1>1, <1>2, <1>6, <2>1, <2>2 DEF BodyOK
  <2>. QED
    BY <1>1, <2>3, BodiesKept
<1>8. DisjointRanges'
  BY <1>4 DEF DisjointRanges, TypeOK
<1>9. AllHeld' = AllHeld + ChunkSize[c] /\ AllHeld \in Nat
  <2>1. Held(w) = 0 /\ Held(w)' = ChunkSize[c]
    BY <1>4, <1>6 DEF Held
  <2>. QED
    BY <1>1, <1>3, <1>5, <2>1, HeldStep
<1>10. SizeOf(Unvisited) = SizeOf(Unvisited') + ChunkSize[c] /\ SizeOf(Unvisited') \in Nat
  <2>1. Unvisited' = Unvisited \ {c}
    BY <1>3, <1>4 DEF Unvisited, DisjointRanges, TypeOK
  <2>2. Unvisited \in SUBSET Chunks /\ c \in Unvisited
    BY <1>3, UnvisitedFacts
  <2>. QED
    BY <2>1, <2>2, Sizes
<1>11. Balanced => Balanced'
  BY <1>1, <1>3, <1>4, <1>6, <1>9 DEF Balanced
<1>12. RoomInv'
  <2>. SUFFICES ASSUME Fits
                PROVE  /\ Balanced' /\ ignored' = 0
                       /\ (total_block_size' + AllHeld') + SizeOf(Unvisited') =< SizeOf(Chunks)
                       /\ pc'[w] # "shrink"
                       /\ pc'[w] = "account" => remaining_space'[w] >= SizeOf(range'[w])
    BY <1>1, RoomKept
  <2>1. /\ Balanced /\ ignored = 0
        /\ (total_block_size + AllHeld) + SizeOf(Unvisited) =< SizeOf(Chunks)
        /\ SizeOf(Chunks) =< max_block_size /\ SizeOf(Chunks) \in Nat
    BY UnvisitedFacts DEF RoomInv, Fits
  <2>2. (total_block_size' + AllHeld') + SizeOf(Unvisited') =< SizeOf(Chunks)
    BY <1>3, <1>4, <1>6, <1>9, <1>10, <2>1
  <2>3. remaining_block_space >= ChunkSize[c]
    BY <1>3, <1>6, <1>9, <1>10, <2>1 DEF Balanced
  <2>. QED
    BY <1>3, <1>4, <1>6, <1>11, <2>1, <2>2, <2>3
<1>13. AloneInv'
  <2>. SUFFICES ASSUME OneBody
                PROVE  /\ Balanced'
                       /\ IF pc'[w] = "shrink"
                          THEN /\ 0 =< remaining_space'[w]
                               /\ remaining_block_space' = remaining_space'[w] - chunk_sz'[w]
                          ELSE remaining_block_space' >= 0
    BY <1>1, AloneKept
  <2>1. Balanced /\ remaining_block_space >= 0
    BY <1>1, <1>4 DEF AloneInv
  <2>. QED
    BY <1>3, <1>4, <1>6, <1>11, <2>1
<1>. QED
  BY <1>5, <1>7, <1>8, <1>12, <1>13

\* Nobody shrinks a reservation when the mempool fits; a body alone gives back exactly what it had
\* overdrawn.
LEMMA ShrinkReservation_Preserves ==
    ASSUME IInv, NEW w \in Workers, Body(w), ShrinkReservation(w)
    PROVE  IInv'
<1>. USE DEF IInv
<1>1. /\ w \in bodies /\ bodies' = bodies /\ max_block_size' = max_block_size /\ Others(w)
  BY OthersKept DEF Body
<1>2. /\ pc[w] = "shrink" /\ remaining_space[w] < chunk_sz[w]
      /\ chunk_sz[w] \in Nat /\ remaining_space[w] \in Int /\ ignored \in Nat
      /\ remaining_block_space \in Int /\ total_block_size \in Nat /\ max_block_size \in Nat
      /\ SizeOf(range[w]) \in Nat
  BY UnvisitedFacts DEF ShrinkReservation, BodyInv, BodyOK, TypeOK
<1>3. /\ remaining_block_space' = remaining_block_space + (chunk_sz[w] - remaining_space[w])
      /\ UNCHANGED <<unassigned, remaining_space, elts_added_to_block, total_block_size>>
  BY DEF ShrinkReservation
<1>4. ~Fits
  BY <1>2 DEF RoomInv
<1>5. CASE remaining_space[w] =< 0
  <2>1. /\ pc' = [pc EXCEPT ![w] = "idle"] /\ range' = [range EXCEPT ![w] = {}]
        /\ ignored' = ignored + (chunk_sz[w] + SizeOf(range[w])) /\ chunk_sz' = chunk_sz
    BY <1>5 DEF ShrinkReservation, Return
  <2>2. TypeOK'
    BY <1>1, <1>2, <1>3, <2>1 DEF TypeOK
  <2>3. pc'[w] = "idle" /\ range'[w] = {}
    BY <2>1 DEF TypeOK
  <2>4. BodyInv'
    <3>1. BodyOK(w)'
      BY <2>3 DEF BodyOK
    <3>. QED
      BY <1>1, <3>1, BodiesKept
  <2>5. DisjointRanges'
    BY <1>3, <2>1 DEF DisjointRanges, TypeOK
  <2>6. AllHeld' = AllHeld - chunk_sz[w] /\ AllHeld \in Nat
    <3>1. Held(w) = chunk_sz[w] /\ Held(w)' = 0
      BY <1>2, <2>3 DEF Held
    <3>. QED
      BY <1>1, <1>2, <2>2, <3>1, HeldStep
  <2>7. RoomInv'
    BY <1>1, <1>4, RoomKept
  <2>8. ASSUME OneBody
        PROVE  Balanced' /\ remaining_block_space' >= 0
    <3>1. /\ Balanced /\ 0 =< remaining_space[w]
          /\ remaining_block_space = remaining_space[w] - chunk_sz[w]
      BY <1>1, <1>2, <2>8 DEF AloneInv
    <3>. QED
      BY <1>1, <1>2, <1>3, <1>5, <2>6, <3>1 DEF Balanced
  <2>9. AloneInv'
    BY <1>1, <2>3, <2>8, AloneKept
  <2>. QED
    BY <2>2, <2>4, <2>5, <2>7, <2>9
<1>6. CASE remaining_space[w] > 0
  <2>1. /\ chunk_sz' = [chunk_sz EXCEPT ![w] = remaining_space[w]]
        /\ ignored' = ignored + (chunk_sz[w] - remaining_space[w])
        /\ pc' = [pc EXCEPT ![w] = "process"] /\ range' = range
    BY <1>2, <1>6 DEF ShrinkReservation
  <2>2. TypeOK'
    BY <1>1, <1>2, <1>3, <1>6, <2>1 DEF TypeOK
  <2>3. pc'[w] = "process" /\ chunk_sz'[w] = remaining_space[w]
    BY <2>1 DEF TypeOK
  <2>4. BodyInv'
    <3>1. BodyOK(w)'
      BY <1>1, <1>2, <2>1, <2>3 DEF BodyInv, BodyOK
    <3>. QED
      BY <1>1, <3>1, BodiesKept
  <2>5. DisjointRanges'
    BY <1>3, <2>1 DEF DisjointRanges
  <2>6. AllHeld' = AllHeld - chunk_sz[w] + remaining_space[w] /\ AllHeld \in Nat
    <3>1. Held(w) = chunk_sz[w] /\ Held(w)' = remaining_space[w]
      BY <1>2, <2>3 DEF Held
    <3>. QED
      BY <1>1, <1>2, <2>2, <3>1, HeldStep
  <2>7. RoomInv'
    BY <1>1, <1>4, RoomKept
  <2>8. ASSUME OneBody
        PROVE  Balanced' /\ remaining_block_space' >= 0
    <3>1. Balanced /\ remaining_block_space = remaining_space[w] - chunk_sz[w]
      BY <1>1, <1>2, <2>8 DEF AloneInv
    <3>. QED
      BY <1>1, <1>2, <1>3, <2>6, <3>1 DEF Balanced
  <2>9. AloneInv'
    BY <1>1, <2>3, <2>8, AloneKept
  <2>. QED
    BY <2>2, <2>4, <2>5, <2>7, <2>9
<1>. QED
  BY <1>2, <1>5, <1>6

\* Processing a chunk leaves the reservation as it is.
LEMMA ProcessChunk_Preserves ==
    ASSUME IInv, NEW w \in Workers, Body(w), ProcessChunk(w)
    PROVE  IInv'
<1>. USE DEF IInv
<1>1. /\ w \in bodies /\ bodies' = bodies /\ max_block_size' = max_block_size /\ Others(w)
  BY OthersKept DEF Body
<1>2. PICK n \in 0 .. chunk_sz[w] : elts_added_to_block' = [elts_added_to_block EXCEPT ![w] = n]
  BY DEF ProcessChunk
<1>3. /\ pc[w] = "process" /\ pc' = [pc EXCEPT ![w] = "giveback"]
      /\ UNCHANGED <<unassigned, range, chunk_sz, remaining_space, remaining_block_space,
                     total_block_size, ignored>>
  BY DEF ProcessChunk
<1>4. n \in Nat /\ n =< chunk_sz[w] /\ elts_added_to_block'[w] = n /\ pc'[w] = "giveback"
  BY <1>2, <1>3 DEF TypeOK
<1>5. TypeOK'
  BY <1>1, <1>2, <1>3, <1>4 DEF TypeOK
<1>6. BodyInv'
  <2>1. BodyOK(w)'
    BY <1>1, <1>3, <1>4 DEF BodyInv, BodyOK
  <2>. QED
    BY <1>1, <2>1, BodiesKept
<1>7. DisjointRanges'
  BY <1>3 DEF DisjointRanges
<1>8. AllHeld' = AllHeld /\ AllHeld \in Nat
  <2>1. Held(w)' = Held(w)
    BY <1>3, <1>4 DEF Held
  <2>. QED
    BY <1>1, <1>5, <2>1, HeldStep
<1>9. Unvisited' = Unvisited
  BY <1>3 DEF Unvisited
<1>10. Balanced => Balanced'
  BY <1>1, <1>3, <1>8 DEF Balanced
<1>11. RoomInv'
  BY <1>1, <1>3, <1>4, <1>8, <1>9, <1>10, RoomKept DEF RoomInv
<1>12. AloneInv'
  BY <1>1, <1>3, <1>4, <1>10, AloneKept DEF AloneInv
<1>. QED
  BY <1>5, <1>6, <1>7, <1>11, <1>12

\* Giving back makes room for what failed; the space read before it covers the rest of the range
\* when the mempool fits.
LEMMA GiveBack_Preserves ==
    ASSUME IInv, NEW w \in Workers, Body(w), GiveBack(w)
    PROVE  IInv'
<1>. USE DEF IInv
<1>1. /\ w \in bodies /\ bodies' = bodies /\ max_block_size' = max_block_size /\ Others(w)
  BY OthersKept DEF Body
<1>2. /\ pc[w] = "giveback" /\ pc' = [pc EXCEPT ![w] = "account"]
      /\ remaining_space' = [remaining_space EXCEPT ![w] = remaining_block_space]
      /\ remaining_block_space' = remaining_block_space + (chunk_sz[w] - elts_added_to_block[w])
      /\ UNCHANGED <<unassigned, range, chunk_sz, elts_added_to_block, total_block_size, ignored>>
  BY DEF GiveBack
<1>3. /\ chunk_sz[w] \in Nat /\ elts_added_to_block[w] \in Nat
      /\ elts_added_to_block[w] =< chunk_sz[w]
      /\ remaining_block_space \in Int /\ total_block_size \in Nat /\ max_block_size \in Nat
      /\ pc'[w] = "account" /\ remaining_space'[w] = remaining_block_space
  BY <1>2 DEF TypeOK, BodyInv, BodyOK
<1>4. TypeOK'
  BY <1>1, <1>2, <1>3 DEF TypeOK
<1>5. BodyInv'
  <2>1. BodyOK(w)'
    BY <1>1, <1>2, <1>3 DEF BodyInv, BodyOK
  <2>. QED
    BY <1>1, <2>1, BodiesKept
<1>6. DisjointRanges'
  BY <1>2 DEF DisjointRanges
<1>7. AllHeld' = AllHeld - chunk_sz[w] + elts_added_to_block[w] /\ AllHeld \in Nat
  <2>1. Held(w) = chunk_sz[w] /\ Held(w)' = elts_added_to_block[w]
    BY <1>2, <1>3 DEF Held
  <2>. QED
    BY <1>1, <1>3, <1>4, <2>1, HeldStep
<1>8. Unvisited' = Unvisited
  BY <1>2 DEF Unvisited
<1>9. Balanced => Balanced'
  BY <1>1, <1>2, <1>3, <1>7 DEF Balanced
<1>10. RoomInv'
  <2>. SUFFICES ASSUME Fits
                PROVE  /\ Balanced' /\ ignored' = 0
                       /\ (total_block_size' + AllHeld') + SizeOf(Unvisited') =< SizeOf(Chunks)
                       /\ pc'[w] # "shrink"
                       /\ pc'[w] = "account" => remaining_space'[w] >= SizeOf(range'[w])
    BY <1>1, RoomKept
  <2>1. /\ Balanced /\ ignored = 0
        /\ (total_block_size + AllHeld) + SizeOf(Unvisited) =< SizeOf(Chunks)
        /\ SizeOf(Chunks) =< max_block_size /\ SizeOf(Chunks) \in Nat
    BY UnvisitedFacts DEF RoomInv, Fits
  <2>2. /\ SizeOf(Unvisited) \in Nat /\ SizeOf(range[w]) \in Nat
        /\ SizeOf(range[w]) =< SizeOf(Unvisited)
    BY UnvisitedFacts
  <2>3. (total_block_size' + AllHeld') + SizeOf(Unvisited') =< SizeOf(Chunks)
    BY <1>2, <1>3, <1>7, <1>8, <2>1, <2>2
  <2>4. remaining_block_space >= SizeOf(range[w])
    BY <1>3, <1>7, <2>1, <2>2 DEF Balanced
  <2>. QED
    BY <1>2, <1>3, <1>9, <2>1, <2>3, <2>4
<1>11. AloneInv'
  <2>. SUFFICES ASSUME OneBody
                PROVE  /\ Balanced'
                       /\ IF pc'[w] = "shrink"
                          THEN /\ 0 =< remaining_space'[w]
                               /\ remaining_block_space' = remaining_space'[w] - chunk_sz'[w]
                          ELSE remaining_block_space' >= 0
    BY <1>1, AloneKept
  <2>1. Balanced /\ remaining_block_space >= 0
    BY <1>1, <1>2 DEF AloneInv
  <2>. QED
    BY <1>2, <1>3, <1>9, <2>1
<1>. QED
  BY <1>4, <1>5, <1>6, <1>10, <1>11

\* A body that stops leaves nothing behind when the mempool fits.
LEMMA AccountChunk_Preserves ==
    ASSUME IInv, NEW w \in Workers, Body(w), AccountChunk(w)
    PROVE  IInv'
<1>. USE DEF IInv
<1>1. /\ w \in bodies /\ bodies' = bodies /\ max_block_size' = max_block_size /\ Others(w)
  BY OthersKept DEF Body
<1>. DEFINE stop == remaining_space[w] =< 0 \/ range[w] = {}
<1>2. /\ pc[w] = "account"
      /\ total_block_size' = total_block_size + elts_added_to_block[w]
      /\ UNCHANGED <<unassigned, chunk_sz, remaining_space, elts_added_to_block,
                     remaining_block_space>>
      /\ stop => /\ pc' = [pc EXCEPT ![w] = "idle"] /\ range' = [range EXCEPT ![w] = {}]
                 /\ ignored' = ignored + SizeOf(range[w])
      /\ ~stop => /\ pc' = [pc EXCEPT ![w] = "reserve"] /\ range' = range
                  /\ ignored' = ignored
  BY DEF AccountChunk, Return, locals
<1>3. /\ elts_added_to_block[w] \in Nat /\ remaining_space[w] \in Int /\ ignored \in Nat
      /\ remaining_block_space \in Int /\ total_block_size \in Nat /\ max_block_size \in Nat
      /\ SizeOf(range[w]) \in Nat
  BY UnvisitedFacts DEF TypeOK
<1>4. TypeOK'
  BY <1>1, <1>2, <1>3 DEF TypeOK
<1>5. /\ stop => pc'[w] = "idle" /\ range'[w] = {}
      /\ ~stop => pc'[w] = "reserve" /\ range'[w] = range[w] /\ range[w] # {}
      /\ pc'[w] \in {"idle", "reserve"}
  BY <1>2 DEF TypeOK
<1>6. BodyInv'
  <2>1. BodyOK(w)'
    BY <1>1, <1>5 DEF BodyInv, BodyOK
  <2>. QED
    BY <1>1, <2>1, BodiesKept
<1>7. DisjointRanges'
  BY <1>2 DEF DisjointRanges, TypeOK
<1>8. AllHeld' = AllHeld - elts_added_to_block[w] /\ AllHeld \in Nat /\ AllHeld' \in Nat
  <2>1. Held(w) = elts_added_to_block[w] /\ Held(w)' = 0
    BY <1>2, <1>5 DEF Held
  <2>. QED
    BY <1>1, <1>3, <1>4, <2>1, HeldStep
<1>9. SizeOf(Unvisited') =< SizeOf(Unvisited) /\ SizeOf(Unvisited) \in Nat /\ SizeOf(Unvisited') \in Nat
  <2>1. Unvisited' \in SUBSET Unvisited
    BY <1>2 DEF Unvisited, TypeOK
  <2>. QED
    BY <2>1, UnvisitedFacts, Sizes
<1>10. Balanced => Balanced'
  BY <1>1, <1>2, <1>3, <1>8 DEF Balanced
<1>11. RoomInv'
  <2>. SUFFICES ASSUME Fits
                PROVE  /\ Balanced' /\ ignored' = 0
                       /\ (total_block_size' + AllHeld') + SizeOf(Unvisited') =< SizeOf(Chunks)
                       /\ pc'[w] # "shrink"
                       /\ pc'[w] = "account" => remaining_space'[w] >= SizeOf(range'[w])
    BY <1>1, RoomKept
  <2>1. /\ Balanced /\ ignored = 0
        /\ (total_block_size + AllHeld) + SizeOf(Unvisited) =< SizeOf(Chunks)
        /\ SizeOf(Chunks) =< max_block_size /\ SizeOf(Chunks) \in Nat
    BY UnvisitedFacts DEF RoomInv, Fits
  <2>2. (total_block_size' + AllHeld') + SizeOf(Unvisited') =< SizeOf(Chunks)
    BY <1>2, <1>3, <1>8, <1>9, <2>1
  <2>3. remaining_space[w] >= SizeOf(range[w])
    BY <1>2 DEF RoomInv
  <2>4. SizeOf({}) = 0
    BY FS_EmptySet DEF SizeOf, TransactionsOf
  <2>5. stop => SizeOf(range[w]) = 0
    BY <1>3, <2>3, <2>4
  <2>. QED
    BY <1>2, <1>3, <1>5, <1>10, <2>1, <2>2, <2>5
<1>12. AloneInv'
  BY <1>1, <1>2, <1>5, <1>10, AloneKept DEF AloneInv
<1>. QED
  BY <1>4, <1>6, <1>7, <1>11, <1>12

-----------------------------------------------------------------------------
\* No step breaks the invariant.
LEMMA Inductive == IInv /\ [Next]_vars => IInv'
<1>. SUFFICES ASSUME IInv, [Next]_vars PROVE IInv'
  OBVIOUS
<1>1. CASE UNCHANGED vars
  <2>1. UNCHANGED <<bodies, max_block_size, unassigned, range, pc, chunk_sz, remaining_space,
                    elts_added_to_block, remaining_block_space, total_block_size, ignored>>
    BY <1>1 DEF vars, locals
  <2>2. AllHeld' = AllHeld /\ SizeOf(Unvisited)' = SizeOf(Unvisited)
    BY <2>1 DEF AllHeld, Cells, held, Held, SizeOf, TransactionsOf, Unvisited
  <2>3. TypeOK' /\ BodyInv' /\ DisjointRanges'
    BY <2>1 DEF IInv, TypeOK, BodyInv, BodyOK, DisjointRanges
  <2>4. RoomInv'
    BY <2>1, <2>2 DEF IInv, RoomInv, Balanced, Fits, SizeOf, TransactionsOf
  <2>5. AloneInv'
    BY <2>1, <2>2 DEF IInv, AloneInv, Balanced, OneBody
  <2>. QED
    BY <2>3, <2>4, <2>5 DEF IInv
<1>2. ASSUME NEW w \in Workers, Body(w) PROVE IInv'
  BY <1>2, StartRange_Preserves, ReserveSpace_Preserves, ShrinkReservation_Preserves,
     ProcessChunk_Preserves, GiveBack_Preserves, AccountChunk_Preserves DEF Body
<1>. QED
  BY <1>1, <1>2 DEF Next, Done

\* The invariant holds in every reachable state.
THEOREM InvariantHolds == Spec => []IInv
  BY Initially, Inductive, PTL DEF Spec

\* Type correctness: no chunk size and no count is ever negative, however many bodies overdraw the
\* space at the same time.
THEOREM TypeCorrect == Spec => []TypeOK
<1>1. IInv => TypeOK
  BY DEF IInv
<1>. QED
  BY <1>1, InvariantHolds, PTL

\* For every number of threads: when the mempool fits into the block, no body leaves a transaction
\* out because of what the others have reserved and not yet given back.
THEOREM NothingIgnored == Spec => []NothingIgnoredIfItFits
<1>1. IInv => NothingIgnoredIfItFits
  BY DEF IInv, RoomInv, Fits, NothingIgnoredIfItFits
<1>. QED
  BY <1>1, InvariantHolds, PTL

\* The condition under which the reservations are right: with several bodies and a mempool that
\* does not fit, they are not.
Uncontended == Fits \/ OneBody

\* The block limit is kept by one body, whatever the mempool, and by any number of bodies when the
\* mempool fits.
THEOREM LimitKept == Spec => [](Uncontended => WithinBlockLimit)
<1>1. ASSUME IInv, Uncontended PROVE WithinBlockLimit
  <2>1. /\ AllHeld \in Nat /\ SizeOf(Unvisited) \in Nat /\ SizeOf(Chunks) \in Nat
        /\ total_block_size \in Nat /\ max_block_size \in Nat /\ remaining_block_space \in Int
    BY <1>1, HeldType, UnvisitedFacts DEF IInv, TypeOK
  <2>2. CASE Fits
    BY <1>1, <2>1, <2>2 DEF IInv, RoomInv, Fits, WithinBlockLimit
  <2>3. CASE OneBody
    <3>1. CASE bodies = {}
      BY <1>1, <2>1, <2>3, <3>1 DEF IInv, AloneInv, Balanced, WithinBlockLimit
    <3>2. ASSUME NEW w \in bodies PROVE WithinBlockLimit
      <4>1. w \in Workers /\ chunk_sz[w] \in Nat /\ remaining_space[w] \in Int
        BY <1>1 DEF IInv, TypeOK
      <4>2. /\ Balanced
            /\ pc[w] = "shrink" => /\ 0 =< remaining_space[w]
                                   /\ remaining_block_space = remaining_space[w] - chunk_sz[w]
            /\ pc[w] # "shrink" => remaining_block_space >= 0
        BY <1>1, <2>3 DEF IInv, AloneInv
      <4>3. CASE pc[w] = "shrink"
        <5>1. held \in [Workers -> Nat] /\ held[w] = chunk_sz[w]
          BY <1>1, <4>1, <4>3, HeldType DEF IInv, held, Held
        <5>2. chunk_sz[w] =< AllHeld
          BY <4>1, <5>1, ConstantsAssumption, CellsUpdate DEF AllHeld
        <5>. QED
          BY <2>1, <4>1, <4>2, <4>3, <5>2 DEF Balanced, WithinBlockLimit
      <4>. QED
        BY <2>1, <4>2, <4>3 DEF Balanced, WithinBlockLimit
    <3>. QED
      BY <3>1, <3>2
  <2>. QED
    BY <1>1, <2>2, <2>3 DEF Uncontended
<1>. QED
  BY <1>1, InvariantHolds, PTL

\* In the same cases no slot is lost or invented: when the reduction has returned, what is left of
\* the limit is what the block does not use.
THEOREM SpaceReturned == Spec => [](Uncontended => SpaceAccountedFor)
<1>1. ASSUME IInv, Uncontended, AllReturned
      PROVE  remaining_block_space = max_block_size - total_block_size
  <2>1. Balanced
    BY <1>1 DEF IInv, RoomInv, AloneInv, Uncontended
  <2>2. AllHeld = 0
    <3>1. \A w \in Workers : held[w] = 0
      BY <1>1 DEF AllReturned, held, Held
    <3>. QED
      BY <3>1, NoCells DEF AllHeld
  <2>. QED
    BY <1>1, <2>1, <2>2 DEF Balanced, IInv, TypeOK
<1>2. IInv => (Uncontended => SpaceAccountedFor)
  BY <1>1 DEF SpaceAccountedFor
<1>. QED
  BY <1>2, InvariantHolds, PTL
=============================================================================
