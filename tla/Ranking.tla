--------------------------------- MODULE Ranking ---------------------------------
(***************************************************************************)
(* HybridRetriever.retrieve after both branches of the search have         *)
(* answered: reciprocal rank fusion, the ranks for exact terms and hints,  *)
(* the cap on every section, and the neighbours that fill up the pool.     *)
(* 1 / (60 + rank) is a whole number in units of 1 / Unit, which divides   *)
(* by 61 to 65: the lists here are no longer than five.                    *)
(***************************************************************************)
EXTENDS Naturals, Sequences, FiniteSets, SequencesExt, Ordering

CONSTANTS
    Chunk,      \* Chunk[c]: section, index in the file, place of its id in the order of
                \* ids, number of exact terms and position of the first, number of hints
    Dense, Sparse,  \* the lists of hits that the branches may answer
    Losses,     \* sets of chunks whose rows are gone when they are loaded
    Limits      \* [pool, section, radius]

VARIABLES
    hits,       \* what the branches found
    lost,
    limit,
    stage,
    order,      \* the loaded chunks, ranked
    primaries,  \* those that the caps leave
    pool        \* with their neighbours

vars == <<hits, lost, limit, stage, order, primaries, pool>>

Init ==
    /\ hits \in [dense : Dense, sparse : Sparse]
    /\ lost \in Losses
    /\ limit \in Limits
    /\ stage = "found"
    /\ order = <<>> /\ primaries = <<>> /\ pool = <<>>

\* The position of c in s, or 0.
Rank(s, c) == SelectInSeq(s, LAMBDA x : x = c)

-------------------------------------------------------------------------------
(* _fuse_branches and _rank_hydrated *)

Unit == (61 * 62 * 63 * 64 * 65) \div 2
Rrf(s, c) == IF Rank(s, c) = 0 THEN 0 ELSE Unit \div (60 + Rank(s, c))

Found == ToSet(hits.dense) \cup ToSet(hits.sparse)
Hydrated == Found \ lost

Base(c) == Rrf(hits.dense, c) + Rrf(hits.sparse, c)

\* The chunks by score, the best first, those that are equal by id.
ByScore(score) ==
    Ordered(DOMAIN score, LAMBDA c, d :
        score[c] > score[d] \/ (score[c] = score[d] /\ Chunk[c].id < Chunk[d].id))

BaseOrder == ByScore([c \in Hydrated |-> Base(c)])

ExactOrder(base) ==
    Ordered({c \in Hydrated : Chunk[c].terms > 0}, LAMBDA c, d :
        \/ Chunk[c].terms > Chunk[d].terms
        \/ Chunk[c].terms = Chunk[d].terms /\ Chunk[c].at < Chunk[d].at
        \/ /\ Chunk[c].terms = Chunk[d].terms /\ Chunk[c].at = Chunk[d].at
           /\ Rank(base, c) < Rank(base, d))

HintOrder(base) ==
    Ordered({c \in Hydrated : Chunk[c].hints > 0}, LAMBDA c, d :
        \/ Chunk[c].hints > Chunk[d].hints
        \/ Chunk[c].hints = Chunk[d].hints /\ Rank(base, c) < Rank(base, d))

Ranked ==
    LET base == BaseOrder
        exact == ExactOrder(base)
        hint == HintOrder(base)
    IN  ByScore([c \in Hydrated |-> Base(c) + Rrf(exact, c) + Rrf(hint, c)])

Fuse ==
    /\ stage = "found" /\ stage' = "ranked"
    /\ order' = Ranked
    /\ UNCHANGED <<hits, lost, limit, primaries, pool>>

-------------------------------------------------------------------------------
(* Caps and neighbours *)

InSection(s, section) == Cardinality({i \in DOMAIN s : Chunk[s[i]].section = section})

\* Some of the pool is kept for neighbours.
PrimaryLimit ==
    LET quarter == limit.pool \div 4
        reserve == IF limit.radius = 0 THEN 0
                   ELSE IF quarter < Len(order) THEN quarter ELSE Len(order)
    IN  IF limit.pool - reserve > 1 THEN limit.pool - reserve ELSE 1

\* What joins s without breaking the caps, taken in turn.
Filled(s, more, most) ==
    LET Step(chosen, c) ==
            IF Len(chosen) < most /\ InSection(chosen, Chunk[c].section) < limit.section
            THEN Append(chosen, c) ELSE chosen
    IN  FoldLeft(Step, s, more)

\* _cap_sections
CapSections ==
    /\ stage = "ranked" /\ stage' = "capped"
    /\ primaries' = Filled(<<>>, order, PrimaryLimit)
    /\ UNCHANGED <<hits, lost, limit, order, pool>>

Distance(c, d) ==
    IF Chunk[c].index > Chunk[d].index THEN Chunk[c].index - Chunk[d].index
    ELSE Chunk[d].index - Chunk[c].index

\* The chunks near a primary, in its section, that no branch has found.
Near(c, root) ==
    Chunk[c].section = Chunk[root].section /\ Distance(c, root) <= limit.radius
Neighbors ==
    {c \in DOMAIN Chunk \ (Found \cup lost) : \E root \in ToSet(primaries) : Near(c, root)}

\* The nearest primary, the better one of two.
RootOf(c) ==
    CHOOSE i \in DOMAIN primaries :
        /\ Near(c, primaries[i])
        /\ \A j \in DOMAIN primaries : Near(c, primaries[j]) =>
              \/ Distance(c, primaries[i]) < Distance(c, primaries[j])
              \/ Distance(c, primaries[i]) = Distance(c, primaries[j]) /\ i <= j

NeighborOrder ==
    LET away(c) == Distance(c, primaries[RootOf(c)]) IN
    Ordered(Neighbors, LAMBDA c, d :
        \/ RootOf(c) < RootOf(d)
        \/ RootOf(c) = RootOf(d) /\ away(c) < away(d)
        \/ RootOf(c) = RootOf(d) /\ away(c) = away(d) /\ Chunk[c].index < Chunk[d].index)

\* Mutant: the sections are counted from nothing again.
PoolCountedAnew ==
    primaries \o Filled(<<>>, NeighborOrder, limit.pool - Len(primaries))

Pool ==
    IF limit.radius = 0 \/ Len(primaries) >= limit.pool THEN primaries
    ELSE Filled(primaries, NeighborOrder, limit.pool)

AddNeighbors ==
    /\ stage = "capped" /\ stage' = "pooled"
    /\ pool' = Pool
    /\ UNCHANGED <<hits, lost, limit, order, primaries>>

Next == Fuse \/ CapSections \/ AddNeighbors

Spec == Init /\ [][Next]_vars

-------------------------------------------------------------------------------
(* Properties *)

\* c is found no later than d by both branches, and by one of them earlier, and it has no
\* fewer exact terms, no later, and no fewer hints.
Earlier(s, c, d) == Rank(s, c) # 0 /\ (Rank(s, d) = 0 \/ Rank(s, c) < Rank(s, d))
Dominates(c, d) ==
    /\ \A s \in {hits.dense, hits.sparse} : Rank(s, d) # 0 => Earlier(s, c, d)
    /\ Chunk[c].terms >= Chunk[d].terms
    /\ Chunk[c].terms = Chunk[d].terms => Chunk[c].at <= Chunk[d].at
    /\ Chunk[c].hints >= Chunk[d].hints

\* A chunk that is better in every respect is ranked first; the primaries are the best of
\* every section and of all; and the pool keeps to its caps, neighbours and all, holds
\* nothing twice and nothing that is gone, and neighbours only of primaries.
PoolIsSound ==
    /\ \A i, j \in DOMAIN order : Dominates(order[i], order[j]) => i < j
    /\ stage = "pooled" =>
        /\ LET InBest(i) == Cardinality({j \in 1 .. i - 1 :
                   Chunk[order[j]].section = Chunk[order[i]].section}) < limit.section
               best == {i \in DOMAIN order : InBest(i)}
           IN  ToSet(primaries) =
                   {order[i] : i \in {j \in best :
                       Cardinality({k \in best : k < j}) < PrimaryLimit}}
        /\ Len(pool) <= limit.pool /\ IsInjective(pool)
        /\ \A c \in ToSet(pool) : InSection(pool, Chunk[c].section) <= limit.section
        /\ ToSet(pool) \cap lost = {}
        /\ \A c \in ToSet(pool) \ ToSet(primaries) :
              c \notin Found /\ \E root \in ToSet(primaries) : Near(c, root)
================================================================================
