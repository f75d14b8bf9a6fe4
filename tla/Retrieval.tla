------------------------------ MODULE Retrieval ------------------------------
(***************************************************************************)
(* What a prompt is told about the business: the candidates of a query     *)
(* (repos/knowledge.ts, listChunksForRetrieval), by text and by vector,    *)
(* and their fusion by rank (knowledge/retrieve.ts).  Chunks are embedded  *)
(* by the model of the day, and the model of the process may change.       *)
(***************************************************************************)
EXTENDS Naturals, FiniteSets, Sequences, Functions

CONSTANTS
    None,
    Chunks,     \* knowledge_chunks of a client, by their number
    Models,     \* values of AI_EMBEDDING_MODEL
    Width,      \* the width of the vectors of a model
    Most,       \* FTS_CANDIDATES, of either kind
    K,          \* chunks a prompt is given
    Whole       \* a common multiple of what the ranks of a list are divided by

RetrievalAssumption ==
    /\ Chunks \subseteq Nat \ {0} /\ IsFiniteSet(Chunks)
    /\ Width \in [Models -> Nat] /\ None \notin Models
    /\ Most \in Nat \ {0} /\ K \in Nat
    /\ Whole \in Nat \ {0} /\ \A i \in 1..Most : Whole % (60 + i) = 0

VARIABLES
    model,      \* the model of the process
    madeBy,     \* the model of the vector of a chunk, or None
    fts,        \* of the last query: the matches by text, best first
    near,       \* and by vector
    heard,      \* the model answered with the vector of the query
    answer      \* what the prompt was given

query == <<fts, near, heard, answer>>
vars == <<model, madeBy, query>>

Orders(S) == UNION {{q \in [1..n -> S] : IsInjective(q)} : n \in 0..Cardinality(S)}
FullOrders(S) == {q \in Orders(S) : Len(q) = Cardinality(S)}
Top(q, n) == SubSeq(q, 1, IF Len(q) < n THEN Len(q) ELSE n)

Init ==
    /\ model \in Models /\ madeBy = [c \in Chunks |-> None]
    /\ fts = <<>> /\ near = <<>> /\ heard = FALSE /\ answer = <<>>

\* An ingest stores a chunk with a vector, or without one (see Knowledge).
Ingest(c) ==
    /\ madeBy' \in {[madeBy EXCEPT ![c] = m] : m \in {model, None}}
    /\ UNCHANGED <<model, query>>

\* The process is started with another model.
Configure ==
    /\ model' \in Models \ {model}
    /\ UNCHANGED <<madeBy, query>>

\* The vectors that are compared with that of the query: those of its width.
Comparable(c) == madeBy[c] # None /\ Width[madeBy[c]] = Width[model]

\* Ranks start at 1, and count 1 / (60 + rank); all over one denominator.
Place(q, c) == CHOOSE i \in DOMAIN q : q[i] = c
Part(q, c) == IF c \in Range(q) THEN Whole \div (60 + Place(q, c)) ELSE 0
Score(f, v, c) == Part(f, c) + Part(v, c)

\* Reciprocal-rank fusion: by score, and by number where scores are equal.
Above(f, v, a, b) ==
    \/ Score(f, v, a) > Score(f, v, b)
    \/ Score(f, v, a) = Score(f, v, b) /\ a < b

Fuse(f, v) ==
    CHOOSE q \in FullOrders(Range(f) \cup Range(v)) :
        \A i, j \in DOMAIN q : i < j => Above(f, v, q[i], q[j])

\* retrieveKnowledge: the matches by text are any of the chunks in any order,
\* the vectors are all there are, by their distance; the model may not answer.
Query ==
    \E f \in Orders(Chunks) :
        /\ fts' = Top(f, Most)
        /\ \/ \E v \in FullOrders({c \in Chunks : Comparable(c)}) :
                 heard' = TRUE /\ near' = Top(v, Most)
           \/ heard' = FALSE /\ near' = <<>>
        /\ answer' = Top(Fuse(fts', near'), K)
        /\ UNCHANGED <<model, madeBy>>

Next == Configure \/ Query \/ \E c \in Chunks : Ingest(c)

Spec == Init /\ [][Next]_vars

-----------------------------------------------------------------------------
(* Properties.                                                             *)

\* "Skip it rather than compare vectors from incompatible spaces"
\* (retrieve.ts:73), and "embedding_model decides whether a stored vector can be
\* compared with a fresh query vector" (ingest.ts:213).
SpacesNotMixed ==
    [][fts' # fts \/ near' # near
          => \A c \in Range(near') : madeBy[c] = model]_vars

\* "Rank position, not raw score, so the two very different scales can be
\* combined" (retrieve.ts:87): a chunk that both lists place above another is
\* before it in the prompt, and never left out for it.
AgreedComesFirst ==
    \A a, b \in Range(fts) \cup Range(near) :
        LET Better(q) == a \in Range(q) /\ (b \in Range(q) => Place(q, a) < Place(q, b))
        IN  Better(fts) /\ Better(near) /\ b \in Range(answer)
                => a \in Range(answer) /\ Place(answer, a) < Place(answer, b)

\* A chunk is kept from the prompt only for another that was found: nothing
\* that was found is lost while there is room (retrieve.ts:101).
FoundIsTold ==
    Len(answer) < K => Range(answer) = Range(fts) \cup Range(near)

-----------------------------------------------------------------------------
(* What the proofs need beside the properties: the inductive invariant.    *)

\* A list of candidates: any of the chunks, at most so many.
IsRanking(q) == q \in Seq(Chunks) /\ IsInjective(q) /\ Len(q) =< Most

RetrievalInv ==
    /\ model \in Models /\ madeBy \in [Chunks -> Models \cup {None}]
    /\ IsRanking(fts) /\ IsRanking(near) /\ answer = Top(Fuse(fts, near), K)
=============================================================================
