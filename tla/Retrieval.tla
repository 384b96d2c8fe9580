------------------------------ MODULE Retrieval ------------------------------
(***************************************************************************)
(* The pure part of retrieval: metadata filter (rag/metadata_filter.py),   *)
(* BM25 and vector search fused by rank (rag/hybrid_retriever.py), and the *)
(* second ranking by a cross-encoder with its fallback (rag/reranker.py).  *)
(*                                                                         *)
(* A document of the corpus is [category, meta, legible, scores]: meta     *)
(* gives every metadata field the set of its values ({} where the field is *)
(* missing), legible says that source and text are long enough to be used, *)
(* scores gives for every wording of a query how well the keywords (0: no  *)
(* word in common), the embedding and the cross-encoder like the document. *)
(***************************************************************************)
EXTENDS Integers, Sequences, FiniteSets, FiniteSetsExt, SequencesExt, Ordering

CONSTANTS
  Corpus,           \* chunk id -> document
  FetchMultiplier,  \* rag_fetch_multiplier
  RrfK,             \* rag_rrf_k
  TopKPerTask,      \* rag_rerank_top_k_per_task
  MinPerHotel       \* rag_rerank_min_per_hotel

ASSUME RetrievalIsConfigured ==
  /\ FetchMultiplier \in Nat \ {0} /\ RrfK \in Nat \ {0}
  /\ TopKPerTask \in Nat \ {0} /\ MinPerHotel \in Nat

ASSUME CorpusIsIndexed == DOMAIN Corpus \subseteq Int /\ IsFiniteSet(DOMAIN Corpus)

Small(a, b) == IF a < b THEN a ELSE b
Large(a, b) == IF a > b THEN a ELSE b
NoScore == -1

\* Every field of the filter has to share a value with the document.
MetadataMatches(meta, filter) == \A f \in DOMAIN filter : meta[f] \cap filter[f] # {}

MatchingChunks(filter) == {c \in DOMAIN Corpus : MetadataMatches(Corpus[c].meta, filter)}
-----------------------------------------------------------------------------
(* Two searches over the same candidates, fused by their ranks. *)

FetchK(task, candidates) ==
  Small(Large(task.topK * FetchMultiplier, task.topK), Cardinality(candidates))

\* Both searches put the best first; chunk ids break ties.
Hits(score, k) ==
  LET best == Ordered({[key |-> <<-score[c], c>>, item |-> c] : c \in DOMAIN score})
  IN  [i \in 1 .. Small(k, Len(best)) |-> best[i]]

Keyword(task, c) == Corpus[c].scores[task.wording].keyword
Semantic(task, c) == Corpus[c].scores[task.wording].semantic
Cross(task, c) == Corpus[c].scores[task.wording].cross

Bm25Hits(task, candidates) ==
  Hits([c \in {c \in candidates : Keyword(task, c) > 0} |-> Keyword(task, c)],
       FetchK(task, candidates))
VectorHits(task, candidates) ==
  Hits([c \in candidates |-> Semantic(task, c)], FetchK(task, candidates))

\* Behind every rank.
Unranked == 1 + Cardinality(DOMAIN Corpus)
RankIn(hits, c) ==
  IF c \in ToSet(hits) THEN CHOOSE i \in DOMAIN hits : hits[i] = c ELSE Unranked

\* One summand of the score, in millionths; a search that has not found the chunk adds none.
Share(rank) == IF rank = Unranked THEN 0 ELSE 1000000 \div (RrfK + rank)

FusionScore(bm25Rank, vectorRank) == Share(bm25Rank) + Share(vectorRank)

\* retrieve_task: the candidates that a search found, the best topK of them with their rank.
RetrieveTask(task) ==
  LET candidates == MatchingChunks(task.filter)
      bm25   == Bm25Hits(task, candidates)
      vector == VectorHits(task, candidates)
      fused  == Sorted({[key |-> <<-FusionScore(RankIn(bm25, c), RankIn(vector, c)),
                                   Small(RankIn(bm25, c), RankIn(vector, c)), c>>] :
                        c \in ToSet(bm25) \cup ToSet(vector)})
  IN  [i \in 1 .. Small(task.topK, Len(fused)) |->
        [task |-> task.id, chunk |-> fused[i].key[3], rank |-> i, fusion |-> -fused[i].key[1]]]
-----------------------------------------------------------------------------
(* The second ranking. *)

\* Only the cross-encoder gives a score.
Evidence(task, hit, via, place) ==
  [task |-> task.id, category |-> task.category, chunk |-> hit.chunk, via |-> via,
   score |-> IF via = "cross_encoder" THEN Cross(task, hit.chunk) ELSE NoScore,
   fusion |-> hit.fusion, place |-> place]

HotelsOf(task) ==
  IF task.category = "hotel_reviews" /\ "hotel" \in DOMAIN task.filter THEN task.filter.hotel ELSE {}

\* The first MinPerHotel records of every hotel asked for stay whatever their rank.
ProtectedRecords(task, ranked) ==
  UNION {LET own == Picked(ranked, {i \in DOMAIN ranked : h \in Corpus[ranked[i].chunk].meta.hotel})
         IN  {own[i] : i \in 1 .. Small(MinPerHotel, Len(own))} : h \in HotelsOf(task)}

EffectiveTopK(task, protected, ranked) ==
  Small(Large(Large(Small(TopKPerTask, task.topK), task.min), Cardinality(protected)),
        Len(ranked))

\* _select_records, _select_fallback_records: the protected ones, filled up from the top.
SelectRecords(task, ranked) ==
  LET protected == ProtectedRecords(task, ranked)
      others    == Picked(ranked, {i \in DOMAIN ranked : ranked[i] \notin protected})
      room      == EffectiveTopK(task, protected, ranked) - Cardinality(protected)
      kept      == protected \cup {others[i] : i \in 1 .. Small(room, Len(others))}
  IN  Picked(ranked, {i \in DOMAIN ranked : ranked[i] \in kept})

AsEvidence(task, hits, via) == [i \in DOMAIN hits |-> Evidence(task, hits[i], via, i)]

\* _rerank_task: by the score of the cross-encoder, then by what the fusion thought.
RerankTask(task, hits) ==
  LET ranked == Ordered({[key |-> <<-Cross(task, h.chunk), -h.fusion, h.rank, h.chunk>>,
                          item |-> h] : h \in ToSet(hits)})
  IN  AsEvidence(task, SelectRecords(task, ranked), "cross_encoder")

\* _fallback_task: the order of the fusion, no score.
FallbackTask(task, hits) == AsEvidence(task, SelectRecords(task, hits), "fallback")

\* _build_rrf_passthrough_output: every hit in the order of the fusion.
PassThrough(task, hits) == AsEvidence(task, hits, "rrf_passthrough")
=============================================================================
