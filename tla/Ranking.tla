------------------------------ MODULE Ranking ------------------------------
(***************************************************************************)
(* How a query is answered: search.py, fusion.py, reranker.py (what it     *)
(* computes) and mmr.py.  A list is the store's answer, best hit first,    *)
(* before the limit is applied.  Scores are natural numbers, 0 .. Scale    *)
(* standing for 0 .. 1; weights and similarities are in tenths.            *)
(***************************************************************************)
EXTENDS Integers, Sequences, SequencesExt, FiniteSets

CONSTANTS
  Source,              \* Source[c]: the document of chunk c
  RrfK, OverFetch,     \* rrf_k, OVERFETCH_MULTIPLIER
  Threshold,           \* relevance_threshold
  TopN,                \* rerank_top_n
  Relevance, Penalty,  \* mmr_lambda, mmr_source_penalty
  MaxPerSource         \* max_chunks_per_source

ASSUME RankingAssumption ==
  /\ {RrfK, OverFetch, Threshold, TopN, MaxPerSource} \subseteq Nat
  /\ {Relevance, Penalty} \subseteq 0 .. 10

Scale == 10000

\* vec: the hit carries the embedding (one of the keyword search does not).
Hit(chunk, score, vec) == [chunk |-> chunk, score |-> score, vec |-> vec]

Chunk(hits) == [i \in DOMAIN hits |-> hits[i].chunk]
First(hits, n) == SubSeq(hits, 1, IF n < Len(hits) THEN n ELSE Len(hits))
Relevant(hits) == SelectSeq(hits, LAMBDA h : h.score >= Threshold)

\* The values of a sequence spread over 0 .. Scale; all Scale when they are one.
Spread(values) ==
  LET low == CHOOSE x \in ToSet(values) : \A y \in ToSet(values) : x <= y
      span == (CHOOSE x \in ToSet(values) : \A y \in ToSet(values) : x >= y) - low
  IN [i \in DOMAIN values |->
        IF span = 0 THEN Scale ELSE ((values[i] - low) * Scale) \div span]

\* <<score, place>> before <<score, place>>: the higher score, of equals the earlier
Better(p, q) == p[1] > q[1] \/ (p[1] = q[1] /\ p[2] < q[2])

\* The hits with these scores, highest first
Sorted(hits, scores) ==
  LET order == SetToSortSeq({<<scores[i], i>> : i \in DOMAIN hits}, Better)
  IN [r \in DOMAIN hits |-> [hits[order[r][2]] EXCEPT !.score = order[r][1]]]

----------------------------------------------------------------------------
\* reciprocal_rank_fusion()
Share(hits, c) ==
  IF \E i \in DOMAIN hits : hits[i].chunk = c
  THEN 1000000 \div (RrfK + IndexFirstSubSeq(<<c>>, Chunk(hits))) ELSE 0

LastShare(vector, keyword, c) ==
  IF Share(keyword, c) > 0 THEN Share(keyword, c) ELSE Share(vector, c)

RrfScore(vector, keyword, c) == Share(vector, c) + Share(keyword, c)

Fused(vector, keyword) ==
  LET hits == vector \o SelectSeq(keyword, LAMBDA h : h.chunk \notin ToSet(Chunk(vector)))
      scores == [i \in DOMAIN hits |-> RrfScore(vector, keyword, hits[i].chunk)]
  IN Sorted(hits, scores)

Rrf(vector, keyword, limit) ==
  LET fused == First(Fused(vector, keyword), limit)
  IN [i \in DOMAIN fused |-> [fused[i] EXCEPT !.score = (@ * Scale) \div fused[1].score]]

----------------------------------------------------------------------------
\* Reranker.rerank(); logit[c] is what the model says of the query and c.
Rerank(hits, logit) ==
  LET top == First(hits, TopN)
  IN Sorted(top, Spread([i \in DOMAIN top |-> logit[top[i].chunk]]))
     \o SubSeq(hits, Len(top) + 1, Len(hits))

\* Similarity of hit i to the selected ones, at least Penalty for a known document.
Similar(hits, picked, near, i) ==
  LET known == {near[hits[i].chunk][hits[j].chunk] :
                  j \in {j \in ToSet(picked) : hits[i].vec /\ hits[j].vec}}
      again == {Penalty : j \in {j \in ToSet(picked) :
                  Source[hits[j].chunk] = Source[hits[i].chunk]}}
  IN CHOOSE x \in known \cup again \cup {0} : \A y \in known \cup again : x >= y

SimilarOnly(hits, picked, near, i) ==
  LET known == {near[hits[i].chunk][hits[j].chunk] :
                  j \in {j \in ToSet(picked) : hits[i].vec /\ hits[j].vec}}
  IN CHOOSE x \in known \cup {0} : \A y \in known : x >= y

PickLast(ranked) ==
  CHOOSE p \in ranked : \A q \in ranked : p[1] > q[1] \/ (p[1] = q[1] /\ p[2] >= q[2])

\* The loop over the remaining indices keeps the first of equal values.
Pick(ranked) == CHOOSE p \in ranked : \A q \in ranked : p = q \/ Better(p, q)

\* Scores are computed again once the selection is complete.
Again(hits, picked, near, i) == Similar(hits, picked, near, i)

\* mmr_rerank()
Mmr(hits, near) ==
  LET relevance == Spread([i \in DOMAIN hits |-> hits[i].score])
      value(i, similar) == Relevance * relevance[i] - (10 - Relevance) * similar * (Scale \div 10)
      add(picked, n) ==
        LET ranked == {<<value(i, Similar(hits, picked, near, i)), i>> :
                         i \in DOMAIN hits \ ToSet(picked)}
        IN Append(picked, Pick(ranked)[2])
      picked == FoldLeft(add, <<>>, [n \in DOMAIN hits |-> n])
      scores == Spread([r \in DOMAIN picked |->
        value(picked[r], Again(hits, SubSeq(picked, 1, r - 1), near, picked[r]))])
  IN [r \in DOMAIN picked |-> [hits[picked[r]] EXCEPT !.score = scores[r]]]

\* _apply_reranking(); model = FALSE: there is no reranker, or it is disabled; mmr is
\* mmr_enabled.
ApplyReranking(hits, model, mmr, logit, near) ==
  LET ranked == IF model /\ hits # <<>> THEN Rerank(hits, logit) ELSE hits
  IN IF mmr /\ Len(ranked) > 1 THEN Mmr(ranked, near) ELSE ranked

----------------------------------------------------------------------------
\* _semantic_search(), _keyword_search()
Semantic(vector, limit) == Relevant(First(vector, limit))
Keyword(keyword, limit) == First(keyword, limit)

\* What _hybrid_search() passes on to _apply_reranking()
Candidates(vector, keyword, limit) ==
  LET semantic == First(vector, limit * OverFetch)
      words == Keyword(keyword, limit * OverFetch)
  IN IF words = <<>> THEN First(Relevant(semantic), limit)
     ELSE IF semantic = <<>> THEN First(words, limit)
     ELSE Rrf(semantic, words, limit)

Hybrid(vector, keyword, limit, model, mmr, logit, near) ==
  ApplyReranking(Candidates(vector, keyword, limit), model, mmr, logit, near)

\* _deduplicate_by_source()
DedupBySource(hits) ==
  LET of(s, i) == {j \in 1 .. i : Source[hits[j].chunk] = s}
      kept == SelectSeq([i \in DOMAIN hits |-> i],
                LAMBDA i : Cardinality(of(Source[hits[i].chunk], i)) <= MaxPerSource)
  IN IF MaxPerSource = 0 THEN hits ELSE [r \in DOMAIN kept |-> hits[kept[r]]]

\* search_results(); wanted: the chunks the doc_types and folder filters let through
SearchResults(mode, vector, keyword, limit, wanted, model, mmr, logit, near) ==
  LET results == CASE mode = "keyword" -> Keyword(keyword, limit)
                   [] mode = "semantic" -> Semantic(vector, limit)
                   [] OTHER -> Hybrid(vector, keyword, limit, model, mmr, logit, near)
  IN SelectSeq(DedupBySource(results), LAMBDA h : h.chunk \in wanted)

LimitOnly(limit, note) == limit
WithOwnChunks(limit, note) == limit + Cardinality({c \in DOMAIN Source : Source[c] = note})

\* find_related(): vector is the store's answer to the mean of the note's embeddings
FindRelated(note, vector, limit) ==
  First(SelectSeq(First(vector, WithOwnChunks(limit, note)),
                  LAMBDA h : Source[h.chunk] # note), limit)
=============================================================================
