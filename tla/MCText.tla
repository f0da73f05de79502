------------------------------- MODULE MCText -------------------------------
(***************************************************************************)
(* Every short text and every pair of short lists: `doc' grows by a line   *)
(* or the store's two lists for a query grow by a hit, and what the        *)
(* chunker and the search engine make of them is compared with what a      *)
(* reader of the index and of the answer relies on.                        *)
(***************************************************************************)
EXTENDS Chunking, Ranking

CONSTANTS Lines, MaxLines

VARIABLES doc, vector, keyword, limit, model, mmr, logit, near

vars == <<doc, vector, keyword, limit, model, mmr, logit, near>>

MCSource == [a1 |-> "a", a2 |-> "a", a3 |-> "a", b1 |-> "b"]
MCLines == {Heading(1), Heading(2), Heading(3), Text(1, TRUE), Text(3, TRUE), Text(2, FALSE)}

ChunkIds == DOMAIN Source

Init ==
  /\ doc = <<>> /\ vector = <<>> /\ keyword = <<>>
  /\ limit \in 1 .. 4 /\ model \in BOOLEAN /\ mmr \in BOOLEAN
  /\ logit \in {[a1 |-> 9, a2 |-> 8, a3 |-> 1, b1 |-> 7], [a1 |-> 5, a2 |-> 5, a3 |-> 9, b1 |-> 4]}
  /\ model \/ logit["a1"] = 9
  /\ mmr \/ model
  /\ near \in {[c \in ChunkIds |-> [d \in ChunkIds |-> 0]],
               [c \in ChunkIds |-> [d \in ChunkIds |-> IF Source[c] = Source[d] THEN 7 ELSE 4]]}

Line ==
  /\ vector = <<>> /\ keyword = <<>> /\ Len(doc) < MaxLines
  /\ limit = 2 /\ ~model /\ mmr /\ logit["a1"] = 9 /\ near["a1"]["a1"] = 0
  /\ \E l \in Lines : doc' = Append(doc, l)
  /\ UNCHANGED <<vector, keyword, limit, model, mmr, logit, near>>

Unlisted(hits) == {c \in ChunkIds : \A i \in DOMAIN hits : hits[i].chunk # c}

Near ==
  /\ doc = <<>>
  /\ \E c \in Unlisted(vector) : vector' = Append(vector, Hit(c, 9500 - 2000 * Len(vector), TRUE))
  /\ UNCHANGED <<doc, keyword, limit, model, mmr, logit, near>>

Match ==
  /\ doc = <<>>
  /\ \E c \in Unlisted(keyword) :
       keyword' = Append(keyword, Hit(c, 30000 - 8000 * Len(keyword), FALSE))
  /\ UNCHANGED <<doc, vector, limit, model, mmr, logit, near>>

Next == Line \/ Near \/ Match

Spec == Init /\ [][Next]_vars

----------------------------------------------------------------------------
TextLines == {i \in DOMAIN doc : doc[i].level = 0}
TextWords == UNION {ToSet(Words(doc, i, i)) : i \in TextLines}
InChunks == UNION {ToSet(c.words) : c \in ToSet(Chunks(doc))}

\* Of the text only the end can be missing from the chunks, and less than min_chunk_length
\* of it: undersized sections are merged before short ones are dropped
\* (markdown_chunker.py:119-131).  This rests on MinLength <= MinWords, true of the defaults:
\* with a chunk_min_words configured so low (config.py:31) that a section of as many words
\* is shorter than min_chunk_length, it is not merged and is dropped wherever it stands.
OnlyTheTailIsLost ==
  LET lost == TextWords \ InChunks
  IN /\ Cardinality(lost) < MinLength
     /\ \A w \in lost, v \in TextWords : v > w => v \in lost

\* A chunk is a passage of the text: from one word to the next it moves on to the next word,
\* or steps back within the overlap, where a short first part took the next part in.
ChunkIsAPassage ==
  \A c \in ToSet(Chunks(doc)) : \A j \in 1 .. Len(c.words) - 1 :
    LET p == c.words[j]
        q == c.words[j + 1]
    IN IF q > p THEN \A w \in TextWords : ~(p < w /\ w < q) ELSE q + OverlapWords > p

\* The section path of a chunk is the chain of headings over its first word, or over a
\* heading with no text of its own right before that (whose section took the text in).
\* Exempt is a text that is one long section (Fallback): it is cut up by paragraphs, even
\* under a heading, and the chunks have no path (markdown_chunker.py:112-117).
PathIsWhereItBegins ==
  LET heads(n) == {i \in 1 .. n : doc[i].level > 0}
      chain(n) == {i \in heads(n) : \A k \in heads(n) : k > i => doc[k].level > doc[i].level}
      line(w) == CHOOSE i \in DOMAIN doc : w \in ToSet(Words(doc, i, i))
      starts(w) == {i \in heads(line(w)) \cup {0} :
                      LET own == heads(line(w)) \cup {0}
                          last == CHOOSE h \in own : \A k \in own : k <= h
                      IN i = last \/ (i > 0 /\ \A k \in i .. last : doc[k].level > 0)}
  IN Fallback(doc) \/ \A c \in ToSet(Chunks(doc)) :
       \E i \in starts(c.words[1]) : ToSet(c.path) = chain(i) /\ Len(c.path) = Cardinality(chain(i))

----------------------------------------------------------------------------
Place(hits, c) ==
  IF \E i \in DOMAIN hits : hits[i].chunk = c
  THEN CHOOSE i \in DOMAIN hits : hits[i].chunk = c ELSE Len(hits) + 1

\* A chunk that one search ranks higher and the other no lower comes first in the fusion,
\* and is not cut off when the other is kept (fusion.py:41-55).
FusionRespectsBoth ==
  LET fused == Rrf(vector, keyword, limit)
  IN \A c, d \in ChunkIds :
       /\ Place(vector, c) <= Place(vector, d) /\ Place(keyword, c) <= Place(keyword, d)
       /\ Place(vector, c) < Place(vector, d) \/ Place(keyword, c) < Place(keyword, d)
       /\ Place(fused, d) <= Len(fused)
       => Place(fused, c) < Place(fused, d)

Answer == SearchResults("hybrid", vector, keyword, limit, ChunkIds, model, mmr, logit, near)
Passed == Candidates(vector, keyword, limit)

\* The chunk the cross-encoder finds best comes first whatever the diversity costs the
\* others (reranker.py:105, mmr.py:80-105).  Of a query without vector hits the diversity
\* selection keeps this if all are reranked: the tail keeps its BM25 scores, which are not
\* between 0 and 1.
BestComesFirst ==
  LET passed == Passed
      top == First(passed, TopN)
      best == Answer[1].chunk
  IN model /\ passed # <<>> /\ (mmr => Len(passed) <= TopN \/ vector # <<>>) =>
       \A i \in DOMAIN top : \/ logit[best] > logit[top[i].chunk]
                             \/ /\ logit[best] = logit[top[i].chunk]
                                /\ Place(top, best) <= i

\* The scores an answer shows fall from hit to hit: what the diversity selection computes
\* again for the output (mmr.py:110-131) agrees with the order it selected in.  Without it
\* (mmr_enabled, search.py:296) this is true of the reranked hits and of the tail behind
\* them, and not from the one to the other: the tail keeps the scores it came with.
ScoresDescend ==
  LET answer == Answer
      passed == Passed
      top(h) == Place(passed, h.chunk) <= TopN
  IN \A i, j \in DOMAIN answer :
       i < j /\ (mmr \/ ~model \/ top(answer[i]) = top(answer[j])) =>
         answer[i].score >= answer[j].score

\* find_related() finds as many chunks of other documents as asked for, if there are any:
\* the note's own chunks do not use up the limit (search.py:363-372).
RelatedIsFull ==
  \A note \in {Source[c] : c \in ChunkIds} :
    LET others == {h \in ToSet(vector) : Source[h.chunk] # note}
        found == FindRelated(note, vector, limit)
    IN /\ ToSet(found) \subseteq others
       /\ Len(found) = IF limit < Cardinality(others) THEN limit ELSE Cardinality(others)
=============================================================================
