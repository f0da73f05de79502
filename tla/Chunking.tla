------------------------------ MODULE Chunking ------------------------------
(***************************************************************************)
(* How the body of a Markdown text is cut into chunks                      *)
(* (markdown_chunker.py, block_chunking_enabled).  A body is a sequence of *)
(* lines with a blank line after each; words stand for characters too, so  *)
(* all sizes are in words.  The words of a body are numbered, and a chunk  *)
(* is the sequence of its words' numbers with its section path, made of    *)
(* the lines of the headings; the "part n" of a split section is left out. *)
(***************************************************************************)
EXTENDS Naturals, Sequences, SequencesExt

CONSTANTS
  MaxWords, MinWords, OverlapWords, \* chunk_max_words, ...
  MinLength,                        \* min_chunk_length
  SplitThreshold, TargetSize        \* _PARAGRAPH_SPLIT_THRESHOLD, _TARGET_SIZE

ASSUME ChunkingAssumption ==
  /\ {MaxWords, MinWords, OverlapWords, MinLength, SplitThreshold, TargetSize} \subseteq Nat
  /\ 0 < MinLength /\ MinLength <= MinWords /\ OverlapWords < MaxWords

\* level 1-3: a heading; 0: text.  stop: its last word ends a sentence.
Heading(n) == [level |-> n, words |-> 2, stop |-> FALSE]
Text(n, stop) == [level |-> 0, words |-> n, stop |-> stop]

\* The words before line i, those of lines a .. b, and those that end a sentence.
Before(body, i) == FoldLeft(LAMBDA n, l : n + l.words, 0, SubSeq(body, 1, i - 1))
Words(body, a, b) ==
  LET first == Before(body, a)
  IN [j \in 1 .. Before(body, b + 1) - first |-> first + j]
Stops(body) == {Before(body, i + 1) : i \in {j \in DOMAIN body : body[j].stop}}

Section(words, path) == [words |-> words, path |-> path]

HeadingLines(body) == SelectSeq([i \in DOMAIN body |-> i], LAMBDA i : body[i].level > 0)

PushDeepest(body, stack, i) ==
  Append(SelectSeq(stack, LAMBDA j : body[j].level # body[i].level), i)

\* The heading stack: a heading replaces its level and clears the deeper ones.
Push(body, stack, i) ==
  Append(SelectSeq(stack, LAMBDA j : body[j].level < body[i].level), i)

\* _split_by_headings()
SplitByHeadings(body) ==
  LET hs == HeadingLines(body)
      end(n) == IF n < Len(hs) THEN hs[n + 1] - 1 ELSE Len(body)
      stack(n) == FoldLeft(LAMBDA s, i : Push(body, s, i), <<>>, SubSeq(hs, 1, n))
      preamble == Words(body, 1, hs[1] - 1)
  IN IF hs = <<>> THEN <<Section(Words(body, 1, Len(body)), <<>>)>>
     ELSE (IF preamble = <<>> THEN <<>> ELSE <<Section(preamble, <<>>)>>)
          \o [n \in DOMAIN hs |-> Section(Words(body, hs[n] + 1, end(n)), stack(n))]

\* _split_by_paragraphs(): a heading line is a paragraph like any other.
SplitByParagraphs(body) ==
  LET add(acc, i) ==
        LET para == Words(body, i, i)
        IN IF acc.part # <<>> /\ Len(acc.part) + Len(para) > TargetSize
           THEN [done |-> Append(acc.done, Section(acc.part, <<>>)), part |-> para]
           ELSE [acc EXCEPT !.part = @ \o para]
      all == FoldLeft(add, [done |-> <<>>, part |-> <<>>], [i \in DOMAIN body |-> i])
  IN Append(all.done, Section(all.part, <<>>))

----------------------------------------------------------------------------
\* The sentences of a section's words
Sentences(words, stops) ==
  LET add(acc, w) ==
        IF w \in stops THEN [done |-> Append(acc.done, Append(acc.part, w)), part |-> <<>>]
                       ELSE [acc EXCEPT !.part = Append(@, w)]
      all == FoldLeft(add, [done |-> <<>>, part |-> <<>>], words)
  IN IF all.part = <<>> THEN all.done ELSE Append(all.done, all.part)

OverlapOneMore(words) ==
  IF Len(words) <= OverlapWords + 1 THEN words
  ELSE SubSeq(words, Len(words) - OverlapWords, Len(words))

\* The last words of a part, repeated at the start of the next one
Overlap(words) ==
  IF Len(words) <= OverlapWords THEN words
  ELSE SubSeq(words, Len(words) - OverlapWords + 1, Len(words))

\* Phase 1 of _enforce_size_limits(): a section of one sentence stays as it is.
SplitOversized(section, stops) ==
  LET sentences == Sentences(section.words, stops)
      add(acc, s) ==
        IF acc.part # <<>> /\ Len(acc.part) + Len(s) > MaxWords
        THEN [done |-> Append(acc.done, acc.part), part |-> Overlap(acc.part) \o s]
        ELSE [acc EXCEPT !.part = @ \o s]
      all == FoldLeft(add, [done |-> <<>>, part |-> <<>>], sentences)
      parts == Append(all.done, all.part)
  IN IF Len(section.words) <= MaxWords \/ Len(sentences) <= 1 THEN <<section>>
     ELSE [i \in DOMAIN parts |-> Section(parts[i], section.path)]

\* Phase 2: a section below MinWords takes the next one in and keeps its own path.
MergeUndersized(sections) ==
  FoldLeft(LAMBDA done, s :
             IF done # <<>> /\ Len(Last(done).words) < MinWords
             THEN Append(Front(done), [Last(done) EXCEPT !.words = @ \o s.words])
             ELSE Append(done, s), <<>>, sections)

\* One section, too long: the headings, if any, do not count.
Fallback(body) ==
  Len(SplitByHeadings(body)) = 1 /\ Before(body, Len(body) + 1) > SplitThreshold

EnforceDropped(sections, stops) ==
  LET long == SelectSeq(sections, LAMBDA s : Len(s.words) >= MinLength)
  IN MergeUndersized(FlattenSeq([i \in DOMAIN long |-> SplitOversized(long[i], stops)]))

\* _enforce_size_limits()
EnforceSizeLimits(sections, stops) ==
  MergeUndersized(FlattenSeq([i \in DOMAIN sections |-> SplitOversized(sections[i], stops)]))

DropShort(sections) == SelectSeq(sections, LAMBDA s : Len(s.words) >= MinLength)

\* chunk_text() of a body
Chunks(body) ==
  LET sections == IF Fallback(body) THEN SplitByParagraphs(body) ELSE SplitByHeadings(body)
  IN DropShort(EnforceSizeLimits(sections, Stops(body)))
=============================================================================
