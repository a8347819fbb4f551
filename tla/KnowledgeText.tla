--------------------------- MODULE KnowledgeText ----------------------------
(***************************************************************************)
(* What the knowledge base does to the text of a document: the parsers,    *)
(* the chunker and the two searches.  KnowledgeIngest, which models when   *)
(* all this happens, takes the chunks as a given set.                      *)
(*                                                                         *)
(* A text is a sequence of numbers: 0 is a space, -1 a line break, and a   *)
(* positive number a visible character, a different one at every place, so *)
(* that a chunk shows which part of the file it holds.  Positions count    *)
(* from 0, as in the code.                                                 *)
(***************************************************************************)
EXTENDS Integers, SequencesExt

CONSTANTS
  Files,             \* uploaded files: suffix, content_type, parts, hidden, pending
  ChunkingConfigs,   \* chunking_config of the collection
  MinChunkSize,      \* the least chunk_size, 64 in the code
  Stores,            \* similarities of the stored chunks to a query, 0 without embedding
  Requests,          \* search requests: limit (0 none), min_similarity (-1 none)
  SearchTopK,        \* knowledge_search_top_k
  SearchMinSimilarity \* knowledge_search_min_similarity_effective

ASSUME TextAssumption == MinChunkSize \in Nat \ {0, 1}

SourceTypes == {"pdf", "markdown", "html", "csv", "txt"}

Visible(c) == c > 0

(* A slice of Python: s[a:b] *)
Slice(s, a, b) == SubSeq(s, a + 1, b)

(* str.strip *)
Strip(t) ==
  LET at == {i \in DOMAIN t : Visible(t[i])}
  IN IF at = {} THEN <<>> ELSE SubSeq(t, Min(at), Max(at))

-----------------------------------------------------------------------------
(* The suffix of the name decides, the content type for other names; "none" is
   an unsupported file, which the upload refuses. *)
DetectSourceType(f) ==
  CASE f.suffix \in SourceTypes -> f.suffix
    [] f.suffix \notin SourceTypes /\ f.content_type \in SourceTypes -> f.content_type
    [] OTHER -> "none"

(* normalize_text: runs of whitespace become one space, none at the ends *)
NormalizeText(text) ==
  LET t == Strip(text)
      kept == SelectSeq([i \in DOMAIN t |-> i],
                        LAMBDA i : Visible(t[i]) \/ Visible(t[i - 1]))
  IN [k \in DOMAIN kept |-> IF Visible(t[kept[k]]) THEN t[kept[k]] ELSE 0]

Join(parts, separator) ==
  FlattenSeq([i \in DOMAIN parts |-> IF i = 1 THEN parts[i] ELSE separator \o parts[i]])

ParseText(f) == [text |-> NormalizeText(FlattenSeq(f.parts)), pages |-> <<>>]

(* What is inside script and style is left out, and so is the text after the last
   tag when an "&" near its end may be an unfinished reference: feed keeps it in
   its buffer, and nothing calls close. *)
ParseHtml(f) ==
  LET raw == FlattenSeq(f.parts)
      dropped == f.hidden \cup f.pending
  IN [text |-> NormalizeText([i \in DOMAIN raw |-> IF raw[i] \in dropped THEN 0 ELSE raw[i]]),
      pages |-> <<>>]

(* One line per row, the header first; a blank line is a row without cells, and a
   quoted cell may hold a line break. *)
ParseCsv(f) == [text |-> Join(f.parts, <<-1>>), pages |-> <<>>]

ParsePdf(f) ==
  LET pages == [i \in DOMAIN f.parts |-> NormalizeText(f.parts[i])]
  IN [text |-> Join(SelectSeq(pages, LAMBDA p : p # <<>>), <<-1, -1>>), pages |-> pages]

(* get_parser *)
Parse(f) ==
  CASE DetectSourceType(f) = "html" -> ParseHtml(f)
    [] DetectSourceType(f) = "csv" -> ParseCsv(f)
    [] DetectSourceType(f) = "pdf" -> ParsePdf(f)
    [] OTHER -> ParseText(f)

-----------------------------------------------------------------------------
(* str.rfind(" ", start, end) *)
RFind(text, start, end) == Max({-1} \cup {i \in start .. end - 1 : text[i + 1] = 0})

(* A piece ends at the last space of its second half, if there is one. *)
PieceEnd(text, size, start) ==
  LET end == Min({start + size, Len(text)})
      split == RFind(text, start, end)
  IN IF end < Len(text) /\ split > start + size \div 2 THEN split ELSE end

(* Mutant: one character is skipped between two pieces. *)
BugNextStart(start, end, overlap) == Max({end + 1 - overlap, start + 1})

NextStart(start, end, overlap) == Max({end - overlap, start + 1})

(* _chunk_recursive: the pieces, of which blank ones are dropped *)
ChunkRecursive(text, config) ==
  LET size == Max({config.chunk_size, MinChunkSize})
      overlap == Min({config.chunk_overlap, size \div 2})
      from[start \in 0 .. Len(text)] ==
        LET end == PieceEnd(text, size, start)
        IN <<Strip(Slice(text, start, end))>>
             \o IF end >= Len(text) THEN <<>> ELSE from[NextStart(start, end, overlap)]
  IN IF text = <<>> THEN <<>> ELSE SelectSeq(from[0], LAMBDA c : c # <<>>)

ChunkPages(pages) == SelectSeq(pages, LAMBDA p : Strip(p) # <<>>)

(* str.splitlines: a break at the end of the text begins no line of its own *)
SplitLines(text) ==
  LET breaks == {i \in DOMAIN text : text[i] = -1}
      ends == SetToSortSeq(breaks \cup ({Len(text) + 1} \ {i + 1 : i \in breaks}), <)
  IN IF text = <<>> THEN <<>>
     ELSE [k \in DOMAIN ends |-> SubSeq(text, IF k = 1 THEN 1 ELSE ends[k - 1] + 1, ends[k] - 1)]

(* _chunk_csv: blocks of lines, each with the first one in front *)
ChunkCsv(text, config) ==
  LET lines == SplitLines(text)
      data == Tail(lines)
      rows == Max({config.rows_per_chunk, 1})
      block(i) == Join(Slice(data, i * rows, Min({(i + 1) * rows, Len(data)})), <<-1>>)
      blocks == (Len(data) + rows - 1) \div rows
  IN IF lines = <<>> THEN <<>>
     ELSE [k \in 1 .. blocks |->
             Strip(IF config.include_header THEN Head(lines) \o <<-1>> \o block(k - 1)
                   ELSE block(k - 1))]

(* RecursiveChunker.chunk, on what the parser made of the file *)
Chunks(f, config) ==
  CASE DetectSourceType(f) = "csv" -> ChunkCsv(Parse(f).text, config)
    [] DetectSourceType(f) = "pdf" /\ config.strategy = "page" -> ChunkPages(Parse(f).pages)
    [] OTHER -> ChunkRecursive(Parse(f).text, config)

-----------------------------------------------------------------------------
(* The rows of a store that have an embedding. *)
Embedded(store) == {i \in DOMAIN store : store[i] # 0}

(* ORDER BY distance, or the sort of the other dialect. *)
Ranked(store, ids) == SetToSortSeq(ids, LAMBDA a, b : store[a] > store[b])

FirstOf(s, n) == SubSeq(s, 1, Min({Len(s), n}))

(* What the database may keep of ORDER BY distance LIMIT n: an HNSW index is
   approximate, so any n rows or fewer; Nearest is what an exact scan keeps. *)
Neighbours(store, n) == {near \in SUBSET Embedded(store) : Cardinality(near) <= n}

Nearest(store, n) == Range(FirstOf(Ranked(store, Embedded(store)), n))

(* Mutant: the rows are cut before they are sorted. *)
BugSearchPostgres(store, near, limit, least) ==
  FirstOf(SelectSeq(SetToSeq(near), LAMBDA i : store[i] >= least), limit)

(* _rows_to_scored: the threshold is applied to the rows the database kept *)
RowsToScored(store, rows, limit, least) ==
  FirstOf(SelectSeq(rows, LAMBDA i : store[i] >= least), limit)

(* _search_postgres, when the database kept the rows near *)
SearchPostgres(store, near, limit, least) ==
  RowsToScored(store, Ranked(store, near), limit, least)

(* _search_sqlite: the threshold first *)
SearchSqlite(store, limit, least) ==
  FirstOf(Ranked(store, {i \in Embedded(store) : store[i] >= least}), limit)

(* search_chunks; near is what PostgreSQL keeps when asked for 3 * limit rows. *)
SearchChunks(dialect, store, near, limit, least) ==
  IF dialect = "postgresql" THEN SearchPostgres(store, near, limit, least)
  ELSE SearchSqlite(store, limit, least)

(* What KnowledgeSearchService.search takes for what the request leaves out. *)
LimitOf(r) == IF r.limit = 0 THEN SearchTopK ELSE r.limit

LeastOf(r) == IF r.min_similarity = -1 THEN SearchMinSimilarity ELSE r.min_similarity

(* KnowledgeSearchService.search *)
Search(dialect, store, near, r) == SearchChunks(dialect, store, near, LimitOf(r), LeastOf(r))

-----------------------------------------------------------------------------
(* What a search can find of a file: a CSV of one line has no chunk, and that line
   is only there with include_header. *)
Expected(f, config) ==
  LET text == Join(f.parts, <<-1>>)
      at == {i \in DOMAIN text : text[i] = -1}
      first == IF at = {} THEN Len(text) ELSE Min(at)
      rest == {text[i] : i \in first + 1 .. Len(text)}
      more == first < Len(text)
  IN {c \in CASE DetectSourceType(f) = "csv" ->
                   IF config.include_header /\ more THEN Range(text) ELSE rest
              [] DetectSourceType(f) = "html" -> Range(text) \ (f.hidden \cup f.pending)
              [] OTHER -> Range(text)
        : Visible(c)}

(* Nothing lost, nothing invented, in the order of the file, no chunk of running
   text longer than the chunk size and, blank rows of a CSV apart, none that only
   repeats the one before it. *)
Covers(f, config) ==
  LET chunks == Chunks(f, config)
      seen == [k \in DOMAIN chunks |-> {c \in Range(chunks[k]) : Visible(c)}]
  IN /\ UNION Range(seen) = Expected(f, config)
     /\ \A k \in DOMAIN chunks : \A i, j \in DOMAIN chunks[k] :
          i < j /\ Visible(chunks[k][i]) /\ Visible(chunks[k][j]) => chunks[k][i] < chunks[k][j]
     /\ DetectSourceType(f) \in {"txt", "markdown", "html"} =>
          \A k \in DOMAIN chunks : Len(chunks[k]) <= Max({config.chunk_size, MinChunkSize})
     /\ DetectSourceType(f) # "csv" =>
          \A k \in DOMAIN chunks : k > 1 => ~(seen[k] \subseteq seen[k - 1])

AllCovered == \A f \in Files, config \in ChunkingConfigs : Covers(f, config)

(* Every answer is made of stored chunks above the threshold, best first, not more
   than the limit, and nothing the database kept is left out for something worse.
   Where the database is exact - the other dialect, or a scan without the index -
   the answer is the best there is, although PostgreSQL cuts the list before the
   threshold is applied. *)
Sound(store, r) ==
  LET good == {i \in Embedded(store) : store[i] >= LeastOf(r)}
      similarity(s) == [k \in DOMAIN s |-> store[s[k]]]
      best == FirstOf(SortSeq(SetToSeq(good), LAMBDA a, b : store[a] > store[b]), LimitOf(r))
      nearest == Nearest(store, 3 * LimitOf(r))
  IN /\ \A near \in Neighbours(store, 3 * LimitOf(r)) :
          LET found == Search("postgresql", store, near, r)
          IN /\ Range(found) \subseteq good \cap near
             /\ Len(found) = Min({LimitOf(r), Cardinality(good \cap near)})
             /\ \A j, k \in DOMAIN found : j < k => store[found[j]] >= store[found[k]]
             /\ \A k \in DOMAIN found : \A i \in (good \cap near) \ Range(found) :
                  store[i] <= store[found[k]]
     /\ \A dialect \in {"postgresql", "sqlite"} :
          similarity(Search(dialect, store, nearest, r)) = similarity(best)

AllSound == \A store \in Stores, r \in Requests : Sound(store, r)
=============================================================================
