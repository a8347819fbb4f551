-------------------------- MODULE MCKnowledgeIngest --------------------------
(* Small instances of KnowledgeBase for TLC. *)
EXTENDS KnowledgeBase

(* Texts up to a length, whose visible characters are numbered from k. *)
TextsFrom(k, n) == UNION {{[i \in 1 .. m |-> IF i \in S THEN 0 ELSE k + i] :
                             S \in SUBSET (1 .. m)} : m \in 0 .. n}

File(suffix, content_type, parts, hidden, pending) ==
  [suffix |-> suffix, content_type |-> content_type, parts |-> parts, hidden |-> hidden,
   pending |-> pending]

(* Running text long enough for three chunks, HTML with a script and an "&" at the
   end, PDFs of three pages and CSVs with blank lines, at the end too, a line break
   in a cell, and no header or no row. *)
MCFiles ==
  {File("txt", "none", <<t>>, {}, {}) : t \in TextsFrom(0, 11)}
    \cup {File("other", "html", <<t>>, {2, 3, 4}, p) :
            t \in TextsFrom(0, 9), p \in {{}, {8, 9}}}
    \cup {File("pdf", "none", <<a, b, c>>, {}, {}) :
            a \in TextsFrom(0, 3), b \in TextsFrom(10, 2), c \in TextsFrom(20, 3)}
    \cup {File("csv", "none", <<h, a, b, c>>, {}, {}) :
            h \in {<<>>, <<1>>, <<1, -1, 2>>}, a \in TextsFrom(10, 2) \cup {<<11, -1>>},
            b \in TextsFrom(20, 1), c \in TextsFrom(30, 1)}
    \cup {File("csv", "none", rows, {}, {}) : rows \in {<<>>, <<<<1>>>>, <<<<1>>, <<>>>>}}

MCConfigs ==
  [strategy : {"recursive", "page"}, chunk_size : {1, 7}, chunk_overlap : {0, 2, 9},
   rows_per_chunk : {0, 2}, include_header : BOOLEAN]

MCStores == [1 .. 4 -> 0 .. 3]

MCRequests == [limit : 0 .. 2, min_similarity : -1 .. 3]
=============================================================================
