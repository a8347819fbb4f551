---------------------------- MODULE KnowledgeBase ---------------------------
(***************************************************************************)
(* The knowledge base: the document of KnowledgeIngest, whose file may be  *)
(* any of Files, chunked and searched by KnowledgeText.                    *)
(***************************************************************************)
EXTENDS KnowledgeIngest, KnowledgeText

(* Parsing and chunking lose nothing: whatever the format, the chunk size and the
   overlap, every visible character of the file of a searchable document is in
   a chunk, in order, no chunk is too long and none is superfluous
   (RecursiveChunker.chunk on what the parsers return). *)
ChunksCoverDocument == Searchable(doc) => AllCovered

(* A search of a searchable document returns chunks above the threshold, best
   first, and the best ones of those the database kept: of all chunks on the
   other dialect and in an exact scan, of what the approximate index finds
   otherwise (search_chunks). *)
SearchIsSound == Searchable(doc) => AllSound
=============================================================================
