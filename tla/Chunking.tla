-------------------------------- MODULE Chunking --------------------------------
(***************************************************************************)
(* What a worker makes of one uploaded file before it stores anything: the *)
(* parsers' blocks, build_sections and chunk_blocks, and the unique keys   *)
(* that the rows must then satisfy.  A text is a sequence of words, each a *)
(* token as well as a position; a page of plain text or PDF, a paragraph   *)
(* and a JSONL row differ only in how they get their heading path.         *)
(***************************************************************************)
EXTENDS Naturals, Sequences, FiniteSets, SequencesExt, TLC

CONSTANTS
    Files,              \* [format, lines]
    Lexical,            \* Lexical[t]: normalize_lexical of a heading or a word
    MaxTokens, Overlap  \* CHUNK_TOKENS and CHUNK_OVERLAP

VARIABLES
    upload,     \* the file
    step,
    blocks,     \* [page, path, text]
    sections,   \* build_sections, by ordinal
    chunks      \* chunk_blocks, by chunk_index

vars == <<upload, step, blocks, sections, chunks>>

Init ==
    /\ upload \in Files
    /\ step = "parse"
    /\ blocks = <<>> /\ sections = <<>> /\ chunks = <<>>

LexicalOf(s) == [i \in DOMAIN s |-> Lexical[s[i]]]

-------------------------------------------------------------------------------
(* parse_document *)

Block(page, path, text) ==
    [page |-> page, path |-> IF path = <<>> THEN <<"Document">> ELSE path, text |-> text]

\* The headings above a line, once a heading of this level is read.
Under(hierarchy, line) ==
    Append(SubSeq(hierarchy, 1, IF line.level - 1 < Len(hierarchy) THEN line.level - 1
                                ELSE Len(hierarchy)),
           line.title)

\* _parse_markdown: the lines up to the next heading are one block.
Markdown(lines) ==
    LET Flushed(acc) ==
            IF acc.text = <<>> THEN acc.blocks
            ELSE Append(acc.blocks, Block(1, acc.hierarchy, acc.text))
        Step(acc, line) ==
            IF line.level = 0 THEN [acc EXCEPT !.text = @ \o line.text]
            ELSE [blocks |-> Flushed(acc), hierarchy |-> Under(acc.hierarchy, line),
                  text |-> <<>>]
    IN  Flushed(FoldLeft(Step, [blocks |-> <<>>, hierarchy |-> <<>>, text |-> <<>>], lines))

\* _parse_docx: every paragraph is one.
Paragraphs(lines) ==
    LET Step(acc, line) ==
            IF line.level > 0 THEN [acc EXCEPT !.hierarchy = Under(@, line)]
            ELSE IF line.text = <<>> THEN acc
            ELSE [acc EXCEPT !.blocks = Append(@, Block(1, acc.hierarchy, line.text))]
    IN  FoldLeft(Step, [blocks |-> <<>>, hierarchy |-> <<>>], lines).blocks

\* _parse_jsonl: every row is a page with its category; _parse_text and _parse_pdf: every
\* page is its own section.
Rows(lines) == [n \in DOMAIN lines |-> Block(n, <<lines[n].title, "p">>, lines[n].text)]
Pages(lines) == [n \in DOMAIN lines |-> Block(n, <<ToString(n)>>, lines[n].text)]

Parsed(file) ==
    CASE file.format = "markdown" -> Markdown(file.lines)
      [] file.format = "docx" -> Paragraphs(file.lines)
      [] file.format = "jsonl" -> Rows(file.lines)
      [] file.format = "text" -> Pages(file.lines)

\* A file without any text is refused.
Parse ==
    /\ step = "parse"
    /\ blocks' = Parsed(upload)
    /\ step' = IF \A i \in DOMAIN blocks' : blocks'[i].text = <<>> THEN "failed" ELSE "section"
    /\ UNCHANGED <<upload, sections, chunks>>

-------------------------------------------------------------------------------
(* build_sections *)

\* The id is a hash of the normalised path, the index one of the path as it is.
SectionId(path) == LexicalOf(path)

\* The sections of one block's path, from the root down.
AddPath(built, block) ==
    LET AddDepth(acc, depth) ==
            LET path == SubSeq(block.path, 1, depth)
                i == SelectInSeq(acc, LAMBDA s : s.path = path)
            IN  IF i = 0
                THEN Append(acc, [path |-> path, id |-> SectionId(path),
                                  parent |-> SectionId(Front(path)),
                                  first |-> block.page, last |-> block.page])
                ELSE IF block.page > acc[i].last
                THEN [acc EXCEPT ![i].last = block.page]
                ELSE acc
    IN  FoldLeft(AddDepth, built, [d \in DOMAIN block.path |-> d])

BuildSections ==
    /\ step = "section" /\ step' = "chunk"
    /\ sections' = FoldLeft(AddPath, <<>>, blocks)
    /\ UNCHANGED <<upload, blocks, chunks>>

-------------------------------------------------------------------------------
(* chunk_blocks *)

\* Where the windows over n tokens start: no further one once the end is reached.
Starts(n) ==
    LET advance == MaxTokens - Overlap IN
    {s \in 0 .. n - 1 : s % advance = 0 /\ (s = 0 \/ s - advance + MaxTokens < n)}

Windows(text) ==
    LET starts == SelectSeq([i \in DOMAIN text |-> i - 1], LAMBDA s : s \in Starts(Len(text)))
    IN  [k \in DOMAIN starts |->
            [start |-> starts[k],
             end |-> IF starts[k] + MaxTokens < Len(text) THEN starts[k] + MaxTokens
                     ELSE Len(text)]]

\* Mutant: repetitions are counted for each block anew.
EarlierInBlock(built, block, lexical) ==
    Cardinality({i \in DOMAIN built : built[i].block = block /\ built[i].lexical = lexical})

\* occurrence_by_hash: how often the text has occurred in the file so far.
Earlier(built, block, lexical) ==
    Cardinality({i \in DOMAIN built : built[i].lexical = lexical})

AddChunks(built, n) ==
    LET block == blocks[n]
        AddWindow(acc, w) ==
            LET text == SubSeq(block.text, w.start + 1, w.end)
                id == [page |-> block.page, section |-> SectionId(block.path),
                       start |-> w.start, text |-> text,
                       occurrence |-> Earlier(acc, n, LexicalOf(text))]
            IN  Append(acc, [id |-> id, block |-> n, lexical |-> LexicalOf(text),
                             start |-> w.start, end |-> w.end])
    IN  FoldLeft(AddWindow, built, Windows(block.text))

Chunk ==
    /\ step = "chunk" /\ step' = "persist"
    /\ chunks' = FoldLeft(AddChunks, <<>>, [n \in DOMAIN blocks |-> n])
    /\ UNCHANGED <<upload, blocks, sections>>

Unique(s) == \A i, j \in DOMAIN s : s[i].id = s[j].id => i = j

\* What the table demands of the rows of sections: their keys, pages and parents.
SectionRows ==
    /\ Unique(sections)
    /\ \A i \in DOMAIN sections :
          /\ 1 <= sections[i].first /\ sections[i].first <= sections[i].last
          /\ Len(sections[i].path) > 1 =>
                \E j \in DOMAIN sections : sections[j].id = sections[i].parent

\* And of the rows of chunks.
ChunkRows ==
    /\ Unique(chunks)
    /\ \A i \in DOMAIN chunks :
          /\ chunks[i].start <= chunks[i].end
          /\ \E j \in DOMAIN sections : sections[j].id = chunks[i].id.section

\* _persist_staged_content adds all rows in one transaction, or the job fails.
Persist ==
    /\ step = "persist"
    /\ step' = IF SectionRows /\ ChunkRows THEN "persisted" ELSE "failed"
    /\ UNCHANGED <<upload, blocks, sections, chunks>>

Next == Parse \/ BuildSections \/ Chunk \/ Persist

Spec == Init /\ [][Next]_vars

-------------------------------------------------------------------------------
(* Properties *)

ChunksOf(n) == {i \in DOMAIN chunks : chunks[i].block = n}

\* Two headings differ only in what normalisation removes.
Alike ==
    \E m, n \in DOMAIN blocks : \E k \in DOMAIN blocks[m].path \cap DOMAIN blocks[n].path :
        LET a == SubSeq(blocks[m].path, 1, k)
            b == SubSeq(blocks[n].path, 1, k)
        IN  a # b /\ SectionId(a) = SectionId(b)

\* The chunks of a file lose no word and repeat only the overlap; their keys are unique,
\* however often a text, a heading or both are repeated, so that only two headings that are
\* alike can make the insertion fail; and the sections are a tree that covers the
\* pages of its blocks.
ChunksCover ==
    /\ step = "failed" /\ chunks # <<>> => Alike
    /\ step \in {"persist", "persisted"} =>
        /\ Unique(chunks)
        /\ \A n \in DOMAIN blocks : \A p \in 1 .. Len(blocks[n].text) :
              \E i \in ChunksOf(n) : chunks[i].start < p /\ p <= chunks[i].end
        /\ \A i, j \in DOMAIN chunks :
              j = i + 1 /\ chunks[i].block = chunks[j].block =>
                  /\ chunks[j].start = chunks[i].end - Overlap
                  /\ chunks[j].end > chunks[i].end
        /\ \A i \in DOMAIN chunks : chunks[i].end - chunks[i].start <= MaxTokens
        /\ \A n \in DOMAIN blocks : \E i \in DOMAIN sections :
              /\ sections[i].id = SectionId(blocks[n].path)
              /\ blocks[n].page \in sections[i].first .. sections[i].last
        /\ \A i \in DOMAIN sections : Len(sections[i].path) > 1 =>
              \E j \in 1 .. i - 1 :
                  /\ sections[j].id = sections[i].parent
                  /\ sections[j].first <= sections[i].first
                  /\ sections[i].last <= sections[j].last
================================================================================
