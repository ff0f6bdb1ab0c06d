---------------------------- MODULE EvidenceBlocks ----------------------------
(***************************************************************************)
(* From the elements that a parser finds in a document to the evidence     *)
(* blocks that are cited (ingestion/blocks.py), the chunks that are        *)
(* searched (ingestion/chunking.py) and the tree of sections that is       *)
(* browsed (repository.py).                                                *)
(*                                                                         *)
(* A text is the sequence of its words, and a word is its place in the     *)
(* document, so that a word that is lost, repeated or moved shows.  The    *)
(* separators between the texts that are joined are white space, which     *)
(* neither a count of words nor a split sees.                              *)
(***************************************************************************)
EXTENDS Integers, Sequences, FiniteSets, SequencesExt

CONSTANTS
    Kind,           \* kinds of elements that occur
    Path,           \* section paths that occur, sequences of titles
    Length,         \* numbers of words of an element
    MaxElements,    \* bound of the model on the document
    BlockTarget, BlockMax,              \* settings.evidence_blocks
    ChunkMin, ChunkTarget, ChunkMax     \* settings.chunking

\* BlockKind, without the ones that are treated as a paragraph is
BlockKind == {"heading", "paragraph", "list_item", "table_row",
              "discussion", "agreement", "conclusion", "note"}

ASSUME EvidenceAssumption ==
    /\ Kind \subseteq BlockKind
    /\ Path \subseteq Seq(STRING)
    /\ Length \subseteq Nat
    /\ MaxElements \in Nat
    /\ {BlockTarget, BlockMax, ChunkMin, ChunkTarget, ChunkMax} \subseteq Nat \ {0}
    /\ BlockTarget <= BlockMax
    /\ ChunkMin <= ChunkTarget /\ ChunkTarget <= ChunkMax

VARIABLES
    document,   \* the elements read so far
    group,      \* the block that is being gathered
    blocks,     \* evidence blocks
    pending,    \* number of blocks that build_chunks has been through
    current,    \* the blocks of the chunk that is being gathered
    chunks,     \* retrieval chunks
    phase

vars == <<document, group, blocks, pending, current, chunks, phase>>

-----------------------------------------------------------------------------
\* estimate_tokens of a text of n words: 1.3 tokens a word, rounded down.
Tokens(n) == (13 * n) \div 10

\* int(max_tokens / 1.3), at least one
WordsIn(max) == IF max = 1 THEN 1 ELSE (10 * max) \div 13

\* " ".join(words[start : start + max_words]) for start in steps of max_words
Pieces(words, max) ==
    LET w == WordsIn(max) IN
    [i \in 1..((Len(words) + w - 1) \div w) |->
        SubSeq(words, (i - 1) * w + 1, IF i * w < Len(words) THEN i * w ELSE Len(words))]

\* mutant: an element is kept whole
KeptWhole(words) == <<words>>

\* _split_oversized
Split(words) ==
    IF Tokens(Len(words)) <= BlockMax THEN <<words>> ELSE Pieces(words, BlockMax)

\* _group_type
GroupType(kind) ==
    CASE kind = "table_row" -> "table"
      [] kind \in {"discussion", "agreement", "conclusion", "note"} -> kind
      [] OTHER -> "body"

NoGroup == [path |-> <<>>, type |-> "none", kinds |-> {}, parts |-> <<>>, tokens |-> 0]

Init ==
    /\ document = <<>>
    /\ group = NoGroup
    /\ blocks = <<>>
    /\ pending = 0
    /\ current = <<>>
    /\ chunks = <<>>
    /\ phase = "reading"

-----------------------------------------------------------------------------
(* coalesce_evidence_blocks: gathering is the pair of the blocks there are  *)
(* and the group that is open.                                              *)

Words(block) == FlattenSeq(block.parts)

\* _coalesced_kind
CoalescedKind(kinds) ==
    IF Cardinality(kinds) = 1 THEN CHOOSE kind \in kinds : TRUE ELSE "paragraph"

Flush(gathering) ==
    IF gathering.group.parts = <<>> THEN gathering
    ELSE LET g == gathering.group IN
         [blocks |-> Append(gathering.blocks,
                        [parts |-> g.parts, path |-> g.path, kind |-> CoalescedKind(g.kinds)]),
          group |-> NoGroup]

\* mutant: only another kind of text ends a block
OtherType(g, path, kind) == g.type # GroupType(kind)

\* The group is of another section or of another kind of text.
Changed(g, path, kind) == g.path # path \/ g.type # GroupType(kind)

\* One part of an element of the given section and kind.
Gather(gathering, part, path, kind) ==
    LET g == gathering.group
        tokens == Tokens(Len(part))
        before == IF /\ g.parts # <<>>
                     /\ Changed(g, path, kind) \/ g.tokens + tokens > BlockMax
                  THEN Flush(gathering) ELSE gathering
        after == [before EXCEPT !.group =
                    [path |-> path, type |-> GroupType(kind), kinds |-> @.kinds \cup {kind},
                     parts |-> Append(@.parts, part), tokens |-> @.tokens + tokens]]
    IN  IF after.group.tokens >= BlockTarget THEN Flush(after) ELSE after

Gathering == [blocks |-> blocks, group |-> group]

\* The parts of an element, one after the other.
GatherAll(gathering, parts, path, kind) ==
    LET after[n \in 0..Len(parts)] ==
            IF n = 0 THEN gathering ELSE Gather(after[n - 1], parts[n], path, kind)
    IN  after[Len(parts)]

Total(numbers) ==
    LET sum[n \in 0..Len(numbers)] == IF n = 0 THEN 0 ELSE sum[n - 1] + numbers[n]
    IN  sum[Len(numbers)]

\* The words of the document before its i-th element.
Offset(i) == Total([n \in 1..(i - 1) |-> document[n].length])

\* One turn of the loop: an element that is blank changes nothing, a heading
\* ends the block and is left to the section paths.
ReadElement(kind, path, length) ==
    LET first == Offset(Len(document) + 1)
        text == [i \in 1..length |-> first + i]
        result ==
            IF length = 0 THEN Gathering
            ELSE IF kind = "heading" THEN Flush(Gathering)
            ELSE GatherAll(Gathering, Split(text), path, kind)
    IN
    /\ phase = "reading"
    /\ Len(document) < MaxElements
    /\ document' = Append(document, [kind |-> kind, path |-> path, length |-> length])
    /\ blocks' = result.blocks
    /\ group' = result.group
    /\ UNCHANGED <<pending, current, chunks, phase>>

EndDocument ==
    /\ phase = "reading"
    /\ blocks' = Flush(Gathering).blocks
    /\ group' = NoGroup
    /\ phase' = "chunking"
    /\ UNCHANGED <<document, pending, current, chunks>>

-----------------------------------------------------------------------------
(* build_chunks                                                             *)

WordsOf(numbers) == FlattenSeq([i \in DOMAIN numbers |-> Words(blocks[numbers[i]])])

\* flush: a chunk has the section of its last block.
Flushed(numbers) ==
    IF numbers = <<>> THEN <<>>
    ELSE <<[words |-> WordsOf(numbers), blocks |-> numbers, path |-> blocks[Last(numbers)].path]>>

\* A block that is too large makes chunks of its own.
ChunkLarge(n) ==
    LET pieces == Pieces(Words(blocks[n]), ChunkMax) IN
    /\ Tokens(Len(Words(blocks[n]))) > ChunkMax
    /\ chunks' = chunks \o Flushed(current)
            \o [i \in DOMAIN pieces |->
                    [words |-> pieces[i], blocks |-> <<n>>, path |-> blocks[n].path]]
    /\ current' = <<>>

\* mutant: the last block of a chunk opens the next one as well
Overlapping(n, flush) == IF flush THEN <<Last(current), n>> ELSE Append(current, n)

\* The blocks gathered with n, after what was there has been flushed or not.
Gathered(n, flush) == IF flush THEN <<n>> ELSE Append(current, n)

\* Others are gathered, up to another section when there is enough to keep.
ChunkSmall(n) ==
    LET tooMuch == Tokens(Len(WordsOf(Append(current, n)))) > ChunkMax
        leaving == /\ blocks[n].path # blocks[Last(current)].path
                   /\ Tokens(Len(WordsOf(current))) >= ChunkMin
        flush == current # <<>> /\ (tooMuch \/ leaving)
        gathered == Gathered(n, flush)
        full == Tokens(Len(WordsOf(gathered))) >= ChunkTarget
    IN
    /\ Tokens(Len(Words(blocks[n]))) <= ChunkMax
    /\ chunks' = chunks \o (IF flush THEN Flushed(current) ELSE <<>>)
                       \o (IF full THEN Flushed(gathered) ELSE <<>>)
    /\ current' = IF full THEN <<>> ELSE gathered

ChunkBlock ==
    /\ phase = "chunking"
    /\ pending < Len(blocks)
    /\ pending' = pending + 1
    /\ ChunkLarge(pending') \/ ChunkSmall(pending')
    /\ UNCHANGED <<document, group, blocks, phase>>

EndChunks ==
    /\ phase = "chunking"
    /\ pending = Len(blocks)
    /\ chunks' = chunks \o Flushed(current)
    /\ current' = <<>>
    /\ phase' = "done"
    /\ UNCHANGED <<document, group, blocks, pending>>

Next ==
    \/ \E kind \in Kind, path \in Path, length \in Length : ReadElement(kind, path, length)
    \/ EndDocument
    \/ ChunkBlock
    \/ EndChunks

Spec == Init /\ [][Next]_vars

-----------------------------------------------------------------------------
(* _build_section_tree, from the paths of the blocks in order.              *)

\* The block n is in the section at prefix: path, or one above it.
CountIn(tree, n, prefix, path) ==
    LET here == IF prefix \in DOMAIN tree
                THEN [tree[prefix] EXCEPT !.end = n, !.descendants = @ + 1]
                ELSE [start |-> n, end |-> n, direct |-> 0, descendants |-> 1]
        counted == IF prefix = path THEN [here EXCEPT !.direct = @ + 1] ELSE here
    IN  [p \in DOMAIN tree \cup {prefix} |-> IF p = prefix THEN counted ELSE tree[p]]

CountBlock(tree, n) ==
    LET path == blocks[n].path
        above[depth \in 0..Len(path)] ==
            CountIn(IF depth = 0 THEN tree ELSE above[depth - 1],
                    n, SubSeq(path, 1, depth), path)
    IN  above[Len(path)]

SectionTree ==
    LET after[n \in 0..Len(blocks)] ==
            IF n = 0 THEN [p \in {} |-> 0] ELSE CountBlock(after[n - 1], n)
    IN  after[Len(blocks)]

ChildCount(tree, p) == Cardinality({q \in DOMAIN tree : q # <<>> /\ Front(q) = p})

-----------------------------------------------------------------------------
(* Safety.                                                                  *)

\* The words of the elements that are not headings, in the order of the document.
Body ==
    FlattenSeq([i \in DOMAIN document |->
        IF document[i].kind = "heading" THEN <<>>
        ELSE [j \in 1..document[i].length |-> Offset(i) + j]])

\* Through splitting, gathering and chunking every word of the body is kept
\* once and in its place, and a chunk quotes the blocks it cites: all of their
\* words, or a piece of the one block that was too large.
TextPreserved ==
    /\ FlattenSeq([n \in DOMAIN blocks |-> Words(blocks[n])])
            \o FlattenSeq(group.parts) = Body
    /\ FlattenSeq([c \in DOMAIN chunks |-> chunks[c].words]) \o WordsOf(current)
            = FlattenSeq([n \in 1..pending |-> Words(blocks[n])])
    /\ phase = "done" => pending = Len(blocks) /\ current = <<>>
    /\ \A c \in DOMAIN chunks :
            \/ chunks[c].words = WordsOf(chunks[c].blocks)
            \/ /\ Len(chunks[c].blocks) = 1
               /\ Range(chunks[c].words) \subseteq Range(WordsOf(chunks[c].blocks))

PartTokens(parts) == Total([n \in DOMAIN parts |-> Tokens(Len(parts[n]))])

\* Nothing between two blocks of one section and type but their sizes.
Adjoining(n) ==
    /\ blocks[n].path = blocks[n + 1].path
    /\ GroupType(blocks[n].kind) = GroupType(blocks[n + 1].kind)
    /\ Last(Words(blocks[n])) + 1 = Head(Words(blocks[n + 1]))

\* A chunk's estimate is within its limit.  A block is within its limit by the
\* sum of its parts' estimates; each is rounded down, so that the whole may
\* exceed the limit, by less than a token for each part.  Blocks that adjoin
\* are separate only because the first is full or the second did not fit.
WithinLimits ==
    /\ \A c \in DOMAIN chunks : Tokens(Len(chunks[c].words)) \in 1..ChunkMax
    /\ \A n \in DOMAIN blocks :
            /\ PartTokens(blocks[n].parts) \in 1..BlockMax
            /\ Tokens(Len(Words(blocks[n]))) < BlockMax + Len(blocks[n].parts)
    /\ \A n \in 1..(Len(blocks) - 1) : Adjoining(n) =>
            \/ PartTokens(blocks[n].parts) >= BlockTarget
            \/ PartTokens(blocks[n].parts) + Tokens(Len(Head(blocks[n + 1].parts))) > BlockMax

\* The element that a word is of.
ElementOf(word) == CHOOSE i \in DOMAIN document :
                        Offset(i) < word /\ word <= Offset(i) + document[i].length

StartsWith(path, prefix) ==
    Len(prefix) <= Len(path) /\ SubSeq(path, 1, Len(prefix)) = prefix

\* A block has the section and the type of each of its words; a chunk goes on
\* into another section only while it is shorter than ChunkMin; and the tree
\* has a section for every path and all that are above it, that spans and
\* counts the blocks in it.
SectionsRespected ==
    /\ \A n \in DOMAIN blocks : \A word \in Range(Words(blocks[n])) :
            LET e == document[ElementOf(word)] IN
            e.path = blocks[n].path /\ GroupType(e.kind) = GroupType(blocks[n].kind)
    /\ \A c \in DOMAIN chunks : \A i \in 1..(Len(chunks[c].blocks) - 1) :
            LET numbers == chunks[c].blocks IN
            \/ blocks[numbers[i]].path = blocks[numbers[i + 1]].path
            \/ Tokens(Len(WordsOf(SubSeq(numbers, 1, i)))) < ChunkMin
    /\ phase = "done" =>
        LET tree == SectionTree
            within(p) == {n \in DOMAIN blocks : StartsWith(blocks[n].path, p)}
        IN
        /\ DOMAIN tree = UNION {{SubSeq(blocks[n].path, 1, depth) : depth \in 0..Len(blocks[n].path)} :
                                n \in DOMAIN blocks}
        /\ \A p \in DOMAIN tree :
                /\ tree[p].descendants = Cardinality(within(p))
                /\ tree[p].direct = Cardinality({n \in within(p) : blocks[n].path = p})
                /\ tree[p].start = Min(within(p)) /\ tree[p].end = Max(within(p))
                /\ ChildCount(tree, p) = 0 <=> \A n \in within(p) : blocks[n].path = p
=============================================================================
