------------------------------- MODULE Chunking ------------------------------
(***************************************************************************)
(* How a document becomes parents, which an answer is written from, and    *)
(* children, which a search finds (knowledge/chunking.py and               *)
(* chunk_strategies.py).                                                   *)
(*                                                                         *)
(* A document is a sequence of blocks; a block's ordinal is its position.  *)
(* A block has a type, the path of headings above it and a sequence of     *)
(* lines, each the kind the patterns of the strategies see in it; a line   *)
(* is a sentence.  The text of a chunk is the set of characters            *)
(* <<ordinal, line, position>> it takes from the document.                 *)
(***************************************************************************)
EXTENDS FiniteSets, SequenceParts

CONSTANTS
    SectionType,         \* SectionType[p]: what the markers in path p select
    ChildMaxChars,
    ChildOverlapChars

ASSUME ChunkingAssumption ==
    /\ ChildMaxChars \in Nat \ {0}
    /\ ChildOverlapChars \in 0..(ChildMaxChars - 1)
    /\ \A p \in DOMAIN SectionType : SectionType[p] \in {"generic", "policy", "manual", "faq"}

\* question, answer, keywords: labelled so, or a heading that reads like a
\* question; step: numbered or with a bullet; except: begins with a marker of
\* an exception; long: longer than a child may be.
LineKinds == {"plain", "question", "answer", "keywords", "step", "except", "long"}

\* The loaders give no block without text.
SourceBlock == [type : {"heading", "paragraph", "list", "table"}, path : DOMAIN SectionType,
                lines : Seq(LineKinds) \ {<<>>}]

\* What is chunked: the blocks of a document and its knowledge type.
Material == [type : {"policy", "manual", "faq", "generic", "mixed"}, doc : Seq(SourceBlock)]

LineLength(kind) == IF kind = "long" THEN 2 * ChildMaxChars ELSE 2

Chars(line) == {<<line.block, line.pos, c>> : c \in 1..LineLength(line.kind)}

Text(lines) == UNION {Chars(lines[i]) : i \in DOMAIN lines}

\* The blocks with their ordinals, and their lines with their positions.
Numbered(doc) ==
    [o \in DOMAIN doc |->
        [ordinal |-> o, type |-> doc[o].type, path |-> doc[o].path,
         lines |-> [k \in DOMAIN doc[o].lines |->
                       [block |-> o, pos |-> k, kind |-> doc[o].lines[k]]]]]

Sources(blocks) == {blocks[i].ordinal : i \in DOMAIN blocks}
TextOf(blocks) == UNION {Text(blocks[i].lines) : i \in DOMAIN blocks}

\* The longest runs of neighbours with the same key.
AddToRuns(key, runs, b) ==
    IF runs # <<>> /\ key[Last(Last(runs))] = key[b]
    THEN [runs EXCEPT ![Len(runs)] = Append(@, b)]
    ELSE Append(runs, <<b>>)

Runs(blocks, key) == FoldLeft(LAMBDA runs, b : AddToRuns(key, runs, b), <<>>, blocks)

Content(blocks) == Within(blocks, {b \in Range(blocks) : b.type # "heading"})

ContentGroups(blocks) == Runs(Content(blocks), [b \in Range(blocks) |-> b.path])

\* A parent and its children, named after the strategy, the first block and,
\* where a block has several, a number.
Family(strategy, ordinal, number, sources, text, children) ==
    LET id == <<strategy, ordinal, number>>
    IN  <<[kind |-> "parent", id |-> id, parent |-> <<>>, sources |-> sources, text |-> text]>>
        \o [i \in DOMAIN children |->
               [kind |-> "child", id |-> <<strategy, ordinal, number, i>>, parent |-> id,
                sources |-> sources, text |-> children[i]]]

GroupFamily(strategy, group, children) ==
    Family(strategy, group[1].ordinal, 0, Sources(group), TextOf(group), children)

\* In place of chunks: the strategy raises a ValueError.
Rejection == <<[kind |-> "error", id |-> <<>>, parent |-> <<>>, sources |-> {}, text |-> {}]>>

-----------------------------------------------------------------------------
(* GenericChunkStrategy *)

\* _split_oversized_sentence: windows that overlap.
Windows(line) ==
    LET step == ChildMaxChars - ChildOverlapChars
        rest == LineLength(line.kind) - ChildMaxChars
        count == 1 + (rest + step - 1) \div step
    IN  [i \in 1..count |->
            {char \in Chars(line) : char[3] - (i - 1) * step \in 1..ChildMaxChars}]

ClosePart(s) == IF s.current = {} THEN s.parts ELSE Append(s.parts, s.current)

\* _pack_sentences
PackSentence(s, line) ==
    IF LineLength(line.kind) > ChildMaxChars
    THEN [parts |-> ClosePart(s) \o Windows(line), current |-> {}]
    ELSE IF Cardinality(s.current) + LineLength(line.kind) <= ChildMaxChars
    THEN [s EXCEPT !.current = @ \cup Chars(line)]
    ELSE [parts |-> ClosePart(s), current |-> Chars(line)]

SplitContent(lines) ==
    ClosePart(FoldLeft(PackSentence, [parts |-> <<>>, current |-> {}], lines))

Generic(blocks) ==
    LET content == Content(blocks)
    IN  FlattenSeq([i \in DOMAIN content |->
            GroupFamily("generic", <<content[i]>>, SplitContent(content[i].lines))])

-----------------------------------------------------------------------------
(* TableChunkStrategy, ManualChunkStrategy, PolicyChunkStrategy *)

Table(blocks) ==
    FlattenSeq([i \in DOMAIN blocks |->
        GroupFamily("table", <<blocks[i]>>,
                    [k \in DOMAIN blocks[i].lines |-> Chars(blocks[i].lines[k])])])

\* _manual_steps: a list is one step; what is no step is a description.
StepLines(block) == Within(block.lines, {l \in Range(block.lines) : l.kind = "step"})

StepsOf(group) ==
    FlattenSeq([i \in DOMAIN group |->
        IF group[i].type = "list" THEN <<Text(group[i].lines)>>
        ELSE [k \in DOMAIN StepLines(group[i]) |-> Chars(StepLines(group[i])[k])]])

Descriptions(group) ==
    UNION {Chars(l) : l \in UNION {{m \in Range(b.lines) : m.kind # "step"} :
                                     b \in {c \in Range(group) : c.type # "list"}}}

\* Every step names its goal and the step before.
ManualGroup(group) ==
    LET steps == StepsOf(group)
        child(i) == steps[i] \cup Descriptions(group) \cup (IF i = 1 THEN {} ELSE steps[i - 1])
    IN  IF steps = <<>> THEN Generic(group)
        ELSE GroupFamily("manual", group, [i \in DOMAIN steps |-> child(i)])

Manual(blocks) ==
    LET groups == ContentGroups(blocks)
    IN  FlattenSeq([i \in DOMAIN groups |-> ManualGroup(groups[i])])

\* Mutant of AddFragment: an exception is a unit of its own.
AddSentence(units, line) == Append(units, Chars(line))

\* _policy_units: an exception belongs to the rule before it.
AddFragment(units, line) ==
    IF units # <<>> /\ line.kind = "except"
    THEN [units EXCEPT ![Len(units)] = @ \cup Chars(line)]
    ELSE Append(units, Chars(line))

PolicyUnits(group) ==
    FoldLeft(AddFragment, <<>>, FlattenSeq([i \in DOMAIN group |-> group[i].lines]))

Policy(blocks) ==
    LET groups == ContentGroups(blocks)
    IN  FlattenSeq([i \in DOMAIN groups |->
            GroupFamily("policy", groups[i], PolicyUnits(groups[i]))])

-----------------------------------------------------------------------------
(* FaqChunkStrategy: a machine that reads line by line *)

NoRecord == [question |-> {}, answer |-> {}, keywords |-> {}, sources |-> <<>>]

FaqStart == [record |-> NoRecord, records |-> <<>>, orphans |-> <<>>,
             fallback |-> <<>>, error |-> FALSE]

\* A question must have its answer when the next one comes.
Flush(s) ==
    IF s.record.question = {} THEN s
    ELSE IF s.record.answer = {} THEN [s EXCEPT !.error = TRUE]
    ELSE [s EXCEPT !.records = Append(@, s.record), !.record = NoRecord]

Remember(s, ordinal) ==
    IF ordinal \in Range(s.record.sources) THEN s
    ELSE [s EXCEPT !.record.sources = Append(@, ordinal)]

AskQuestion(s, line) ==
    LET t == Flush(s)
    IN  [t EXCEPT !.record = [NoRecord EXCEPT !.question = Chars(line),
                                              !.sources = <<line.block>>]]

\* Text without a label continues an answer, or is left over.
FaqLine(s, line) ==
    IF s.error THEN s
    ELSE IF line.kind = "question" THEN AskQuestion(s, line)
    ELSE IF s.record.question = {}
    THEN IF line.kind \in {"answer", "keywords"} THEN [s EXCEPT !.error = TRUE]
         ELSE [s EXCEPT !.orphans = Append(@, line)]
    ELSE IF line.kind = "keywords"
    THEN Remember([s EXCEPT !.record.keywords = @ \cup Chars(line)], line.block)
    ELSE Remember([s EXCEPT !.record.answer = @ \cup Chars(line)], line.block)

FaqBlock(s, block) ==
    LET t == FoldLeft(FaqLine, [s EXCEPT !.orphans = <<>>], block.lines)
    IN  IF block.type = "heading"
        THEN IF block.lines[1].kind = "question" THEN AskQuestion(s, block.lines[1]) ELSE s
        ELSE IF t.orphans = <<>> THEN t
        ELSE [t EXCEPT !.fallback = Append(@, [block EXCEPT !.lines = t.orphans])]

\* The child of a record is its question with the keywords.
RecordFamily(record, number) ==
    Family("faq", record.sources[1], number, Range(record.sources),
           record.question \cup record.answer, <<record.question \cup record.keywords>>)

Faq(blocks) ==
    LET end == Flush(FoldLeft(FaqBlock, FaqStart, blocks))
    IN  IF end.error THEN Rejection
        ELSE FlattenSeq([i \in DOMAIN end.records |-> RecordFamily(end.records[i], i)])
             \o Generic(end.fallback)

-----------------------------------------------------------------------------
(* StrategySelector *)

Drafts(type, blocks) ==
    CASE type = "generic" -> Generic(blocks)
      [] type = "policy" -> Policy(blocks)
      [] type = "manual" -> Manual(blocks)
      [] type = "faq" -> Faq(blocks)

\* MixedDocumentChunkStrategy
DraftsByType(type, blocks) ==
    LET runs == Runs(blocks, [b \in Range(blocks) |-> SectionType[b.path]])
    IN  IF type # "mixed" THEN Drafts(type, blocks)
        ELSE FlattenSeq([i \in DOMAIN runs |-> Drafts(SectionType[runs[i][1].path], runs[i])])

\* _TableAwareStrategy: tables go to the table strategy, whatever the type.
Chunks(type, doc) ==
    LET blocks == Numbered(doc)
        runs == Runs(blocks, [b \in Range(blocks) |-> b.type = "table"])
        drafts == FlattenSeq([i \in DOMAIN runs |->
                     IF runs[i][1].type = "table" THEN Table(runs[i])
                     ELSE DraftsByType(type, runs[i])])
    IN  IF \E i \in DOMAIN drafts : drafts[i].kind = "error" THEN Rejection ELSE drafts
=============================================================================
