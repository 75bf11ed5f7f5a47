------------------------ MODULE MCKnowledgeRetrieval -------------------------
(* The instance of KnowledgeRetrieval that TLC checks. *)
EXTENDS KnowledgeRetrieval

CONSTANTS i1, i2, j1, r1, r2

MCSectionType == [intro |-> "generic", faq |-> "faq", rules |-> "policy", howto |-> "manual"]

Block(type, path, lines) == [type |-> type, path |-> path, lines |-> lines]

\* Every document of one to three of these blocks.
SampleBlocks ==
    {Block("heading", "faq", <<"question">>), Block("heading", "rules", <<"plain">>),
     Block("paragraph", "intro", <<"plain", "long", "plain">>),
     Block("paragraph", "faq", <<"question", "answer", "keywords">>),
     Block("paragraph", "faq", <<"plain", "question", "answer">>),
     Block("paragraph", "rules", <<"plain", "except", "plain">>),
     Block("paragraph", "howto", <<"plain", "step", "step">>),
     Block("list", "howto", <<"plain">>), Block("table", "intro", <<"plain", "plain">>)}

MCSamples ==
    [type : {"policy", "manual", "faq", "generic", "mixed"},
     doc : BoundedSeq(SampleBlocks, 3) \ {<<>>}]

Source(type, block) == [type |-> type, doc |-> <<block>>]

MCTextOfVersion ==
    [a1 |-> Source("generic", Block("table", "intro", <<"plain", "plain">>)),
     b1 |-> Source("policy", Block("paragraph", "rules", <<"plain">>))]
MCDocumentOf == [a1 |-> "a", b1 |-> "b"]
MCVersionOf == i1 :> "a1" @@ i2 :> "a1" @@ j1 :> "b1"
MCModeOf == r1 :> "hybrid" @@ r2 :> "bm25"
=============================================================================
