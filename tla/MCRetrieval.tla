---------------------------- MODULE MCRetrieval -----------------------------
(***************************************************************************)
(* Instances of Retrieval for TLC: two chunks of one document, one of      *)
(* another.                                                                *)
(***************************************************************************)
EXTENDS Retrieval

Entry(kind, captured, until, words, phrases) ==
    [kind |-> kind, published |-> TRUE, from |-> 0, until |-> until,
     captured |-> captured, words |-> words, phrases |-> phrases,
     content |-> 1, section |-> 1]

MCDocumentOf == <<"scheme", "scheme", "other">>

\* Entries at the edges: below and at the relevance wanted, the last day of
\* a validity, the last day of an age, a text that is too long for evidence,
\* a source whose kind is edited, and one that is withdrawn.
MCContents ==
    <<{Entry("official_scheme", 0, None, 0, 1),
       Entry("official_scheme", 0, 0, 1, 0)},
      {Entry("official_scheme", -1, None, 2, 0),
       [Entry("official_scheme", 0, 0, 2, 0) EXCEPT !.content = 2],
       Entry("business_guide", -1, None, 0, 1)},
      {Entry("official_scheme", 0, None, 2, 0),
       Entry("business_guide", 0, None, 2, 0),
       [Entry("business_guide", 0, None, 2, 0) EXCEPT !.published = FALSE]}>>

MCMaxAge == [official_scheme |-> 1, business_guide |-> 2]
MCFusedLimit == [official_scheme |-> 2, business_guide |-> 2]
MCEvidenceLimit == [official_scheme |-> 2, business_guide |-> 1]

Query(message, context, blank) ==
    [message |-> message, context |-> context, blank |-> blank]

\* One of the greatest length, one a character longer, and white space.
MCQueries == {Query(2, 1, FALSE), Query(3, 1, FALSE), Query(1, 0, TRUE)}
=============================================================================
