\* Questions over three chunks, two with the same content, while the index
\* changes; a budget that cuts the long content short, and a limit of chunks
\* below what the search returns.
CONSTANTS
    c1 = c1
    c2 = c2
    c3 = c3
    short = short
    long = long
    t1 = t1
    t2 = t2
    t3 = t3
    Chunks = {c1, c2, c3}
    Contents = {short, long}
    ContentOf <- ContentsOfChunks
    TextOf <- Texts
    HeaderCost <- Headers
    Terms = {t1, t2, t3}
    TermsOf <- ShownTerms
    TermShare = 2
    MaxTokens = 6
    MaxChunks = 2
    Limit = 3
    Responses <- FewAnswers
SPECIFICATION FairSpec
INVARIANTS
    ContextKeepsItsBudget
    CutsAreLongest
PROPERTIES
    EvidenceIsStored
    QuestionsEnd
