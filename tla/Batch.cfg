\* Three documents over two agents: a remainder, more agents than documents, no
\* document; answers of up to two results.
CONSTANTS
    MaxDocs = 3
    MaxAgents = 2
    MaxResults = 2
    Scores = {0, 1}
SPECIFICATION BatchSpec
INVARIANTS EveryDocumentSent FailureIsPrivate ReportIsExact
