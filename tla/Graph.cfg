\* A thread asks while others run the session and contexts come and go.
SPECIFICATION Spec
CONSTANTS
    Graphs <- AllGraphs
    Readers = {r1}
    Queries <- AllQueries
    NameLen <- Lengths
    TempSize = 256
    None = None
    Broken = Broken
INVARIANTS
    TypeOK
    FirstMessageDone
PROPERTY
    AnswersFromOneGraph
