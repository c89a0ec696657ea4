SPECIFICATION PropSpec
CONSTANTS
    MaxDepth = 5
    Refused <- Refuses
    DependsOnSignal <- SignalDependent
    Evaluates <- Evaluate
    NothingToRead <- NoSignal
    ReadsSignal <- MentionsSignal
    Manifests <- MCManifests
    Supplies <- MCSupplies
    Batches <- MCBatches
    MaxCallbacks = 2
INVARIANTS
    AnswersTheQuestion
    DecidedAtDeploy
