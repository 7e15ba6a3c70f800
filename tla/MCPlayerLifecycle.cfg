CONSTANTS
    Main = Main
    Readers = {r1, r2}
SPECIFICATION FairSpec
CONSTRAINT UntilRaced
INVARIANTS TypeOK TeardownSafe SingleTeardown StopIsAnswered CleanBetweenSessions
PROPERTIES StopReturns ImplementsProtocol
