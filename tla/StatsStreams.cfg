CONSTANTS
    Ids = {c1, c2}
    Workers = {w1, w2}
    None = None
SPECIFICATION FairSpec
INVARIANTS FramePublisherAlive EntriesMatchWorkers
PROPERTIES RegistrySpec StoppedWorkerExits
