CONSTANTS dp_size = 2
          Client = {c1}
          Request <- MCRequest
          num_passes <- MCNumPasses
          SyncInterval = 2
          PauseMode = {"keep", "wait", "abort"}
          MaxPauses = 1
          MaxDropped = 1
          MaxCalls = 2
SPECIFICATION FairSpec
INVARIANTS  WavesOrdered PausedKnown
PROPERTIES RequestsFinish EnginesPause
CHECK_DEADLOCK FALSE
