CONSTANTS n_worker = 2
          Reader <- MCWorker
          Capacity = 2
          use_async_scheduling = TRUE
          OutputRank <- MCOutputRank
          None = None
          MaxCalls = 3
          MaxErrors = 1
          MaxDeaths = 1
SPECIFICATION FairExecutorSpec
INVARIANT ResultsOfOwnCallUntilError
PROPERTY CallsReturn
CHECK_DEADLOCK FALSE
