CONSTANTS num_gpu_blocks = 4
          enable_caching = TRUE
          Key <- MCKey
          NoHash = "none"
          NumTokens <- MCNumTokens
          MaxRefCnt = 2
SPECIFICATION PoolSpec
INVARIANTS FreeIffUnreferenced HashMapConsistent EventsSound
