CONSTANTS num_gpu_blocks = 7
          enable_caching = TRUE
          Key <- HybridKey
          NoHash = NoHash
          NumTokens <- HybridNumTokens
          MaxRefCnt = 2
          Groups <- HybridGroups
          hash_block_size = 1
          scheduler_block_size = 2
          Request <- MCRequest
          all_token_ids <- HybridTokens
          num_prompt_tokens <- HybridPrompt
          max_model_len = 4
          max_in_flight_tokens = 2
          num_lookahead_tokens = 0
          watermark_blocks = 0
          full_sequence_must_fit = FALSE
          MaxExternal = 0
          MaxPreemptions = 1
SPECIFICATION KVSpec
INVARIANTS RefCntCountsHolders StepReadsOwnPrefix PrefixCacheSound
           AllocationNeverRaises
