CONSTANTS num_gpu_blocks = 11
          enable_caching = TRUE
          Key <- ExternalKey
          NoHash = NoHash
          NumTokens <- ExternalNumTokens
          MaxRefCnt = 2
          Groups <- ExternalGroups
          hash_block_size = 1
          scheduler_block_size = 1
          Request <- MCRequest
          all_token_ids <- ExternalTokens
          num_prompt_tokens <- ExternalPrompt
          max_model_len = 5
          max_in_flight_tokens = 1
          num_lookahead_tokens = 0
          watermark_blocks = 1
          full_sequence_must_fit = TRUE
          MaxExternal = 1
          MaxPreemptions = 1
SPECIFICATION KVSpec
INVARIANTS StepReadsOwnPrefix  HeldWithinAdmissionCap
