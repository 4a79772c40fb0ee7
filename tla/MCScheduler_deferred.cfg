CONSTANTS num_gpu_blocks = 8
          enable_caching = TRUE
          Key <- HybridKey
          NoHash = NoHash
          NumTokens <- HybridNumTokens
          MaxRefCnt = 2
          Groups <- HybridGroups
          hash_block_size = 1
          scheduler_block_size = 1
          Request <- MCRequest
          all_token_ids <- SharedTokens
          num_prompt_tokens <- SharedPrompt
          max_model_len = 5
          max_in_flight_tokens = 6
          num_lookahead_tokens = 0
          watermark_blocks = 0
          full_sequence_must_fit = FALSE
          policy = "priority"
          priority <- MCPriority
          max_num_running_reqs = 2
          max_num_scheduled_tokens = 2
          long_prefill_token_threshold = 0
          async_scheduling = TRUE
          max_concurrent_batches = 3
          defer_block_free = TRUE
          requires_kv_delivery = FALSE
          LoadKVAsync = {}
          remote_tokens <- NoRemoteTokens
          delays_free = FALSE
          recompute_kv_load_failures = FALSE
          FailingLoads = {}
          MaxLoadFailures = 0
          MaxResets = 2
SPECIFICATION FairSchedulerSpec
INVARIANTS RefCntCountsRetained InFlightBlocksHeld SchedulerNeverRaises
PROPERTY EveryRequestFinishes
CHECK_DEADLOCK FALSE
