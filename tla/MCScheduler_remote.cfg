CONSTANTS num_gpu_blocks = 6
          enable_caching = TRUE
          Key <- SharedKey
          NoHash = NoHash
          NumTokens <- SharedNumTokens
          MaxRefCnt = 2
          Groups <- FullGroups
          hash_block_size = 1
          scheduler_block_size = 1
          Request <- MCRequest
          all_token_ids <- SharedTokens
          num_prompt_tokens <- SharedPrompt
          max_model_len = 5
          max_in_flight_tokens = 2
          num_lookahead_tokens = 0
          watermark_blocks = 1
          full_sequence_must_fit = TRUE
          policy = "fcfs"
          priority <- MCPriority
          max_num_running_reqs = 2
          max_num_scheduled_tokens = 2
          long_prefill_token_threshold = 0
          async_scheduling = FALSE
          max_concurrent_batches = 1
          defer_block_free = FALSE
          requires_kv_delivery = FALSE
          LoadKVAsync = {TRUE, FALSE}
          remote_tokens <- RemoteTokens
          delays_free = TRUE
          recompute_kv_load_failures = FALSE
          FailingLoads = {TRUE}
          MaxLoadFailures = 2
          MaxResets = 1
SPECIFICATION FairSchedulerSpec
INVARIANTS RefCntCountsRetained ComputedTokensInTable SchedulerCacheSound
           LoadingBlocksHeld
PROPERTIES EveryRequestFinishes BlocksReturned
CHECK_DEADLOCK FALSE
