CONSTANTS num_gpu_blocks = 8
          enable_caching = TRUE
          Key <- ChunkedKey
          NoHash = NoHash
          NumTokens <- ChunkedNumTokens
          MaxRefCnt = 2
          Groups <- FullGroups
          hash_block_size = 1
          scheduler_block_size = 1
          Request <- MCRequest
          all_token_ids <- ChunkedTokens
          num_prompt_tokens <- ChunkedPrompt
          max_model_len = 7
          max_in_flight_tokens = 12
          num_lookahead_tokens = 0
          watermark_blocks = 0
          full_sequence_must_fit = FALSE
          policy = "fcfs"
          priority <- MCPriority
          max_num_running_reqs = 2
          max_num_scheduled_tokens = 4
          long_prefill_token_threshold = 2
          async_scheduling = TRUE
          max_concurrent_batches = 3
          defer_block_free = FALSE
          requires_kv_delivery = FALSE
          LoadKVAsync = {}
          remote_tokens <- NoRemoteTokens
          delays_free = FALSE
          recompute_kv_load_failures = FALSE
          FailingLoads = {}
          MaxLoadFailures = 0
          MaxResets = 2
SPECIFICATION SchedulerSpec
INVARIANTS SchedulerTypeOK QueuesMatchStatus OutputsInOrder ComputedTokensInTable
 
CHECK_DEADLOCK FALSE
