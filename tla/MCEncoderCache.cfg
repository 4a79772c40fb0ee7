CONSTANTS
  Request = {"r1", "r2", "r3"}
  mm_features <- features
  num_prompt_tokens <- prompts
  priority <- priorities
  policy = "fcfs"
  cache_size = 3
  max_num_encoder_input_tokens = 3
  max_num_scheduled_tokens = 5
  max_concurrent_batches = 2
  shift_computed_tokens = 1
  disable_chunked_mm_input = FALSE
  PrefixHits = {0, 2}
  MaxFailures = 1
  MaxResets = 1
SPECIFICATION FairEncoderSpec
INVARIANTS SlotsAccounted OutputsPresent CachesAgree
PROPERTIES EncodersMakeRoom
CHECK_DEADLOCK FALSE
