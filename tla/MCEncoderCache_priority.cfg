CONSTANTS
  Request = {"r1", "r2"}
  mm_features <- three_images
  num_prompt_tokens <- long_prompts
  priority <- priorities
  policy = "priority"
  cache_size = 5
  max_num_encoder_input_tokens = 2
  max_num_scheduled_tokens = 5
  max_concurrent_batches = 2
  shift_computed_tokens = 0
  disable_chunked_mm_input = FALSE
  PrefixHits = {0}
  MaxFailures = 1
  MaxResets = 0
SPECIFICATION EncoderSpec
INVARIANT OutputsPresent
CHECK_DEADLOCK FALSE
