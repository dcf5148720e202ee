SPECIFICATION Spec
CONSTANTS
  TotalRequests = 2
  MAX_NUM_BATCHED_REQUESTS = 2
  MAX_NUM_BATCHED_TOKENS = 8
  MAX_SEQ_LENGTH = 6
  PAGE_SIZE = 1
  MAX_NUM_PAGES = 12
  IndexLoad = "bulk"
INVARIANTS
  CacheIntact
