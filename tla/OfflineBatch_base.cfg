SPECIFICATION Spec
CONSTANTS
  TotalRequests = 4
  MAX_NUM_BATCHED_REQUESTS = 3
  MAX_NUM_BATCHED_TOKENS = 3
  MAX_SEQ_LENGTH = 5
  PAGE_SIZE = 2
  MAX_NUM_PAGES = 9
  IndexLoad = "base"
INVARIANTS
  TypeOK
  PagesConserved
  CacheIntact
  InputsProduced
  EveryRequestAdvances
PROPERTIES
  ServesRequests
