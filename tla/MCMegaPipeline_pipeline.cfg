SPECIFICATION Spec
CONSTANTS
  INSTRUCTION_PIPELINE_STAGES = 2
  INSTRUCTION_PIPELINE_STAGES_BITS = 1
  NUM_CONSUMER_WARPS = 2
  skip_attn_reduction = FALSE
  num_iters = 3
  Warps <- MCWarps
  Programs <- MCPrograms
INVARIANTS
  TypeOK
  PagesInTurn
  OwnData
  SemaphoresLive
  FreshInputs
  SlotHeld
PROPERTIES
  ImplementsWindow
  Terminates
