SPECIFICATION Spec
CONSTANTS
  NumWorkers = 4
  NumSchedulers = 3
  NumTasks = 7
  NumEvents = 5
  trigger_event <- ForkTrigger
  dependent_event <- ForkDependent
  per_worker_queue_len = 3
  per_sched_queue_len = 3
  TaskDescsBuffer = 2
  MaxIterations = 2
  MaxLaunches = 2
INVARIANTS
  TypeOK
  OwnQueuesOnly
  QueuesNeverOverrun
  WorkerQueueOrdered
  PrepareAlone
  EventQueuesWellFormed
  IterationAgreement
PROPERTIES
  ImplementsTaskGraph
  DrainedKernelExits
