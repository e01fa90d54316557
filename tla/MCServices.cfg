SPECIFICATION AllSpec
CONSTANTS
  Configs <- SomeConfigs
  Queries <- SomeQueries
  AnswerSizes = {1, 3, 4}
  MaxBody = 3
  Inline = 1
  MaxBlobBytes = 4
  MaxJobs = 2
  MaxStreams = 1
  Capacities = {1, 2}
  MaxOutstanding = 3
  MaxIds = 5
  Default = 0
  Databases = {0, 1}
  Pipelines <- SomePipelines
  MaxRequests = 3
  MaxTries = 3
  Channels = {"a"}
  EventCapacities = {1, 2}
  MaxControls = 2
  MaxMessages = 3
  MaxEventStreams = 1
INVARIANT OpensAreSafe
INVARIANT JobsAreSound
INVARIANT CallsAreSafe
INVARIANT StreamsAreSound
INVARIANT MongoOpenIsExact
INVARIANT MongoResultsAreExact
CHECK_DEADLOCK FALSE
