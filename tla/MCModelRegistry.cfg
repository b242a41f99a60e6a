CONSTANTS
  PipelineKeys <- MCPipelineKeys
  Threads = {t1, t2, t3}
  Startup = startup
  Nobody = nobody
  DefaultPipelines <- MCDefaultPipelines
  CandidatePipelines <- MCCandidatePipelines
  EmbeddingModel = "MiniLM"
SPECIFICATION Spec
INVARIANTS TypeOK ConstructedOnce NoConcurrentConstruction LocksAreReleased
PROPERTIES CallsReturn
