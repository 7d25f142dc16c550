SPECIFICATION Spec
CONSTANTS
  Versions <- MCVersions
  Layers <- MCLayers
  Kernels = 2
  Scenarios <- MCScenarios
  MaxCrashes = 1
  MaxTampered = 1
  MaxPartial = 1
INVARIANTS
  PublishedIsWhole
  PipelineRunsOneArtifact
  DeployedBytesVerified
CHECK_DEADLOCK FALSE
