SPECIFICATION StorageSpec
CONSTANTS
  U32Max = 199
  ValueCap = 255
  FuelPerOp = 8
  FuelMin = 64
  Programs <- MCPrograms
  Stored <- MCStored
  LoadLimits <- MCLimits
  SubTarget = 9
  MaxResults = 2
INVARIANTS
  ParallelMatchesSequential
  SchedulerRespectsDependencies
  AdmittedGraphsRunExactly
  ContainersFaithful
