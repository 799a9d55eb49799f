SPECIFICATION Spec
CONSTANTS
  Call <- MCCall
  Artifacts <- MCArtifacts
  None = None
INVARIANTS
  MergedByPriority
  UniqueLabels
