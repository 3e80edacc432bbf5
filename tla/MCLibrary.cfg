CONSTANTS
  WordBits = 8
  Fold = 5
  Chunk = 8
  ProductCutoff = 8
  SchoolbookDegree = 3
  ColumnRetries = 4
  LimbBits = 4
  PowMaxLambda = 40
  ProtocolMaxLambda = 12
  SearchRankBudget = 5
  Usize = 4096
  ChunkFields = 2
  RingDegreeFloor = 3
  PlausibilityWeightFloor = 2
  PolicyWeightFloor = 3
  FieldCalls <- MCFieldCalls
  TransformCalls <- MCTransformCalls
  ExtensionCalls <- MCExtensionCalls
  MaskCalls <- MCMaskCalls
  ProtocolCalls <- MCProtocolCalls
  ParameterCalls <- MCParameterCalls
  CodecCalls <- MCCodecCalls
  StagingCalls <- MCStagingCalls
  Stream <- MCStream
SPECIFICATION Spec
INVARIANTS
  FieldExact
  TransformExact
  ExtensionExact
  MaskExact
  ProtocolExact
  ParametersSound
  CodecExact
  StagingExact
CHECK_DEADLOCK FALSE
