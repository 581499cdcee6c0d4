SPECIFICATION ComponentsSpec
CONSTANTS
Nil = Nil
PodNames = {"p1","p2"}
PodObjects <- MCPodObjects
PoolObjects <- MCPoolObjects
MaxPodChanges = 2
MaxPoolChanges = 2
RewriteNames = {"n1", "n2"}
RewriteSpecs <- MCRewriteSpecs
Models = {"m1", "m2", "m3"}
CreationTimes = {1, 2}
Priorities = {0}
MaxObjectChanges = 3
Addresses = {"i1","i2"}
SubsetLists <- MCSubsetLists
CacheTTL = 1
MaxNow = 2
MaxSetChanges = 1
PromptOf <- MCPrompts
Servers = {"s1", "s2"}
CacheBlockSize <- MCBlockSize
CacheNumBlocks <- MCNumBlocks
AutoTune = TRUE
BlockSizeTokens = 2
CharactersPerToken = 1
MaxPrefixBlocks = 3
LRUCapacity = 2
Staleness = 0
EndpointLists <- MCEndpointLists
TargetChoices <- MCTargets
SlowRequests = {"r1"}
MaxPodToggles = 1
Leaving = {"s1"}
MaxPrefixClock = 1
Shards = {"s1", "s2"}
FlowRequests = {"r1", "r2"}
BufferSize = 1
MaxShardChanges = 3
MaxAttempts = 2
QueueItems = {1, 2, 3, 4, 5, 6}
Rank <- MCRank
Bytes <- MCBytes
MaxCleaned = 2
RunningIds = {"", "r1", "r2", "r3", "r4", "r5", "r6"}
RunningTPOTs <- MCRunningTPOTs
FlowPlugins <- MCFlowPlugins
FlowAPIs <- MCFlowAPIs
DetectorParams <- MCDetectorParams
MaxShardCount = 3
Flows = {1, 2, 3}
MaxQueued = 2
PolicyItems <- MCPolicyItems
QueueDepthThreshold = 2
KVCacheUtilThreshold = 400
UtilizationHeadroom = 0
MaxConcurrency = 2
MaxTokenConcurrency = 5
ConcurrencyHeadroom = 150
AffinityThreshold = 300
MaxTTFTPenalty = 2
QueueThresholdTokens = 4
TTFTWeight = 4
TPOTWeight = 1
Strategy = "least"
EndpointNames = {"e1", "e2", "e3"}
EndpointData <- MCEndpointData
ProfileLists <- MCProfileLists
TargetModel = "m"
RowsOf <- MCRowsOf
    InvalidCallers <- MCInvalidCallers
    CoalesceWindows = {0, 1}
    MaxBulkSize = 2
    MaxCoalescedRows = 3
    MaxConcurrentDispatches = 1
    CoalesceCapacity = 2
    EntryKind <- MCEntryKind
    MaxSampleSize = 3
    SampledGroups <- MCSampledGroups
    MaxFlushes = 2
PredictorConfigs <- MCPredictorConfigs
PredictorEnvs <- MCPredictorEnvs
ServerStatuses <- MCServerStatuses
ModelInfos <- MCModelInfos
MetricPages <- MCMetricPages
PredictionInputs <- MCPredictionInputs
BulkInputs <- MCBulkInputs
LatencyScenarios <- MCLatencyScenarios
TargetOf <- MCTargetOf
PrefillOf <- MCPrefillOf
TokensOf <- MCTokensOf
TrainingScenarios <- MCTrainingScenarios
TrainingRoles <- MCTrainingRoles
TrainingPrefixes <- MCTrainingPrefixes
TrainingPredictions <- MCTrainingPredictions
MaxTrainingClock = 3
MaxInterval = 2
MaxObservations = 4
LatencyConfigs <- MCLatencyConfigs
LatencyEndpoints <- MCLatencyEndpoints
LatencyObjectives <- MCLatencyObjectives
SyncScenarios <- MCSyncScenarios
MaxSaves = 2
SyncRows <- MCSyncRows
Samples <- MCSamples
ModelTypes = {"bayesian_ridge", "xgboost"}
TrainingBucket = 1
MaxTestData = 2
MinRetrain = 2
MinRetrainFresh = 1
MinSplit = 1
EnsembleMode = TRUE
MaxCycles = 2
MaxCrashes = 2
MaxFlushed = 1
ConfigMaps = {"c1", "c2"}
MapObjects <- MCMapObjects
ModelNames = {"a1", "a2", "b1", "b2"}
MaxMapChanges = 4
RouterOptions <- MCRouterOptions
Exchanges <- MCExchanges
ResponsePlugins <- MCResponsePlugins
RouterStore <- MCRouterStore
ChunkLimit = 2
MaxPort = 9999
PluginTypes <- MCPluginTypes
    StartInputs <- MCStartInputs
    AppProtocols = {"", "http", "h2c"}
    MaxPoolEvents = 2
ExtractorParams <- MCExtractorParams
    LegacyConfigs <- MCLegacyConfigs
    Pages <- MCPages
    PodEngines <- MCPodEngines
    MaxEndpoints = 2
    MaxPolls = 2
    MaxTime = 1
    StalenessThreshold = 0
    Extractors = {"x1", "x2"}
    MaxVersion = 4
ParsedExchanges <- MCParsedExchanges
ReporterConfigs <- MCReporterConfigs
INVARIANT ServersKnown StartupSound BodiesUnderstood AdaptersFollowConfigMaps TrainingServerSound ModelsReachWorkers SelectionJustified LatencyDataSound PredictorSound ScheduleJustified ServedInTurn FlowConfigSound QueueKeepsItsItems OneProcessorPerShard PrefixStateSound DatastoreConverges RewriteRuleChosen CandidatesFresh
CHECK_DEADLOCK FALSE
