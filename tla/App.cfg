CONSTANTS
  Apps = {a1, a2}
  Modules = {"orders", "users"}
  Constructors <- AllConstructors
  NoConstructor = "none"
  Controllers <- ModuleControllers
  Provide <- ModuleProvides
  Registered <- Plugins
  PluginLists <- Lists
  MaxSpare = 1
  MaxArrays = 2
  MaxPlugins = 4
  Callers = {c1, c2}
  Labels = {l1}
  NoLabel = NoLabel
  NoProducer = NoProducer
  MaxCreated = 2
  MaxProfilers = 2
  Needs <- Dependencies
  Demand <- Needed
  NoApp = NoApp
SPECIFICATION FairSpec
INVARIANTS
  TypeOK
  KeepsUnlessRobbed
  RegistryIntact
  OneProducerPerLabel
  NothingLeftBehind
PROPERTIES
  AnsweredOpen
  ManagerStopsFirst
  StopEnds
CHECK_DEADLOCK FALSE
