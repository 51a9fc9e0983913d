\* Three modules; the host also calls from the bodies of modules and from the callback
\* that tells it of the end of an evaluation.
SPECIFICATION FairSpec
CONSTANTS
  Module <- MCModule
  Graphs <- MCGraphs
  HostCalls = {"body", "ended"}
INVARIANTS
  TypeOK
  TransitionsHaveOwner
  ReadyWhenLinked
  NamesOnce
PROPERTIES
  ImplementsModuleStates
  EveryCallEnds
