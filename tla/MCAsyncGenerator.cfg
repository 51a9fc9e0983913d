\* One generator that is asked four times; no bound on what its body does.
SPECIFICATION FairSpec
CONSTANTS
  MaxRequests = 4
INVARIANTS
  ResumedByOne
  HandedOutOnce
  AwaitStates
PROPERTIES
  ImplementsRequestQueue
  EveryRequestAnswered
