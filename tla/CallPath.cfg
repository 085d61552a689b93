SPECIFICATION Spec
CONSTANTS
  Calls <- MCCalls
  MaxDeaths = 2
  Scenarios <- MCScenarios
  App <- MCApp
  Results <- MCResults
CHECK_DEADLOCK FALSE
INVARIANTS  AnswerTrue SettledOnce ProxyAttended AppInformed
PROPERTIES EffectIntended PromiseSettles
