CONSTANTS
  e1 = e1
  e2 = e2
  b1 = b1
  Events <- MCEvents
  Behaviors <- MCBehaviors
  Alerts <- MCAlerts
  Incidents <- MCIncidents
  LegacyAlerts <- MCLegacyAlerts
  Outcomes = {"ok", "failed", "unknown"}
SPECIFICATION StoreSpec
INVARIANTS
  StoreTypeOK
  PromiseKept
PROPERTIES
  DurableBeforeVisible
  NoSecondAlert
