SPECIFICATION FairSpec
CONSTANTS
  Registry <- DaemonRegistry
  RegisteredTools <- DaemonTools
  Families = {"debian", "fedora"}
  Findings <- MCFindings
  Faults = {"Fail", "InfrastructureError"}
  MaxTree = 1
  Server <- MCServer
  Home = "debian"
  MaxUpsets = 1
INVARIANTS OffersAreKept ObligationsAreNamed
PROPERTY AgentReachesFrontier
CHECK_DEADLOCK FALSE
