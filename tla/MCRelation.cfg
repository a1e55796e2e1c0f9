CONSTANTS
  Table <- MCTable
  Root <- MCRoot
  Layout <- MCLayout
  InitialLayout <- MCInitialLayout
  Alteration <- MCAlteration
  Definition <- MCDefinition
  Bystander = {}
  MaxEvents = 3
SPECIFICATION RelationSpec
INVARIANTS RelationTypeOK  CaughtUp 
PROPERTY ReplicationDrains
CHECK_DEADLOCK FALSE
