SPECIFICATION Spec
CONSTANTS
  Probes <- MCProbes
  Removable <- MCRemovable
INVARIANTS
  TypeOK
  TargetIsChosen
  SelectionAgrees
  ListedInOrder
