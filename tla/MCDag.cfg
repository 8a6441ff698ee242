CONSTANT Nodes = {n1, n2, n3, n4}
SPECIFICATION Spec
SYMMETRY Symmetry
INVARIANTS
  TypeOK
  ValidateIsExact
  EvaluatesInOrder
  GroupsAndRanksAreExact
