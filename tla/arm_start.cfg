SPECIFICATION ArmSpec
CONSTANTS
  n1 = n1  n2 = n2  n3 = n3
  delayed = delayed  ready = ready
  Null = Null
  Nodes <- ThreeNodes
  Lists <- TwoLists
  Walked = delayed
  Target = ready
  MaxCount = 1
SYMMETRY Symmetry
INVARIANT FirstThreadStarts
