CONSTANTS
  Threads = {w1, w2, w3, w4}
  Slots = {1, 2, 3, 4}
  PerWorker = 2
  Empty = Empty
  Vacant = Vacant
SPECIFICATION Spec
SYMMETRY Symmetry
INVARIANT WorkersTypeOK
INVARIANT PopsSucceed
INVARIANT AllItemsReturned
INVARIANT EnoughAhead
