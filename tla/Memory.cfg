\* Heap and stacks with stacks of an even number of words.
SPECIFICATION MemorySpec
CONSTANTS
  InitFree <- SmallHeap
  MemSizes = {1, 2, 3}
  StkSizes = {2, 4}
INVARIANTS
  MemoryTypeOK
  FreeListApart
  HeapPartition
  RefusedOnlyWhenFull
