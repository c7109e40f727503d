SPECIFICATION Spec
CONSTANTS
  Thread = {k, a}
  First = k
  MaxWork = 2
  TickInTrampoline = FALSE
INVARIANT CalleeRegistersKept
