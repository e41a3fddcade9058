CONSTANTS
  Threads = {v, d}
  Items = {f1, f2}
  Backbuffer = 0
  Elems = {e1, e2, e3}
  NULL = NULL
SPECIFICATION Spec
INVARIANTS Consistent NoLeak SizeExact
PROPERTIES ImplementsFifo
