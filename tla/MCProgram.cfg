\* A table of two interfaces for three names, two programs, and memory for four contexts.
CONSTANTS
  Name = {n1, n2, n3}
  Handle = {p, q}
  Block = {b1, b2, b3, b4}
  NULL = NULL
  Garbage = Garbage
  MAX_PROGRAMS = 2
SYMMETRY Addresses
SPECIFICATION Spec
INVARIANTS
  TypeOK
  ContextsHaveOneOwner
