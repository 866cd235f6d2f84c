SPECIFICATION Spec
CONSTANTS
  NULL = NULL
  f1 = f1
  int64 = int64
  Field = {f1}
  Type = {int64, string}
  First <- OneField
  Producer = {p1, p2}
  Consumer = {c1, c2}
  MaxVersion = 5
SYMMETRY Replicas
INVARIANTS
  NothingRefused
