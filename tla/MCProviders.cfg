CONSTANTS
  n1 = n1
  n2 = n2
  Servers = {s1, s2}
  Builtins = {b1}
  Customs = {c1, c2}
  Names = {n1, n2}
  BuiltinName <- MCBuiltinName
  UserConfigs = {edited}
  EnvConfigs = {standard, rotated}
  Keep = Keep
SPECIFICATION Spec
INVARIANTS TypeOK
PROPERTIES BuiltinsStay OnlyNamedColumnsChange DeletedStaysDeleted ImplementsTable
SYMMETRY Symmetry
