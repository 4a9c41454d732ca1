\* One session renames to a file that exists.
SPECIFICATION Spec
CONSTANTS
  Session = {s1}
  a = a
  b = b
  d1 = d1
  d2 = d2
  d3 = d3
  s2 = s2
  f1 = f1
  Directory = {d1, d2}
  File = {f1, f2}
  Letter = {a, b}
  InitialTree <- MCTree
  Home <- MCHome
  Argument <- MCArguments
  Given <- MCAll
  MaxName = 1
  MaxDepth = 2
PROPERTIES NothingOverwritten
