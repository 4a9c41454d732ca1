\* Two sessions with homes of their own, three directories, no file: what they race for
\* is a directory and what is in it.  Only s2 changes its folder.
SPECIFICATION Spec
CONSTANTS
  Session = {s1, s2}
  a = a
  b = b
  d1 = d1
  d2 = d2
  d3 = d3
  s2 = s2
  f1 = f1
  Directory = {d1, d2, d3}
  File = {}
  Letter = {a, b}
  InitialTree <- MCFullTree
  Home <- MCFullHome
  Argument <- MCRooted
  Given <- MCMost
  MaxName = 1
  MaxDepth = 2
PROPERTIES DirectoriesKept ListingComplete
