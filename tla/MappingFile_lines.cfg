SPECIFICATION Spec
CONSTANTS
  p = p
  q = q
  t = t
  u = u
  v = v
  Held = held
  Joined = joined
  Projects <- TwoProjects
  Targets <- Directories
  Names <- TwoNames
  Layouts <- BlockForms
INVARIANT Readable
PROPERTY KeepsPromise
PROPERTY RestKept
CONSTANT Asked <- TwoPaths
