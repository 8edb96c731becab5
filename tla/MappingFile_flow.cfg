SPECIFICATION Spec
CONSTANTS
  p = p
  q = q
  t = t
  u = u
  v = v
  Held = held
  Joined = joined
  Projects <- OneProject
  Targets <- Directories
  Names <- TwoNames
  Layouts <- FlowForms
PROPERTY SelectiveStaysSelective
CONSTANT Asked <- TwoPaths
