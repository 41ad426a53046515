SPECIFICATION Spec
CONSTANTS
  a = a
  b = b
  c = c
  s1 = s1
  s2 = s2
  Member = {a, b, c}
  Seat = {s1, s2}
  Mode = {x}
  None = None
  Sharing = {a}
  Uploading = {a}
  MaxPackets = 2
INVARIANTS TypeOK EveryoneIsKnown PermissionIsTheirs ModeNeedsBoth RefusalIsKept
PROPERTY ImplementsTerms
SYMMETRY MCSymmetry
