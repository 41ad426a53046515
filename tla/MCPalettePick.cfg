SPECIFICATION Spec
CONSTANTS
  MaxColor <- MCMaxColor
  Local = {l1}
  Remote = {r1, r2}
  Seat <- MCSeat
INVARIANT NeverReadsArtifact
