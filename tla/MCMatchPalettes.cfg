SPECIFICATION FairSpec
CONSTANTS
  MaxColor <- MCMaxColor
  Local = {l1}
  Remote = {r1, r2}
  Seat <- MCSeat
INVARIANTS TypeOK ReadsThePick ShownIsChosen OpponentIsSpared QueueIsRivals
PROPERTIES ExchangeEnds ImplementsCostumes
