SPECIFICATION FairSpec
CONSTANTS
  Unit = {1, 2}
  MaxSent <- MCMaxSent
  BufCap = 2
  Window = 1
INVARIANTS
  NothingLostWhileCopying
  EndedDirectionIsDelivered
PROPERTIES
  ImplementsPipe
  EndClosesBoth
