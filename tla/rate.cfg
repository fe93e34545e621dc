\* A counter that wraps after 8 units, quiet times of up to three rounds.
SPECIFICATION RateSpec
CONSTANTS
  UpdateTime = 3
  Wrap = 8
  MaxTime = 25
INVARIANTS
  RequestsAreSpaced
  DroppedOnlyWhenRecent
