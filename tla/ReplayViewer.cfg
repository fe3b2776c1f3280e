\* Replays of 0, 1 and 4 ticks; two time units per twelfth; frames from a
\* stall-free 120 Hz display to a tab that slept.
SPECIFICATION Spec
CONSTANTS
  FrameUnits = 2
  MaxDt = 12
  Totals = {0, 1, 4}
  Speeds = {1, 2, 8}
  Dts = {0, 1, 5, 12, 90}
  MaxSeeks = 2
INVARIANTS
  TypeOK
  ResimIsTheRecord
PROPERTIES
  DisplayNeverLurches
  NoTickBurst
  JumpsGoWhereAsked
CHECK_DEADLOCK FALSE
