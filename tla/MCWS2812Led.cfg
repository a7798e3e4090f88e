SPECIFICATION Spec

CONSTANTS
  NumPixels = 2
  Effects = {"TWINKLE", "METEOR", "BLEND"}
  MaxCommands = 3

INVARIANT TypeOK
INVARIANT EffectPaced
INVARIANT CommandHolds
PROPERTY AddedStays
PROPERTY Displayed
CHECK_DEADLOCK FALSE
