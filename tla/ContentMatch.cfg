SPECIFICATION Spec
CONSTANTS
  Local = {"a", "b", "h", "m", "w", "x"}
  NS = {"n", "o"}
  Inputs <- MCInputs
  Substitutes <- MCSubstitutes
  AbstractNames <- MCAbstractNames
  GlobalNames <- MCGlobalNames
  MaxKids = 3
INVARIANTS
  Sound
  Complete
