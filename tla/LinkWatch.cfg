SPECIFICATION Spec
CONSTANTS
  Limit = 3
  Period = 2
  Wide = 16
  Shifts = {5, 8}
  MaxSets = 1
  MaxSlow = 1
INVARIANTS LossAndTimeBounded AlarmIsSilence
PROPERTIES NoticesAndGoesOn
