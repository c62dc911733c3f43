SPECIFICATION Spec
CONSTANTS
  None = None
  research1 = research1
  research2 = research2
  Research = Research
  review = review
  Skills <- MCSkills
  NameOf <- MCNameOf
  Lower <- MCLower
  Thresholds = {0, 40, 95}
  Scores = {0, 39, 40}
INVARIANT FoundByNameIsRegistered
PROPERTY TaskGetsOfferedSkill
CHECK_DEADLOCK FALSE
