SPECIFICATION Spec
CONSTANTS
    TextLen = 4
    Rules = {r1, p1}
    Preferred = {p1}
    MaxFindings = 2
    MaxCandidates = 4
CHECK_DEADLOCK FALSE
INVARIANTS SortedDisjoint RedactsReported BlockingRuleSurvives
