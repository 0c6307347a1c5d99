SPECIFICATION Spec
CONSTANTS
    Shots = {s1, s2, s3}
    Matches = {m1}
    NoMatch = NoMatch
    MaxCalls = 4
    MaxRounds = 2
SYMMETRY Symmetry
INVARIANTS TypeOK StatsExact
