SPECIFICATION Spec
CONSTANTS
  full = full
  eye = eye
  finger = finger
  plain = plain
  NoCandidate = NoCandidate
  Candidates <- MCCandidates
  Enrolled <- MCEnrolled
  MaxSessions = 2
INVARIANTS
  VerdictAlwaysEarned
