SPECIFICATION Spec
CONSTANTS
  Requests = {s1, s2}
  Users = {u1, u2}
  Agents = {a1, a2}
  Vocabulary = {n1, n2}
  Numbered = {k1}
  Challenges = {c1, c2}
  Sockets = {w1, w2}
  MaxAsked = 3
  None = None
INVARIANTS CacheIsCurrent RevokedStayOut NamesReserved AttentiveStay
SYMMETRY Symmetry
CHECK_DEADLOCK FALSE
