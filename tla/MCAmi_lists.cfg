SPECIFICATION Spec
CONSTANTS
  e1 = e1
  e2 = e2
  k1 = k1
  k2 = k2
  c1 = c1
  c2 = c2
  r1 = r1
  r2 = r2
  None = None
  Endpoint = {e1, e2}
  Known = {e1, e2}
  Contact = {k1, k2}
  Channel = {c1, c2}
  Room = {r1, r2}
  Owner <- MCOwner
  MaxFrames = 4
  MaxRooms = 2
  MaxChanges = 3
SYMMETRY Symmetry
INVARIANTS
  TypeOK
  AnswersAreTrue
  AnswersAreComplete
  CommandsAreHonest
