SPECIFICATION Spec
CONSTANTS
  Editors = {p1}
  Admins = {q1}
  Edits = {"renamed"}
  Missions = {m1}
  Braced = {}
INVARIANT QueueIsKept
