\* An old connection ends after the new one was set up; nobody is logged out.
SPECIFICATION Spec
CONSTANTS
  None = None
  Player = {p1}
  Conn = {c1, c2}
  Dispatcher = {}
SYMMETRY Symmetry
INVARIANT SessionFindable
