CONSTANTS
  ann = ann
  bob = bob
  cid = cid
  None = None
  Users = {ann, bob, cid}
  Events = {e1, e2}
  Clients = {r1, r2}
  Values = {1, 2}
  Threshold <- ThresholdOf
CHECK_DEADLOCK FALSE
SYMMETRY Symmetry
SPECIFICATION Spec
INVARIANTS
  TypeOK
  NoNoteIsLost
  ShownOnce
PROPERTY ImplementsMailbox
