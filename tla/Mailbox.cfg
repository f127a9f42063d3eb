SPECIFICATION Spec
CONSTANTS
  p1 = p1
  p2 = p2
  m1 = m1
  d1 = d1
  Prog = {p1, p2}
  Mail = {m1}
  Draft = {d1}
  MaxInode = 13
SYMMETRY Symmetry
INVARIANTS TypeOK VisibleIsWhole HeldOnce AckedIsHeld
PROPERTY OutboxSettles
