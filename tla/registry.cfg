\* Two requests at once that rely on different rows.
SPECIFICATION Spec
CONSTANTS
  g1 = g1
  g2 = g2
  t1 = t1
  t2 = t2
  o1 = o1
  x1 = x1
  r1 = r1
  r2 = r2
  n = n
  nSpaced = nSpaced
  Guest = {g1, g2}
  RoomType = {t1, t2}
  Room = {o1}
  Stay = {x1}
  Session = {r1, r2}
  DocumentType = {"passport", "id_card"}
  Typed <- MCTyped
  Normal <- MCNormal
  Capacity = {1, 2}
CONSTRAINT Apart
SYMMETRY Symmetries
INVARIANTS
  TypeOK
  DocumentsUnique
  PartiesFit
PROPERTIES
  HistoryNeverVanishes
CHECK_DEADLOCK FALSE
