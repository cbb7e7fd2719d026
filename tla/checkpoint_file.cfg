\* Three writers of one checkpoint, deaths and power cuts anywhere.
CONSTANTS
  Writer = {w1, w2, w3}
  Damages = TRUE
  MaxWrites = 3
CONSTRAINT FewWrites
SYMMETRY Symmetry
SPECIFICATION Spec
INVARIANTS TypeOK AlwaysReadable DamageCostsOne NewestKeepsItsFile OrphansGo
PROPERTY AtomicUntilDamaged
CHECK_DEADLOCK FALSE
