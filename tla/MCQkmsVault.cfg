SPECIFICATION VSpec
CONSTANTS
  NumSlots = 2
  AllSlots = 255
  k1 = k1
  k2 = k2
  Keys = {k1, k2}
  Epochs = {1}
INVARIANTS
  VTypeOK
  KernelAgrees
  DestroyedIsWiped
PROPERTIES
  LifeGoesOneWay
