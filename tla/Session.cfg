SPECIFICATION Spec
CONSTANTS
  alice = alice
  bob = bob
  x = x
  y = y
  k1 = k1
  k2 = k2
  Absent = Absent
  Torn = Torn
  NoKey = NoKey
  Key = {k1, k2}
  Name = {alice, bob}
  Onion = {x, y}
INVARIANTS
  TypeOK
  AddressIsStable
  BookMatchesFile
  NamesAreRight
PROPERTIES
  OnionComesBack
