CONSTANTS
  Mods = {"m", "n"}
  MaxVersion = 2
SPECIFICATION Spec
INVARIANTS
  TypeOK
  PackageKept
