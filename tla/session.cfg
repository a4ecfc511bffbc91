SPECIFICATION Spec
CONSTANTS
  Handle = {h1, h2, h3, h4}
  NoHandle = NoHandle
  RomNames <- MCRom
  FirstRamUnit = 5
  Growth = 1
  MaxUnits = 6
  Volumes = {boot, hd}
  FujiVolumes = {boot}
  Tagless = {hd}
  NoVolume = NoVolume
  KnockLen = 2
  BootVolume = boot
SYMMETRY HandleSymmetry
INVARIANTS SessionTypeOK StubsForward InstalledWhole NamesUnique ReadyIsGenuine TrafficAddressed
PROPERTIES UnitsKept RedirectHonest
