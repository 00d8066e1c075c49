SPECIFICATION UiSpec
CONSTANTS
  Servers = {a, b, c}
  None = None
  PowerCommands = {Reset, ColdBoot}
  BootOnce = BootOnce
  Cap = 2
  ArmTimeout = 0
  Typed = {a, b}
  LegacyLists <- MCLegacyLists
SYMMETRY Symmetry
INVARIANTS OneServer TwoClicks RecentList StaysOpen
