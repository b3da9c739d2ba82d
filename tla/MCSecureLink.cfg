SPECIFICATION LinkFairSpec
CONSTANTS
  Modes = {FALSE, TRUE}
  MaxCrashes = 3
  MaxFaults = 1
  Addresses = {"daemon", "elsewhere"}
  DefaultAddress = "daemon"
  NoFile = NoFile
  Truncated = Truncated
INVARIANTS LinkTypeOK OneGeneration PairingKept
PROPERTIES SettingsProven ComesUp
