SPECIFICATION Spec
CONSTANTS
  Docs <- TwoChips
  Documents <- TwoChips
  Disk <- AllDisk
  FirmwareChip <- Firmware
  Present <- Chips
  Default <- AllDefaults
  Changes <- ToolWrites
  BoardChanges <- BoardWrites
  ChannelMaskMap <- AllMasks
  Mezzanines <- Dio5Cards
  MaxAttempts = 2
  max_attempts = 2
  MaxChanges = 2
  MaxConfigures = 2
  MaxSessions = 2
  MaxRuns = 3
  PsIds = {0, 1}
  fFWNChips = 1
  fFirwmareChipType = "MPA"
  fChipEmulator = FALSE
  Addr <- AllAddr
  InOrder <- NamesSorted
  Pixels <- OnePixel
  Operations <- AllOperations
  Junk = {0, 255}
  Rate <- Rates
  Enough = 50
  MaxPolls = 2
INVARIANTS ChipsAsDescribed
CHECK_DEADLOCK FALSE
