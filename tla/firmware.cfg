CONSTANTS
  MaxCalls = 3
  Pin <- MCPin
  PinOf <- MCPinOf
  Function <- Roles
  Peripheral <- MCPeripheral
  EnableBit <- MCEnableBit
  Chips = {"f002b", "f030", "f072"}
  HseFreqs = {2000000, 16000000, 24000000, 32000000}
  HsiDivs = {1, 128}
  Prescalers = {1, 8}
  Bauds = {9600, 115200, 1000000, 2500000, 6000000}
  Speeds = {1000, 20000, 90000, 100000, 400000}
  PwmFreqs = {1, 50, 7000, 366, 1000000, 3000000}
  TickFreqs = {100, 1000, 1000000, 7000000}
  DeadTimes = {1, 100, 200, 255, 400, 600, 1000, 2000}
  PageCount = 4
  SectorPages = 2
  Sleepers = {t1, t2, t3}
  LastTick = 6
  Cap = 3
  MaxElements = 6
  MaxWrite = 2
SPECIFICATION FirmwareSpec
INVARIANTS PinsWellDriven ClockedWhileUsed ReleasedWhenDropped InterruptServed ClockSafe FrozenFrequencies SettingFits FlashContract WokenInTime WriterContract
CHECK_DEADLOCK FALSE
