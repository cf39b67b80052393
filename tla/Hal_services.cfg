SPECIFICATION FairSpec
CONSTANTS
  ALT_NIRQ = 2
  I2cLine = 1
  UartLine = 0
  Word = 4
  Delta = 3
  MaxTime = 16
  Alarm = {a1, a2}
  Head = head
  Nil = nil
  Delays = {0, 1}
  Periods = {0, 1, 2}
  CPU_FREQUENCY_MHZ = 1
  Sleeps = {0, 2, 5}
  SleepTime = 8
  ALT_US = 4
  TicksPerSecond = 2
  Times <- SomeTimes
  ALT_MAX_FD = 6
  Device = {uart, null}
  FileSystem = {fs}
  NullDevice = null
  StdDevice = uart
  NoDev = none
INVARIANTS TellsTheTime HandlersThere NeverFast WellLinked NoneOverdue Conserved
PROPERTIES SleepsEnough LockedOut TickEnds
