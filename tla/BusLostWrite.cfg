CONSTANTS
  ByteRadix = 3
  WordBytes = 1
  AddrBytes = 2
  TimeoutTicks = 1
  NumWords = 2
  HostCommands = {"SOP", "EOP", "BUSW", "BUSR"}
  HostRegions = {1, 2}
  HostBytes = {0, 1}
  CpuRegions = {"DMEM", "CSR", "NONE"}
  CpuWords <- MCCpuWords
SPECIFICATION Spec
PROPERTY
  HostWriteTakesEffect
