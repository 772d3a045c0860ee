SPECIFICATION Spec
CHECK_DEADLOCK FALSE
CONSTANTS
  Commands <- MCCommands
  Numerals <- MCNumerals
  Programs <- MCPrograms
  DataBytes <- MCDataBytes
  AddrSpace = 65536
  uart0_base_addr = 32768
  sw_irq_addr = 45055
  max_sync_diff = 12
  ILimit = 32767
  UART_TICKS_PER_BIT = 4
INVARIANT
  OptionsAsDocumented
