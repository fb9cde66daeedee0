CONSTANTS
  Devices = {0, 12}
  BiosMasks <- Masks
  Entry = 2
  UserDepth = 1
  MaxKeys = 2
SPECIFICATION MachineSpec
INVARIANTS ServesItsLine InterruptibleStack StacksUnwound MasksKept KeysInOrder
PROPERTIES ResetOnlyAtFirstEntry SyscallResumes ExceptionIsFinal KeyServed
