\* Size and WordMod are powers of two, as in the code; 255 is also the failure value.
SPECIFICATION CBSpec
CONSTANTS
  Size = 4
  WordMod = 16
  Bytes = {0, 65, 255}
  Failed = 255
INVARIANTS CBTypeOK
PROPERTIES ImplementsFifo
