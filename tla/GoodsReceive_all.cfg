SPECIFICATION ReceiveSpec
CONSTANTS
  g1 = g1
  g2 = g2
  g3 = g3
  b1 = b1
  b2 = b2
  b3 = b3
  Receipts <- ThreeReceipts
  Barcodes <- ThreeBarcodes
  Bodies <- SomeBodies
INVARIANTS ReceiveTypeOK LinesAreReceived CreatedIsWhole
PROPERTIES EveryReceiptEnds
CHECK_DEADLOCK FALSE
