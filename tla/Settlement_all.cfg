SPECIFICATION ReportSpec
CONSTANTS
  i1 = i1
  i2 = i2
  p1 = p1
  p2 = p2
  p3 = p3
  Invoices <- TwoInvoices
  Payments <- ThreePayments
  Totals = {0, 80}
  Amounts <- MatchAmounts
  Low <- SeventyAndTen
  Bodies <- TwoInvoiceBodies
  AmountOf <- EachEighty
  Overlapping <- OneInvoice
SYMMETRY PaymentSymmetry
INVARIANTS TypeOK PaidIsCovered
PROPERTIES ImplementsAccount ReportsReconcile
CHECK_DEADLOCK FALSE
