CONSTANTS
  pay1 = pay1 fee = fee a1 = a1 a2 = a2 Idle = Idle
  Payments = {pay1, fee} PurposeOf <- TwoPurposes Admins = {a1, a2} Decisions = {"draft"}
SYMMETRY Symmetry
SPECIFICATION Spec
INVARIANTS TypeOK MoneyIsReal RefundedOrdersArePaidBack ReviewedShopsHavePaid
