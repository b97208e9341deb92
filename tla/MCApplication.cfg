SPECIFICATION AppSpec
CONSTANTS
  e1 = e1
  e2 = e2
  b3 = b3
  d1 = d1
  d2 = d2
  b1 = b1
  b2 = b2
  Exchange = {e1, e2}
  Delivery = {d1, d2}
  Binding = {b1, b2, b3}
  DeliveryOf <- MCDeliveryOf
  BindingOf <- MCBindingOf
  Caller = {w1, w2}
  NoBinding = none
  Maximum = 2
INVARIANTS
  NothingLeaks
  HandledSendersAreKnown
PROPERTIES
  ImplementsAtMostOnce
CHECK_DEADLOCK FALSE
