SPECIFICATION Spec
CONSTANTS
  p1 = p1 p2 = p2
  Products = {p1, p2}
  Price <- PriceByProduct
  Stock <- StockByProduct
  Fields = {"phone", "memo"}
  Required = {"phone"}
  MaxItems = 2
  MaxPays = 2
  MaxPosts = 2
  MaxToasts = 1
INVARIANTS
  SuccessMeansPaid
  PaidAsCharged
  OrderedAddressShown
  PaymentsSound
  PendingIsAwaited
PROPERTIES
  CartSurvivesFailure
CHECK_DEADLOCK FALSE
