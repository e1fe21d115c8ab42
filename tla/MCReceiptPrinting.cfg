SPECIFICATION MCSpec
CONSTANTS
  MaxPresses = 2
  d1 = d1
  d2 = d2
  Preferred <- MCPreferred
  Devices = {d1, d2}
  Screens = {"checkout", "billDetail", "retailerCheckout", "saleDetail", "sales"}
  Slices = 2
  MaxQueue = 2
  MaxCuts = 1
  MaxReloads = 1
  None = None
INVARIANTS
  PaperInv
  ToldAsPrinted
PROPERTIES
  NeverCutShort
  PressesEnd
