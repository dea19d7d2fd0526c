SPECIFICATION FairSpec
CONSTANTS
  dev = dev
  ann = ann
  nobody = nobody
  garbled = garbled
  rejected = rejected
  p1 = p1
  p2 = p2
  nopurse = nopurse
  User = {dev, ann}
  DevUser = dev
  Nobody = nobody
  Garbled = garbled
  Rejected = rejected
  Account = {ann}
  Caller <- TheCaller
  Purse = {p1}
  NoPurse = nopurse
  Installed = TRUE
  MaxOrders = 2
  MaxChanges = 1
INVARIANT CheckoutTypeOK
INVARIANT WalletIsCurrent
INVARIANT ResultIsTrue
PROPERTY BookedForShown
PROPERTY RefinesSale
PROPERTY ProcessingEnds
