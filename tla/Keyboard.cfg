SPECIFICATION Spec
CONSTANTS
  Keys = {"ctrl", "alt", "f1", "esc"}
  Extended = {"ctrl"}
  QueueSize = 3
  MaxReports = 5
INVARIANTS TypeOK GuestModifiersAgree
PROPERTIES CodesReachGuest PrefixKept KeyboardGoesOn
