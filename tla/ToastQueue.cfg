\* Three toasts: one on screen, one cancelled, one new.
SPECIFICATION FairSpec
CONSTANT MaxToasts = 3
INVARIANTS TypeOK OneLiveToast CancelledStaysGone
PROPERTIES ImplementsSerialDisplay EveryToastFinishes NewestIsShown
\* A trapped program stops.
CHECK_DEADLOCK FALSE
