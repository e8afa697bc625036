SPECIFICATION Spec
PROPERTIES
  DeliveriesKept
  ExpansionKept
  SyncKept
  StatusConverges
  FiltersKept
  FeedKept
  UploadsEnd
  RotationsEnd
  OutcomeIsTold
CHECK_DEADLOCK FALSE
