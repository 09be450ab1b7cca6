SPECIFICATION FairSpec
INVARIANTS
  TypeOK
  ListensAsConfigured
  CautiousContact
  PreferredPortDecides
PROPERTIES
  StartupEnds
CHECK_DEADLOCK FALSE
