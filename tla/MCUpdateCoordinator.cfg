SPECIFICATION FairSpec
CONSTANTS
  Release <- MCRelease
  Thread = {t1, t2}
  Entry = {dll, exe}
INVARIANTS TypeOK SingleApply BusyMeansApplying LaunchesWholePackage
PROPERTIES ApplyEnds ImplementsHandover
