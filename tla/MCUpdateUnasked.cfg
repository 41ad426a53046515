SPECIFICATION Spec
CONSTANTS
  Release <- MCRelease
  Thread = {t1, t2}
  Entry = {dll, exe}
INVARIANT NeverInstallsUnasked
