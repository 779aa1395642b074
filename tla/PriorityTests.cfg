\* Loops and sleeps are up to 75 ms longer than asked for; 25 s after boot.
CONSTANTS
  Jitter = 3
  Wrap = 65536
  Release = 1000
SPECIFICATION Spec
INVARIANTS TestsPass NoInversion
PROPERTY NoneKilledInSection
