SPECIFICATION Spec
CONSTANTS
  Threads = {t1, t2, t3, t4}
  MaxStreams = 2
  UsizeMax = 7
INVARIANT CounterMatchesGuards
PROPERTY ImplementsSlots
