SPECIFICATION FairSpec
CONSTANTS
  Threads = {t1, t2}
  f1 = f1
  f2 = f2
  Tasks = {f1, f2}
  MaxWaits <- OneWait
  Client = client
  None = None
  Pipe = Pipe
INVARIANTS Consistent SoloDrains
PROPERTIES QueueServed WaitEnds StopReturns
