CONSTANTS
  Requests = {r1, r2, r3, r4}
  Slots = 2
  QueueLimit = 2
  r1 = r1 r2 = r2 r3 = r3 r4 = r4 r5 = r5
SPECIFICATION FairAdmissionSpec
INVARIANTS OnlySlotsRun PermitsKept NoLostWakeup
PROPERTIES WaitEnds
