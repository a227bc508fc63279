\* Ticket lock: three threads over four tickets: the counters wrap while threads
\* wait.  Futex lock: a holder, a barging thread and two that sleep at once.
\* Reader/writer lock: each thread a reader or a writer at every call; the
\* readers' count uses every value below the writer's bit.
CONSTANTS
  Thread = {t1, t2, t3}
  TicketModulus = 4
  WriterBit = 4
  FutexThread = {t1, t2, t3, t4}
SPECIFICATION LocksSpec
INVARIANT NoForgottenSleeper
PROPERTIES ImplementsFifoLock ImplementsMutex ImplementsSharedMutex
           NoReaderOvertakesWriter LocksProgress
