SPECIFICATION PartSpec
CONSTANTS
  t1 = t1  t2 = t2  t3 = t3  t4 = t4
  Threads = {t1, t2, t3}  First = t1  MaxMsgs = 5
  Callers = {t1, t2, t3, t4}  NoThread = NoThread
INVARIANTS NothingLost InOrder Stable MutualExclusion
PROPERTIES EventuallyHandled WriterGetsIn ReaderGetsIn
