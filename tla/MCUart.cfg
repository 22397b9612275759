SPECIFICATION Spec
CONSTANTS
  m1 = m1
  m2 = m2
  m3 = m3
  Nul = Nul
  Junk = Junk
  Texts = {m1, m2, m3}
  Byte = {m1, m2, m3, "$", ";", Nul, Junk}
  Size = 4
  FifoDepth = 2
  Watermark = 1
  ChunkSize = 3
  EventQueueSize = 2
  EspBufferSize = 4
  LongestCommand = 3
INVARIANTS LinkTypeOK Conserved NoLostWakeup CutsDoNotMatter NothingInvented
PROPERTIES RingsAreFifos AllSent AllParsed
