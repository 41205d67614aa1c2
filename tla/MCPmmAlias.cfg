SPECIFICATION Spec
CONSTANTS
  PAGE_SIZE = 4
  MAX_PAGES = 11
  OneMB = 2
  KernelFrame = 7
  KernelFrames = 1
  BitmapFirst = 7
  BitmapLast = 8
  Callers = {"a", "b"}
  MemMap <- MCPCMap
INVARIANT
  NoFrameTwice
