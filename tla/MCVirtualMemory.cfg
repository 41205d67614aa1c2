SPECIFICATION Spec
CONSTANTS
  NumFrames = 10
  Frames <- MCFrames
  Pick <- MCPick
  UpperHalf <- MCUpperHalf
  KernelPages <- MCKernelPages
  Hhdm <- MCHhdm
  HhdmFrames <- MCHhdmFrames
  FramebufferFrames <- MCFramebufferFrames
  AcpiFrames <- MCAcpiFrames
  ApicFrames <- MCApicFrames
  CallerVirt <- MCCallerVirt
  CallerPhys <- MCCallerPhys
  CallerFlags <- MCCallerFlags
INVARIANTS
  TablesFormTree
  TablesAccounted
  KernelReachable
  TlbCoherent
PROPERTIES
  UpperHalfStable
  ImplementsAddressSpace
  MapPageHonoured
