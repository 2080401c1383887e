CONSTANTS
  c1 = c1
  c2 = c2
  owner = owner
  ann = ann
  Users <- MCUsers
  Creator = owner
  Nobody = nil
  Streams <- MCStreams
  SendBuffer = 1
  MaxVersion = 2
  MaxFaults = 1
SYMMETRY MCSymmetry
SPECIFICATION Spec
INVARIANTS
  NoChangeSlipsPast
  RemovedViewerLeaves
  StreamsOK
