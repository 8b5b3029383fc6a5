\* parseMarkers terminates: a finished parse has no successor.
CONSTANTS
  Letters <- MCLetters
  MarkerKeys <- MCMarkerKeys
  Samples <- MCSamples
  Texts <- MCTexts
SPECIFICATION Spec
CHECK_DEADLOCK FALSE
INVARIANT TypeOK
INVARIANT RoundTrip
