\* An image among the public files.
SPECIFICATION Spec
CONSTANTS
  Templates <- ProjectTemplates
  Layout <- ProjectLayout
  Public <- Images
  Bodies <- Binary
  Mains <- CoveredMains
  MaxEdits = 2
  NoPath = NoPath
  Failed = Failed
  NoBundle = NoBundle
INVARIANTS
  BundleServesTheApp
