\* Template paths over every directory of pages, text files, two edits.
SPECIFICATION Spec
CONSTANTS
  Templates <- ProjectTemplates
  Layout <- ProjectLayout
  Public <- Styles
  Bodies <- Text
  Mains <- CoveredMains
  MaxEdits = 2
  NoPath = NoPath
  Failed = Failed
  NoBundle = NoBundle
INVARIANTS
  TypeOK
  PageIsItself
  BundleServesTheApp
