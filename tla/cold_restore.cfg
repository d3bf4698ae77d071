\* Two shells of one pane and two history writers; processes crash at any time.
SPECIFICATION Spec
CONSTANTS
  MaxShells = 2
  Writers = {w1, w2}
  None = None
  OneOrder = TRUE
  PromptDisk = TRUE
  QuietSetUp = TRUE
SYMMETRY Symmetry
INVARIANT TypeOK

  
  
