\* One context on a device, created and destroyed any number of times.
SPECIFICATION Spec
CONSTANTS
  Contexts = {c1}
  Probes <- MCProbes
  Selections <- MCSelections
  low = low
  high = high
  Extents = {low, high}
  Resolutions <- MCResolutions
  Inputs <- MCInputs
  Targets = {swapchain1, swapchain2}
INVARIANTS
  SdkUsedWell
  UsesLive
  GeneratesCommitted
  RecordsAsPromised
