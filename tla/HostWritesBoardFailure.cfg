CONSTANTS
  Thread <- TwoPipes
  MaxJobs = 1
  MaxCalls <- OneCall
SPECIFICATION Spec
PROPERTIES BoardFailureStopsWrites

