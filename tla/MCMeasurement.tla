----------------------------- MODULE MCMeasurement -----------------------------
EXTENDS MeasurementRefinement

CONSTANTS cpu0, cpu1

AllExperiments ==
  <<TestCacheExistence, TestSplitLayerInstructions, TestSplitLayerData, TestSharedLayer>>

TwoCPUs == {cpu0, cpu1}

ExistenceAndSplitLayer == <<TestCacheExistence, TestSplitLayerData>>

================================================================================
