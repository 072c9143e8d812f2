SPECIFICATION Spec
PROPERTIES EndsRelease LossIsNoticed RetriesComeUp ChangesSettle
CHECK_DEADLOCK FALSE
