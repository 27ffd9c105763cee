SPECIFICATION Spec
INVARIANT TypeOK
INVARIANT OkMeansDone
INVARIANT RefusalMeansUntouched
INVARIANT UnknownSessionIsUnauthenticated
INVARIANT Classified
INVARIANT CacheMetricsTrue
