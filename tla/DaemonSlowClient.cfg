\* daemon_worker_pool_test.go:247, with a client of the HTTP server.
CONSTANTS
  Instances = {i1}
  NoFile = NoFile
  Embedders = {i1}
SPECIFICATION MCSpec
CHECK_DEADLOCK FALSE
PROPERTY StopReturns
