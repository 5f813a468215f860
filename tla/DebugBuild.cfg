CONSTANTS
  Loader = loader
  Thread = {t1, t2}
  Nobody = nobody
SPECIFICATION LoggingSpec
PROPERTY ModuleAttaches
CHECK_DEADLOCK FALSE
