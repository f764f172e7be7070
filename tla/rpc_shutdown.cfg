SPECIFICATION FairSpec
CONSTANTS
  Commands = {c1, c2, c3}
  Dialogs = {d1}
  Hosts = {"process", "library"}
INVARIANT TypeOK AnsweredOnce NotifiedOnce
PROPERTY GracefulClose ShutdownAnswered ShutdownCompletes DialogsEnd
CHECK_DEADLOCK FALSE
