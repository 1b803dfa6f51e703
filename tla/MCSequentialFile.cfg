SPECIFICATION FairSpec
CONSTANTS
  Contents <- MCContents
  Second <- MCSecond
  Records <- MCRecords
  Advances <- MCAdvances
  RecordMax = 3
  RecordMin = 1
  MaxCells = 7
PROPERTIES ReadIsNextRecord RewriteReplaces WhatIsWrittenIsRead ReadsEnd
VIEW MCView
CHECK_DEADLOCK FALSE
