SPECIFICATION FairSpec
CONSTANTS
  K = 2
  Values = {0, 1}
  Lines = 8
  Heading = 1
  FirstDetail = 3
  LastDetail = 5
  Reports <- MCReports
  MaxGenerates = 4
PROPERTIES TotalsRight FootingsAtBreaks ValuesKept PagesInOrder StatementsReturn
CHECK_DEADLOCK FALSE
VIEW MCView
