CONSTANTS
  Filters <- PanelFilters
  Shrinking <- PanelShrinking
  PageSize = 2
  MaxRecords <- PanelRecords
  MaxLoads = 3
  Culture = "tr"
  NoCode = NoCode
  CodeTexts <- PanelCodes
  NationalTexts <- PanelNationals
  MaxDrivers = 2
  MaxSaves = 2
  OtherPhones <- PanelOthers
  Tabs = {"left", "right"}
  MaxInt = 2147483647
  Weeks <- PanelWeeks
  Pointers <- PanelPointers
  Away = Away
  WebRequests = {1, 2}
  MaxPairs = 3
SPECIFICATION PanelSpec
INVARIANTS
  PanelTypeOK
  PageInRange
  IndicatorIsPage
  UndisturbedLoadIsRight
  SaveNeverStuck
  OneSaveAtATime
  ListShowsStored
  PhonesStayUnique
  UntouchedPhoneKept
  ChoiceIsKept
  ButtonOffersOther
  BarsTellCounts
  TipNamesDay
  SessionAlive
PROPERTIES
  LoadingEnds
  RefusalKeepsNumber
