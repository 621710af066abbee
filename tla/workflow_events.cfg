SPECIFICATION FairSpec
CONSTANTS
  Tables <- Catalogue
  Screens = {s1}
  Nothing = Nothing
  MaxVersion = 6
  MaxAside = 3
  MaxClicks = 2
INVARIANTS
  LogReplays
  ActedOnWhatWasShown
  OffersFit
PROPERTY ClicksAreAnswered
CHECK_DEADLOCK FALSE
