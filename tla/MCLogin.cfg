SPECIFICATION FairSpec
CONSTANTS
  Tabs = {t1, t2}
  Sites = {s1, s2}
  Relative = Relative
  NoTab = NoTab
  Configurations <- LoginConfigurations
INVARIANTS
  TypeOK ReturnsToRequestedPage UndisturbedLoginsSucceed
PROPERTY EveryNavigationEnds
