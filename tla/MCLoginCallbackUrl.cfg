SPECIFICATION Spec
CONSTANTS
  Tabs = {t1, t2}
  Sites = {s1, s2}
  Relative = Relative
  NoTab = NoTab
  Configurations <- CallbackUrlConfigurations
INVARIANT RedirectUriIsCallbackUrl
