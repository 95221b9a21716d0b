SPECIFICATION FairSpec
CONSTANTS
  Tabs = {x1, x2}
  Tokens = {t1}
  Players = {p1}
  Asked <- Typed
  AdminUser = AdminUser
  PortalAdmin = PortalAdmin
  NoToken = NoToken
  NoJwt = NoJwt
INVARIANTS TypeOK CookiesMatch RefusedMeansGone OneRedirect
PROPERTIES TokenImplemented LoginLands NavigationEnds
CHECK_DEADLOCK FALSE
