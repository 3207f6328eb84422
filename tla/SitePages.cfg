SPECIFICATION Spec
CONSTANTS
  p1 = p1
  p2 = p2
  v1 = v1
  v2 = v2
  Pkgs = {p1, p2}
  Vers = {v1, v2}
  NoVer = NoVer
  NoPage = NoPage
  NoData = NoData
  Clients = {"gazer", "chase", "driver"}
  Itself = "secretary"
  Worlds <- SafetyWorlds
INVARIANTS TypeOK PagesSettle GoneStaysGone RemovedWheelsGo OffersAreThere
