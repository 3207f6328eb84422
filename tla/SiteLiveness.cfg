SPECIFICATION FairSpec
CONSTANTS
  p1 = p1
  p2 = p1
  v1 = v1
  v2 = v1
  Pkgs = {p1}
  Vers = {v1}
  NoVer = NoVer
  NoPage = NoPage
  NoData = NoData
  Clients = {"gazer", "chase", "driver"}
  Itself = "secretary"
  Worlds <- LivenessWorlds
PROPERTIES WheelsAreOffered RemovalsEnd
