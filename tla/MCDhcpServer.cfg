CONSTANTS
  Clients = {m1, m2, m3}
  NoMac = NoMac
  Wrap = 8
  LeaseTime = 2
  DHCPS_MAX_IP = 2
SPECIFICATION DhcpSpec
SYMMETRY MCSymmetry
INVARIANT NoSharedAddress
INVARIANT OfferFits
PROPERTY ExpiredReused
