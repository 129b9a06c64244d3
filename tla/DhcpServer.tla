---------------------------- MODULE DhcpServer ----------------------------
(***************************************************************************)
(* The lease table of src/wifi/access_point/dhcpserver/dhcpserver.c.  Time *)
(* is read from a 32-bit millisecond counter and a lease keeps the upper   *)
(* 16 bits of its end, so the unit of time here is one step of those bits, *)
(* and they wrap.                                                          *)
(*                                                                         *)
(* The clients are as free as the protocol lets them be: any of them may   *)
(* discover or request any address at any time, again and again, and any   *)
(* answer may be lost.                                                     *)
(***************************************************************************)
EXTENDS Integers, FiniteSets

CONSTANTS
  Clients,       \* hardware addresses
  NoMac,         \* the all-zero one
  Wrap,          \* the upper half of the counter wraps here (2^16 in the code)
  LeaseTime,     \* DEFAULT_LEASE_TIME_S in units, rounded down (1318)
  DHCPS_MAX_IP   \* addresses (8 in the code)

ASSUME LeaseAssumption ==
  /\ NoMac \notin Clients
  /\ DHCPS_MAX_IP \in Nat \ {0}
  /\ Wrap \in Nat /\ LeaseTime \in Nat \ {0} /\ 2 * (LeaseTime + 1) < Wrap

Addresses == 0..(DHCPS_MAX_IP - 1)

VARIABLES
  lease,         \* the server's table: mac and expiry of each address
  ticks,         \* the upper bits of the counter
  carry,         \* 1 once the lower bits are so far that adding the lease time carries
  held,          \* client: the address it was given, DHCPS_MAX_IP for none
  left,          \* client: units until it gives the address up
  granted        \* history: units each lease in the table still has, -1 when over

dhcpVars == <<lease, ticks, carry, held, left, granted>>

TypeOK ==
  /\ lease \in [Addresses -> [mac : Clients \cup {NoMac}, expiry : 0..(Wrap - 1)]]
  /\ ticks \in 0..(Wrap - 1) /\ carry \in {0, 1}
  /\ held \in [Clients -> 0..DHCPS_MAX_IP]
  /\ left \in [Clients -> 0..(LeaseTime + 1)]
  /\ granted \in [Addresses -> -1..(LeaseTime + 1)]

DhcpInit ==
  /\ lease = [a \in Addresses |-> [mac |-> NoMac, expiry |-> 0]]
  /\ ticks \in 0..(Wrap - 1) /\ carry \in {0, 1}
  /\ held = [c \in Clients |-> DHCPS_MAX_IP]
  /\ left = [c \in Clients |-> 0]
  /\ granted = [a \in Addresses |-> -1]

-----------------------------------------------------------------------------
(* mutant: the end is compared without its lower bits set *)
Expired_Early(a) ==
  LET ahead == (lease[a].expiry - ticks) % Wrap IN ahead = 0 \/ 2 * ahead >= Wrap

(* mutant: the end and the present are compared without wrapping *)
Expired_Unsigned(a) == lease[a].expiry < ticks

(* (int32_t)((expiry << 16 | 0xffff) - ticks_ms) < 0: the end lies in the  *)
(* half of the counter's circle behind the present.                        *)
Expired(a) == 2 * ((lease[a].expiry - ticks) % Wrap) >= Wrap

Smallest(S) == CHOOSE a \in S : \A b \in S : a =< b

(* The scan of DHCPDISCOVER stops at the client's own entry; before it, the*)
(* first entry that is free or over is taken, and cleared if it is over.   *)
Own(c) == {a \in Addresses : lease[a].mac = c}

Scanned(c) == {a \in Addresses : \A b \in Own(c) : a < b}

Usable(c) == {a \in Scanned(c) : lease[a].mac = NoMac \/ Expired(a)}

(* mutant: the client's own entry is not looked for *)
Offer_NotOwn(c) == IF Usable(c) # {} THEN Smallest(Usable(c)) ELSE DHCPS_MAX_IP

Offer(c) ==
  IF Own(c) # {} THEN Smallest(Own(c))
  ELSE IF Usable(c) # {} THEN Smallest(Usable(c))
  ELSE DHCPS_MAX_IP

Cleared(c) == IF Usable(c) = {} THEN {} ELSE {a \in {Smallest(Usable(c))} : Expired(a)}

Discover(c) ==
  /\ lease' = [a \in Addresses |-> IF a \in Cleared(c) THEN [lease[a] EXCEPT !.mac = NoMac] ELSE lease[a]]
  /\ granted' = [a \in Addresses |-> IF a \in Cleared(c) THEN -1 ELSE granted[a]]
  /\ UNCHANGED <<ticks, carry, held, left>>

(* Without the requested address, with one outside the pool, or with one   *)
(* that another client has, over or not, a request is ignored.             *)
Grantable(c, a) == a \in Addresses /\ lease[a].mac \in {c, NoMac}

Expiry == (ticks + LeaseTime + carry) % Wrap

(* DHCPREQUEST.  The answer reaches the client, which then uses the        *)
(* address until the end of the unit its lease ends in, or is lost.        *)
Request(c, a) ==
  /\ Grantable(c, a)
  /\ lease' = [lease EXCEPT ![a] = [mac |-> c, expiry |-> Expiry]]
  /\ granted' = [granted EXCEPT ![a] = LeaseTime + carry]
  /\ \/ /\ held' = [held EXCEPT ![c] = a]
        /\ left' = [left EXCEPT ![c] = LeaseTime + carry]
     \/ UNCHANGED <<held, left>>
  /\ UNCHANGED <<ticks, carry>>

(* A unit of time, about a minute, has two parts.                          *)
Advance ==
  /\ carry = 0 /\ carry' = 1
  /\ UNCHANGED <<lease, ticks, held, left, granted>>

Tick ==
  /\ carry = 1 /\ carry' = 0
  /\ ticks' = (ticks + 1) % Wrap
  /\ held' = [c \in Clients |-> IF left[c] = 0 THEN DHCPS_MAX_IP ELSE held[c]]
  /\ left' = [c \in Clients |-> IF left[c] = 0 THEN 0 ELSE left[c] - 1]
  /\ granted' = [a \in Addresses |-> IF granted[a] = -1 THEN -1 ELSE granted[a] - 1]
  /\ UNCHANGED lease

dhcp_server_process ==
  \E c \in Clients : \/ Discover(c)
                     \/ \E a \in Addresses : Request(c, a)

DhcpNext == dhcp_server_process \/ Advance \/ Tick

DhcpSpec == DhcpInit /\ [][DhcpNext]_dhcpVars

-----------------------------------------------------------------------------
Holds(c, a) == held[c] = a /\ a \in Addresses

(* Two clients never use one address at the same time, across expiry and   *)
(* reuse, lost answers and the wrap of the counter (dhcpserver.c 215-271). *)
NoSharedAddress ==
  \A c, d \in Clients, a \in Addresses : Holds(c, a) /\ Holds(d, a) => c = d

(* The address offered is in use by no other client, and a client that has *)
(* an address is offered one it owns, not a second one (dhcpserver.c       *)
(* 216-242).                                                               *)
OfferFits ==
  \A c \in Clients :
    /\ \A d \in Clients \ {c} : ~Holds(d, Offer(c))
    /\ held[c] \in Addresses => Offer(c) \in Own(c)

(* "IP expired, reuse it" (dhcpserver.c 231): the address of a lease can   *)
(* be offered again from the unit after its end, wherever the counter is.  *)
(* (Not for ever: half the counter's circle, 25 days, after its end the    *)
(* lease counts as running again.)                                         *)
ExpiredReused ==
  [][\A a \in Addresses : granted[a] = 0 /\ granted'[a] = -1 => Expired(a)']_dhcpVars
=============================================================================
