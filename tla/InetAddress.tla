------------------------------ MODULE InetAddress ------------------------------
(***************************************************************************)
(* zing::net::InetAddress over sockets::fromIpPort, toIpPort and the byte  *)
(* order of ports; sockets::isSelfConnect.                                 *)
(*                                                                         *)
(* The text of an IP address is a record: the family whose notation it is  *)
(* in (or "none"), the address it denotes and whether it has a colon.      *)
(* inet_pton and inet_ntop take one to the other.  A port has two bytes.   *)
(***************************************************************************)
EXTENDS Integers, Sequences

CONSTANTS
    Ips,      \* addresses of each family; Any and Loopback are among them
    Radix     \* 256

Any == "any"          \* INADDR_ANY and in6addr_any, what memZero leaves
Loopback == "loopback"

AddressAssumption == {Any, Loopback} \subseteq Ips /\ Radix \in Nat \ {0}

Ports == 0..(Radix * Radix - 1)

VARIABLE asked    \* the arguments of two calls of the constructor

\* 1.2.3.4, 1::4, and texts that are no address, like "localhost" and "a:b"
IpTexts ==
    {[notation |-> "AF_INET", ip |-> i, colon |-> FALSE] : i \in Ips} \cup
    {[notation |-> "AF_INET6", ip |-> i, colon |-> TRUE] : i \in Ips} \cup
    {[notation |-> "none", ip |-> Any, colon |-> c] : c \in BOOLEAN}

Arguments == [text : IpTexts, port : Ports, ipv6 : BOOLEAN]

Init == asked \in Arguments \X Arguments
Next == UNCHANGED asked
Spec == Init /\ [][Next]_asked

-----------------------------------------------------------------------------
\* uint16_t on a little endian host and on the network
InMemory(port) == <<port % Radix, port \div Radix>>
FromMemory(bytes) == bytes[1] + Radix * bytes[2]
hostToNetwork16(bytes) == <<bytes[2], bytes[1]>>
networkToHost16(bytes) == <<bytes[2], bytes[1]>>

\* mutant of fromIpPort: the port of the host
fromIpPortHost(family, text, port) ==
    [family |-> family, port |-> InMemory(port),
     ip |-> IF text.notation = family THEN text.ip ELSE Any]

\* both fromIpPort: a text that inet_pton refuses is logged and leaves the zeros
fromIpPort(family, text, port) ==
    [family |-> family, port |-> hostToNetwork16(InMemory(port)),
     ip |-> IF text.notation = family THEN text.ip ELSE Any]

\* InetAddress(ip, port, ipv6)
InetAddress(a) ==
    fromIpPort(IF a.ipv6 \/ a.text.colon THEN "AF_INET6" ELSE "AF_INET", a.text, a.port)

\* InetAddress(port, loopbackOnly, ipv6)
InetAddressOfPort(port, loopbackOnly, ipv6) ==
    [family |-> IF ipv6 THEN "AF_INET6" ELSE "AF_INET",
     port |-> hostToNetwork16(InMemory(port)),
     ip |-> IF loopbackOnly THEN Loopback ELSE Any]

Port(addr) == FromMemory(networkToHost16(addr.port))

\* resolve writes sin_addr; in an IPv6 address that is sin6_flowinfo, which nothing reads
resolve(addr, found, ip) ==
    IF found /\ addr.family = "AF_INET" THEN [addr EXCEPT !.ip = ip] ELSE addr

\* toIp: inet_ntop
toIp(addr) == <<addr.family, addr.ip>>

toIpPort(addr) ==
    IF addr.family = "AF_INET6" THEN <<"[", toIp(addr), "]:", Port(addr)>>
    ELSE <<toIp(addr), ":", Port(addr)>>

isSelfConnect(localaddr, peeraddr) ==
    localaddr.port = peeraddr.port /\ localaddr.ip = peeraddr.ip

-----------------------------------------------------------------------------
\* What was given comes back from port(), toIp() and toIpPort(), and from the network
\* the same port is read; a text of the wrong family is the address of zeros, of the
\* family that was asked for or that a colon stands for (InetAddress.cpp:53-90).
AddressKept ==
    LET a == asked[1]
        addr == InetAddress(a)
        shown == IF a.text.notation = addr.family THEN a.text.ip ELSE Any
    IN  /\ addr.family = "AF_INET" <=> ~a.ipv6 /\ ~a.text.colon
        /\ Port(addr) = a.port
        /\ addr.port[1] * Radix + addr.port[2] = a.port
        /\ toIp(addr) = <<addr.family, shown>>
        /\ \A found \in BOOLEAN, ip \in Ips : Port(resolve(addr, found, ip)) = a.port
        /\ \A loopbackOnly \in BOOLEAN :
            toIpPort(InetAddressOfPort(a.port, loopbackOnly, a.ipv6)) =
                toIpPort(InetAddress([a EXCEPT
                    !.text = [notation |-> IF a.ipv6 THEN "AF_INET6" ELSE "AF_INET",
                              ip |-> IF loopbackOnly THEN Loopback ELSE Any,
                              colon |-> a.ipv6]]))

\* Two endpoints have the same text, the one that TcpServer names connections by and
\* logs, exactly if a socket with these ends is connected to itself (SocketsOps.cpp:
\* 194-214, 294-314); a socket has two ends of one family.
TextIdentifies ==
    LET local == InetAddress(asked[1])  peer == InetAddress(asked[2])
    IN  local.family = peer.family =>
            (toIpPort(local) = toIpPort(peer) <=> isSelfConnect(local, peer))

=============================================================================
