--------------------------- MODULE ClientAddress ---------------------------
(***************************************************************************)
(* internal/ratelimit: IPResolver.ClientIP, the address a request is       *)
(* limited and logged under.  A trusted proxy appends the address it was   *)
(* called from to X-Forwarded-For; what the header held before was written *)
(* by the client.                                                          *)
(***************************************************************************)
EXTENDS Naturals, Sequences

CONSTANTS Addresses,  \* IP addresses
          Trusted,    \* those in the trusted prefixes
          Garbage     \* a header entry that does not parse

ASSUME AddressAssumption == Trusted \subseteq Addresses /\ Garbage \notin Addresses

Entries == Addresses \union {Garbage}

\* Bug: the entries are read from the left, the end the client writes.
Leftmost(hops) == LET stops == {i \in DOMAIN hops : hops[i] \notin Trusted}
                  IN  IF stops = {} THEN 1
                      ELSE CHOOSE i \in stops : \A k \in stops : i <= k

\* Walking from the right, the first entry that is not a trusted proxy; the
\* leftmost one when all are.
Outermost(hops) == LET stops == {i \in DOMAIN hops : hops[i] \notin Trusted}
                   IN  IF stops = {} THEN 1
                       ELSE CHOOSE i \in stops : \A k \in stops : k <= i

\* The header counts only when the peer is a proxy of ours, and not at all
\* when an entry that would have to be trusted is garbage.
ClientIP(peer, hops) ==
  IF peer \notin Trusted \/ hops = <<>> \/ hops[Outermost(hops)] = Garbage
  THEN peer
  ELSE hops[Outermost(hops)]

-----------------------------------------------------------------------------
(* The way of a request to the service. *)

\* A client at `origin` that wrote `claim` into the header, and the trusted
\* proxies on the way, the one nearest to the client first.
Journeys(Claims, Ways) == [origin : Addresses, claim : Claims, way : Ways]

Peer(j) == IF j.way = <<>> THEN j.origin ELSE j.way[Len(j.way)]

Hops(j) == IF j.way = <<>> THEN j.claim
           ELSE j.claim \o <<j.origin>> \o SubSeq(j.way, 1, Len(j.way) - 1)

\* What the resolver is for: a client outside the trusted networks is known by
\* its own address, whatever it writes and however many proxies it passes.
Resolves(j) == j.origin \notin Trusted => ClientIP(Peer(j), Hops(j)) = j.origin
=============================================================================
