---------------------------- MODULE RateLimiter ----------------------------
(***************************************************************************)
(* middleware.RateLimiter: a token bucket per client address, kept in an   *)
(* LRU cache of bounded size, and one bucket for everybody.  A limiter is  *)
(* a value here, as main builds two of them and nests one in the other.    *)
(*                                                                         *)
(* Buckets count in Token-ths of a request, so that rates that are not a   *)
(* whole number of requests a second can be given; a tick is one second.   *)
(* rate.Limiter and the LRU cache are libraries.  A bucket is an object    *)
(* of its own: a request goroutine keeps the one it was given even when    *)
(* the cache has dropped it, so buckets are named by Ids.                  *)
(***************************************************************************)
EXTENDS Integers, SequencesExt, FiniteSetsExt

CONSTANTS Token,       \* what one request costs
          CacheSize,   \* ipLimiterCacheSize
          Ids          \* names for the buckets of one limiter

ASSUME RateLimiterConstants ==
  /\ Token \in Nat \ {0}
  /\ CacheSize \in Nat \ {0}

\* rate.NewLimiter(rate, burst) with burst = int(rate), at least 1.
IPBurst(rate) == Token * Max({1, rate \div Token})

\* int(2 * rate), at least 1.
GlobalBurst(rate) == Token * Max({1, (2 * rate) \div Token})

NewRateLimiter(perIPRPS, globalRPS) ==
  [perIPRate  |-> perIPRPS,
   globalRate |-> globalRPS,
   perIP      |-> <<>>,          \* entries <<ip, id>>, most recently used first
   bucket     |-> [i \in Ids |-> IPBurst(perIPRPS)],
   global     |-> GlobalBurst(globalRPS)]

Cached(l, ip) == \E p \in DOMAIN l.perIP : l.perIP[p][1] = ip

\* Where in the cache ip is.
Place(l, ip) == CHOOSE p \in DOMAIN l.perIP : l.perIP[p][1] = ip

\* Buckets that are in use: in the cache, or held by a goroutine.
InUse(l, held) == held \cup {l.perIP[p][2] : p \in DOMAIN l.perIP}

\* The bucket ip is given.
Given(l, ip, held) ==
  IF Cached(l, ip) THEN l.perIP[Place(l, ip)][2]
  ELSE CHOOSE i \in Ids : i \notin InUse(l, held)

\* The address whose bucket the cache drops to make room for ip.
Evicts(l, ip) ==
  IF Cached(l, ip) \/ Len(l.perIP) < CacheSize THEN {} ELSE {Last(l.perIP)[1]}

\* The cache once ip, with its bucket, is the most recently used.
ToFront(l, ip, held) ==
  <<<<ip, Given(l, ip, held)>>>>
    \o (IF Cached(l, ip) THEN RemoveAt(l.perIP, Place(l, ip)) ELSE l.perIP)

\* Mutant: a map instead of the LRU cache.
GetOrCreate_Unbounded(l, ip, held) == [l EXCEPT !.perIP = ToFront(l, ip, held)]

\* getOrCreateIPLimiter, under perIPMu: a hit makes ip the most recently used,
\* a miss adds a full bucket for it.  (A bucket nobody refers to is as good as new.)
GetOrCreate(l, ip, held) ==
  LET front == ToFront(l, ip, held) IN
  [l EXCEPT
     !.perIP  = SubSeq(front, 1, Min({Len(front), CacheSize})),
     !.bucket = [j \in Ids |-> IF j \in InUse(l, held) THEN @[j] ELSE IPBurst(l.perIPRate)]]

\* Allow() of one client's bucket, and of the bucket all share.
IPAllows(l, i) == l.bucket[i] >= Token
TakeIP(l, i)   == [l EXCEPT !.bucket[i] = @ - Token]

GlobalAllows(l) == l.global >= Token

\* Mutant: the shared bucket is read, not taken from.
TakeGlobal_Peek(l) == l

TakeGlobal(l) == [l EXCEPT !.global = @ - Token]

\* A second passes.  (The library refills when a bucket is next used.)
Refill(l) ==
  [l EXCEPT !.bucket = [i \in Ids |-> Min({IPBurst(l.perIPRate), @[i] + l.perIPRate})],
            !.global = Min({GlobalBurst(l.globalRate), @ + l.globalRate})]

---------------------------------------------------------------------------
(* clientIP.  hops is the X-Forwarded-For header, split and trimmed; an entry *)
(* that net.ParseIP does not accept is not in Addresses.                      *)

\* Mutant: the leftmost entry, which the client writes.
clientIP_Leftmost(trustProxy, hops, remote, Addresses) ==
  IF trustProxy /\ hops # <<>> /\ Head(hops) \in Addresses THEN Head(hops) ELSE remote

clientIP(trustProxy, hops, remote, Addresses) ==
  IF trustProxy /\ hops # <<>> /\ Last(hops) \in Addresses THEN Last(hops) ELSE remote
============================================================================
