--------------------------- MODULE ServiceProofs ---------------------------
(***************************************************************************)
(* Proofs about the front of the server, for any number of clients,        *)
(* requests and cache entries and any rates.                               *)
(*                                                                         *)
(* The argument is an account kept per limiter: what went past and what is *)
(* left in a bucket never exceed its burst.  For a client's bucket this    *)
(* needs that the cache holds one bucket per address (Distinct), that a    *)
(* request holds the bucket its client has in the cache (Counted), and     *)
(* that a bucket given anew is nobody else's, which is a count: requests   *)
(* and cache entries are fewer than the buckets there are (FreeBucket).    *)
(***************************************************************************)
EXTENDS Service, FiniteSetTheorems, TLAPS

---------------------------------------------------------------------------
(* Numbers *)

LEMMA MinOfTwo ==
  ASSUME NEW a \in Int, NEW b \in Int
  PROVE  Min({a, b}) = IF a <= b THEN a ELSE b
<1>1. PICK m \in {a, b} : \A y \in {a, b} : m <= y
  BY \A x \in {a, b} : x \in Int
<1>2. Min({a, b}) \in {a, b} /\ \A y \in {a, b} : Min({a, b}) <= y
  BY <1>1 DEF Min
<1> QED
  BY <1>2

LEMMA MaxOfTwo ==
  ASSUME NEW a \in Int, NEW b \in Int
  PROVE  Max({a, b}) = IF a >= b THEN a ELSE b
<1>1. PICK m \in {a, b} : \A y \in {a, b} : m >= y
  OBVIOUS
<1>2. Max({a, b}) \in {a, b} /\ \A y \in {a, b} : Max({a, b}) >= y
  BY <1>1 DEF Max
<1> QED
  BY <1>2

LEMMA Bursts ==
  ASSUME NEW rate \in Nat
  PROVE  IPBurst(rate) \in Nat /\ GlobalBurst(rate) \in Nat
<1>1. Token \in Nat \ {0} /\ rate \div Token \in Nat /\ (2 * rate) \div Token \in Nat
  BY RateLimiterConstants
<1>2. Max({1, rate \div Token}) \in Nat /\ Max({1, (2 * rate) \div Token}) \in Nat
  BY <1>1, MaxOfTwo
<1>3. ASSUME NEW a \in Nat, NEW b \in Nat PROVE a * b \in Nat
  BY <1>3
<1> QED
  BY <1>1, <1>2, <1>3 DEF IPBurst, GlobalBurst

---------------------------------------------------------------------------
(* The cache of client buckets *)

Addresses == Clients \cup {Proxy}

Limiter == [perIPRate : Nat, globalRate : Nat, perIP : Seq(Addresses \X Ids),
            bucket : [Ids -> Nat], global : Nat]

\* No address is in the cache twice.
Distinct(s) == \A p, q \in DOMAIN s : s[p][1] = s[q][1] => p = q

LEMMA Removed ==
  ASSUME NEW S, NEW s \in Seq(S), NEW p \in 1 .. Len(s)
  PROVE  /\ RemoveAt(s, p) \in Seq(S) /\ Len(RemoveAt(s, p)) = Len(s) - 1
         /\ \A q \in 1 .. p - 1 : RemoveAt(s, p)[q] = s[q]
         /\ \A q \in p .. Len(s) - 1 : RemoveAt(s, p)[q] = s[q + 1]
<1> DEFINE a == SubSeq(s, 1, p - 1)
           b == SubSeq(s, p + 1, Len(s))
<1>1. Len(s) \in Nat /\ p \in Nat
  OBVIOUS
<1>2. a \in Seq(S) /\ Len(a) = p - 1 /\ \A q \in 1 .. p - 1 : a[q] = s[q]
  BY <1>1
<1>3. b \in Seq(S) /\ Len(b) = Len(s) - p /\ \A q \in 1 .. Len(s) - p : b[q] = s[p + q]
  BY <1>1
<1>4. RemoveAt(s, p) = a \o b
  BY DEF RemoveAt
<1> HIDE DEF a, b
<1>5. a \o b \in Seq(S) /\ Len(a \o b) = Len(s) - 1
  <2>1. a \in Seq(S) /\ b \in Seq(S)
    BY <1>2, <1>3
  <2>2. a \o b \in Seq(S) /\ Len(a \o b) = Len(a) + Len(b)
    BY <2>1
  <2>3. Len(a) + Len(b) = Len(s) - 1
    BY <1>1, <1>2, <1>3
  <2> QED
    BY <2>2, <2>3
<1>6. ASSUME NEW q \in 1 .. p - 1 PROVE (a \o b)[q] = s[q]
  BY <1>1, <1>2, <1>3
<1>7. ASSUME NEW q \in p .. Len(s) - 1 PROVE (a \o b)[q] = s[q + 1]
  <2>1. q - (p - 1) \in 1 .. Len(s) - p /\ p + (q - (p - 1)) = q + 1
    BY <1>1
  <2>2. (a \o b)[q] = b[q - (p - 1)]
    BY <1>1, <1>2, <1>3
  <2> QED
    BY <1>3, <2>1, <2>2
<1> QED
  BY <1>4, <1>5, <1>6, <1>7

LEMMA InFront ==
  ASSUME NEW S, NEW s \in Seq(S), NEW x \in S
  PROVE  /\ <<x>> \o s \in Seq(S) /\ Len(<<x>> \o s) = Len(s) + 1
         /\ (<<x>> \o s)[1] = x
         /\ \A q \in 2 .. Len(s) + 1 : (<<x>> \o s)[q] = s[q - 1]
OBVIOUS

LEMMA Trimmed ==
  ASSUME NEW S, NEW s \in Seq(S), NEW n \in Nat
  PROVE  LET new == SubSeq(s, 1, Min({Len(s), n}))
         IN  /\ new \in Seq(S) /\ Len(new) = IF Len(s) <= n THEN Len(s) ELSE n
             /\ \A q \in 1 .. Len(new) : new[q] = s[q]
<1>1. Len(s) \in Int /\ n \in Int
  OBVIOUS
<1>2. PICK m \in Nat : m = Min({Len(s), n}) /\ m = IF Len(s) <= n THEN Len(s) ELSE n
  BY <1>1, MinOfTwo
<1>3. m <= Len(s)
  BY <1>2
<1>4. SubSeq(s, 1, m) \in Seq(S) /\ Len(SubSeq(s, 1, m)) = m /\ \A q \in 1 .. m : SubSeq(s, 1, m)[q] = s[q]
  BY <1>3
<1> QED
  BY <1>2, <1>4

\* What getOrCreateIPLimiter leaves in the cache: the address asked for, and of
\* the others all but the one Evicts names; nothing twice, nothing beyond the
\* capacity.
LEMMA CacheAfter ==
  ASSUME NEW l \in Limiter, NEW ip \in Addresses, NEW held, NEW i \in Ids,
         i = Given(l, ip, held), Len(l.perIP) <= CacheSize, Distinct(l.perIP)
  PROVE  LET new == GetOrCreate(l, ip, held).perIP
         IN  /\ new \in Seq(Addresses \X Ids) /\ Len(new) <= CacheSize
             /\ Distinct(new)
             /\ \E p \in DOMAIN new : new[p] = <<ip, i>>
             /\ \A p \in DOMAIN new : \/ new[p] = <<ip, i>>
                                     \/ \E q \in DOMAIN l.perIP : new[p] = l.perIP[q] /\ l.perIP[q][1] # ip
             /\ \A q \in DOMAIN l.perIP :
                  l.perIP[q][1] \notin Evicts(l, ip) \cup {ip} =>
                    \E p \in DOMAIN new : new[p] = l.perIP[q]
<1> DEFINE E == Addresses \X Ids
           s == l.perIP
           x == <<ip, i>>
           new == GetOrCreate(l, ip, held).perIP
<1>1. s \in Seq(E) /\ x \in E /\ DOMAIN s = 1 .. Len(s) /\ Len(s) \in Nat /\ x[1] = ip
  BY DEF Limiter
<1>2. CacheSize \in Nat \ {0}
  BY RateLimiterConstants
<1>3. new = SubSeq(ToFront(l, ip, held), 1, Min({Len(ToFront(l, ip, held)), CacheSize}))
  BY DEF GetOrCreate, Limiter
<1> HIDE DEF E, new
<1>4. CASE Cached(l, ip)
  <2>1. PICK p \in 1 .. Len(s) : p = Place(l, ip) /\ s[p][1] = ip
    BY <1>1, <1>4 DEF Cached, Place
  <2>2. PICK rest \in Seq(E) : rest = RemoveAt(s, p)
    BY <1>1, Removed
  <2>3. /\ Len(rest) = Len(s) - 1
        /\ \A q \in 1 .. p - 1 : rest[q] = s[q]
        /\ \A q \in p .. Len(s) - 1 : rest[q] = s[q + 1]
    BY <1>1, <2>2, Removed
  <2>4. PICK front \in Seq(E) : front = <<x>> \o rest
    BY <1>1, InFront
  <2>5. /\ Len(front) = Len(rest) + 1 /\ front[1] = x
        /\ \A q \in 2 .. Len(rest) + 1 : front[q] = rest[q - 1]
    BY <1>1, <2>4, InFront
  <2>6. Len(front) = Len(s)
    BY <1>1, <2>3, <2>5
  <2>7. ToFront(l, ip, held) = front
    BY <1>4, <2>1, <2>2, <2>4 DEF ToFront
  <2>8. /\ new \in Seq(E) /\ Len(new) = Len(s)
        /\ \A q \in 1 .. Len(new) : new[q] = front[q]
    BY <1>1, <1>2, <1>3, <2>6, <2>7, Trimmed
  <2> DEFINE from(q) == IF q = 1 THEN p ELSE IF q <= p THEN q - 1 ELSE q
  <2>9. new[1] = x
    BY <1>1, <2>1, <2>5, <2>8
  <2>10. ASSUME NEW q \in 2 .. Len(s) PROVE new[q] = s[from(q)]
    <3>1. new[q] = rest[q - 1]
      BY <1>1, <2>3, <2>5, <2>8
    <3>2. CASE q <= p
      <4>1. q - 1 \in 1 .. p - 1 /\ from(q) = q - 1
        BY <1>1, <2>1, <3>2
      <4> QED
        BY <2>3, <3>1, <4>1
    <3>3. CASE q > p
      <4>1. q - 1 \in p .. Len(s) - 1 /\ (q - 1) + 1 = q
        BY <1>1, <2>1, <3>3
      <4> QED
        BY <2>1, <2>3, <3>1, <3>3, <4>1
    <3> QED
      BY <2>1, <3>2, <3>3
  <2>11. \A q \in 1 .. Len(s) : from(q) \in 1 .. Len(s) /\ (from(q) = p <=> q = 1)
    BY <1>1, <2>1
  <2>12. \A q \in 1 .. Len(s) : new[q][1] = s[from(q)][1]
    BY <1>1, <2>1, <2>9, <2>10
  <2>13. \A q, r \in 1 .. Len(s) : from(q) = from(r) => q = r
    BY <1>1, <2>1
  <2>14. \A q \in 1 .. Len(s) : \E r \in 1 .. Len(s) : from(r) = q
    <3> SUFFICES ASSUME NEW q \in 1 .. Len(s) PROVE \E r \in 1 .. Len(s) : from(r) = q
      OBVIOUS
    <3>1. CASE q < p
      <4>1. q + 1 \in 1 .. Len(s) /\ from(q + 1) = q
        BY <1>1, <2>1, <3>1
      <4> QED
        BY <4>1
    <3>2. CASE q = p
      <4>1. 1 \in 1 .. Len(s) /\ from(1) = q
        BY <1>1, <2>1, <3>2
      <4> QED
        BY <4>1
    <3>3. CASE q > p
      <4>1. from(q) = q
        BY <1>1, <2>1, <3>3
      <4> QED
        BY <4>1
    <3> QED
      BY <1>1, <2>1, <3>1, <3>2, <3>3
  <2> HIDE DEF from
  <2>15. DOMAIN new = 1 .. Len(s) /\ 1 \in DOMAIN new
    BY <1>1, <2>1, <2>8
  <2>16. Distinct(new)
    <3> SUFFICES ASSUME NEW q \in 1 .. Len(s), NEW r \in 1 .. Len(s), new[q][1] = new[r][1]
                 PROVE  q = r
      BY <2>15 DEF Distinct
    <3>1. s[from(q)][1] = s[from(r)][1] /\ from(q) \in DOMAIN s /\ from(r) \in DOMAIN s
      BY <1>1, <2>11, <2>12
    <3>2. from(q) = from(r)
      BY <3>1 DEF Distinct
    <3> QED
      BY <2>13, <3>2
  <2>17. ASSUME NEW q \in DOMAIN new
         PROVE  \/ new[q] = x
                \/ \E r \in DOMAIN s : new[q] = s[r] /\ s[r][1] # ip
    <3>1. CASE q = 1
      BY <2>9, <3>1
    <3>2. CASE q # 1
      <4>1. q \in 2 .. Len(s) /\ from(q) \in DOMAIN s /\ from(q) # p
        BY <1>1, <2>11, <2>15, <3>2
      <4>2. new[q] = s[from(q)] /\ s[from(q)][1] # ip
        BY <1>1, <2>1, <2>10, <4>1 DEF Distinct
      <4> QED
        BY <4>1, <4>2
    <3> QED
      BY <3>1, <3>2
  <2>18. ASSUME NEW q \in DOMAIN s, s[q][1] # ip PROVE \E r \in DOMAIN new : new[r] = s[q]
    <3>1. PICK r \in 1 .. Len(s) : from(r) = q
      BY <1>1, <2>14
    <3>2. r # 1
      BY <1>1, <2>1, <2>11, <2>18, <3>1
    <3>3. new[r] = s[q]
      BY <1>1, <2>10, <3>1, <3>2
    <3> QED
      BY <2>15, <3>3
  <2> QED
    BY <1>1, <2>8, <2>9, <2>15, <2>16, <2>17, <2>18 DEF E, new
<1>5. CASE ~Cached(l, ip)
  <2>1. \A q \in 1 .. Len(s) : s[q][1] # ip
    BY <1>1, <1>5 DEF Cached
  <2>2. PICK front \in Seq(E) : front = <<x>> \o s
    BY <1>1, InFront
  <2>3. /\ Len(front) = Len(s) + 1 /\ front[1] = x
        /\ \A q \in 2 .. Len(s) + 1 : front[q] = s[q - 1]
    BY <1>1, <2>2, InFront
  <2>4. ToFront(l, ip, held) = front
    BY <1>5, <2>2 DEF ToFront
  <2>5. /\ new \in Seq(E)
        /\ Len(new) = IF Len(front) <= CacheSize THEN Len(front) ELSE CacheSize
        /\ \A q \in 1 .. Len(new) : new[q] = front[q]
    <3>1. CacheSize \in Nat /\ new = SubSeq(front, 1, Min({Len(front), CacheSize}))
      BY <1>2, <1>3, <2>4
    <3> QED
      BY <3>1, Trimmed
  <2>6. /\ Len(new) \in 1 .. CacheSize /\ Len(new) <= Len(s) + 1
        /\ Len(new) = Len(s) + 1 \/ (Len(new) = Len(s) /\ Len(s) = CacheSize)
    BY <1>1, <1>2, <2>3, <2>5
  <2>7. DOMAIN new = 1 .. Len(new) /\ 1 \in DOMAIN new /\ new[1] = x
    BY <2>3, <2>5, <2>6
  <2>8. ASSUME NEW q \in DOMAIN new, q # 1
        PROVE  q - 1 \in 1 .. Len(s) /\ new[q] = s[q - 1]
    BY <1>1, <2>3, <2>5, <2>6, <2>7, <2>8
  <2>9. Distinct(new)
    <3> SUFFICES ASSUME NEW q \in DOMAIN new, NEW r \in DOMAIN new, new[q][1] = new[r][1]
                 PROVE  q = r
      BY DEF Distinct
    <3>1. CASE q = 1 \/ r = 1
      BY <1>1, <2>1, <2>7, <2>8, <3>1
    <3>2. CASE q # 1 /\ r # 1
      <4>1. q - 1 = r - 1
        BY <1>1, <2>8, <3>2 DEF Distinct
      <4>2. q \in Int /\ r \in Int
        BY <2>7
      <4> QED
        BY <4>1, <4>2
    <3> QED
      BY <3>1, <3>2
  <2>10. ASSUME NEW q \in DOMAIN s, s[q][1] \notin Evicts(l, ip)
         PROVE  \E r \in DOMAIN new : new[r] = s[q]
    <3>1. q # CacheSize \/ Len(s) < CacheSize
      <4> SUFFICES ASSUME q = CacheSize, Len(s) >= CacheSize PROVE FALSE
        BY <1>1, <1>2
      <4>1. Len(s) = CacheSize
        BY <1>1, <1>2
      <4> QED
        BY <1>1, <1>2, <1>5, <2>10, <4>1 DEF Evicts, Last
    <3>2. q \in Nat \ {0} /\ q <= Len(s) /\ Len(new) \in Nat
      BY <1>1, <2>6
    <3>4. q + 1 <= Len(new)
      <4>1. CASE Len(new) = Len(s) + 1
        BY <1>1, <3>2, <4>1
      <4>2. CASE Len(new) = Len(s) /\ Len(s) = CacheSize
        <5>1. q # Len(s)
          BY <1>1, <3>1, <4>2
        <5> QED
          BY <1>1, <3>2, <4>2, <5>1
      <4> QED
        BY <2>6, <4>1, <4>2
    <3>5. q + 1 \in 1 .. Len(new) /\ q + 1 # 1 /\ (q + 1) - 1 = q
      BY <3>2, <3>4
    <3>6. q + 1 \in DOMAIN new
      BY <2>7, <3>5
    <3>3. new[q + 1] = s[q]
      BY <2>8, <3>5, <3>6
    <3> QED
      BY <3>3, <3>6
  <2> QED
    BY <1>1, <2>1, <2>5, <2>6, <2>7, <2>8, <2>9, <2>10 DEF E, new
<1> QED
  BY <1>4, <1>5

---------------------------------------------------------------------------
(* One limiter, and the accounts kept beside it *)

\* A limiter's cache and buckets are within their bounds.
Bounded(l) ==
  /\ Len(l.perIP) <= CacheSize /\ Distinct(l.perIP)
  /\ l.global <= GlobalBurst(l.globalRate)
  /\ \A i \in Ids : l.bucket[i] <= IPBurst(l.perIPRate)

\* c has bucket i in the cache.
Has(l, c, i) == \E p \in DOMAIN l.perIP : l.perIP[p] = <<c, i>>

\* The account of a client the cache never dropped: what it took and what is left
\* in its bucket are no more than its burst; without a bucket it took nothing.
Account(l, c, took) ==
  /\ \A i \in Ids : Has(l, c, i) => took + l.bucket[i] <= IPBurst(l.perIPRate)
  /\ (\A i \in Ids : ~Has(l, c, i)) => took = 0

LEMMA SameCache ==
  ASSUME NEW a, NEW b, a.perIP = b.perIP
  PROVE  \A c, i : Has(a, c, i) <=> Has(b, c, i)
BY DEF Has

\* A bucket that is given is the one in the cache, or nobody's.
LEMMA GivenBucket ==
  ASSUME NEW l \in Limiter, Distinct(l.perIP), NEW ip \in Addresses, NEW held,
         \E i \in Ids : i \notin InUse(l, held)
  PROVE  /\ Given(l, ip, held) \in Ids
         /\ Cached(l, ip) => Has(l, ip, Given(l, ip, held))
         /\ ~Cached(l, ip) => Given(l, ip, held) \notin InUse(l, held)
         /\ \A i \in Ids : Has(l, ip, i) => i = Given(l, ip, held)
<1>1. l.perIP \in Seq(Addresses \X Ids)
  BY DEF Limiter
<1>2. CASE Cached(l, ip)
  <2>1. PICK p \in DOMAIN l.perIP : p = Place(l, ip) /\ l.perIP[p][1] = ip
    BY <1>2 DEF Cached, Place
  <2>2. l.perIP[p] \in Addresses \X Ids
    BY <1>1
  <2>3. l.perIP[p] = <<ip, Given(l, ip, held)>> /\ Given(l, ip, held) \in Ids
    BY <1>2, <2>1, <2>2 DEF Given
  <2>4. ASSUME NEW i \in Ids, Has(l, ip, i) PROVE i = Given(l, ip, held)
    <3>1. PICK q \in DOMAIN l.perIP : l.perIP[q] = <<ip, i>>
      BY <2>4 DEF Has
    <3>2. q = p
      BY <2>1, <3>1 DEF Distinct
    <3> QED
      BY <2>3, <3>1, <3>2
  <2> QED
    BY <1>2, <2>3, <2>4 DEF Has
<1>3. CASE ~Cached(l, ip)
  <2>1. Given(l, ip, held) \in Ids /\ Given(l, ip, held) \notin InUse(l, held)
    BY <1>3 DEF Given
  <2>2. \A i \in Ids : ~Has(l, ip, i)
    BY <1>3 DEF Cached, Has
  <2> QED
    BY <1>3, <2>1, <2>2
<1> QED
  BY <1>2, <1>3

\* getOrCreateIPLimiter keeps a limiter within its bounds.
LEMMA EnterBounded ==
  ASSUME NEW l \in Limiter, Bounded(l), NEW ip \in Addresses, NEW held,
         \E i \in Ids : i \notin InUse(l, held)
  PROVE  LET new == GetOrCreate(l, ip, held)
         IN  /\ new \in Limiter /\ Bounded(new)
             /\ new.perIPRate = l.perIPRate /\ new.globalRate = l.globalRate
             /\ new.global = l.global
             /\ \A i \in Ids : new.bucket[i] = IF i \in InUse(l, held) THEN l.bucket[i]
                                               ELSE IPBurst(l.perIPRate)
<1> DEFINE new == GetOrCreate(l, ip, held)
<1>1. Given(l, ip, held) \in Ids
  BY GivenBucket DEF Bounded
<1>2. new.perIP \in Seq(Addresses \X Ids) /\ Len(new.perIP) <= CacheSize /\ Distinct(new.perIP)
  BY <1>1, CacheAfter DEF Bounded
<1>3. l.perIPRate \in Nat /\ l.globalRate \in Nat /\ l.bucket \in [Ids -> Nat] /\ l.global \in Nat
  BY DEF Limiter
<1> DEFINE b == [j \in Ids |-> IF j \in InUse(l, held) THEN l.bucket[j]
                               ELSE IPBurst(l.perIPRate)]
<1>4. new = [l EXCEPT !.perIP = new.perIP, !.bucket = b]
  <2>1. PICK s : s = SubSeq(ToFront(l, ip, held), 1, Min({Len(ToFront(l, ip, held)), CacheSize}))
    OBVIOUS
  <2>2. new = [l EXCEPT !.perIP = s, !.bucket = b]
    BY <2>1 DEF GetOrCreate
  <2>3. new.perIP = s
    BY <2>2 DEF Limiter
  <2> QED
    BY <2>2, <2>3
<1>5. IPBurst(l.perIPRate) \in Nat
  BY <1>3, Bursts
<1>6. \A i \in Ids : b[i] \in Nat /\ b[i] <= IPBurst(l.perIPRate)
  BY <1>3, <1>5 DEF Bounded
<1>7. b \in [Ids -> Nat]
  BY <1>6
<1>8. /\ new \in Limiter /\ new.bucket = b
      /\ new.perIPRate = l.perIPRate /\ new.globalRate = l.globalRate
      /\ new.global = l.global
  <2> HIDE DEF b, new
  <2>1. PICK s \in Seq(Addresses \X Ids) : s = new.perIP
    BY <1>2
  <2>2. new = [l EXCEPT !.perIP = s, !.bucket = b]
    BY <1>4, <2>1
  <2> QED
    BY <1>7, <2>1, <2>2 DEF Limiter
<1>9. Bounded(new)
  BY <1>2, <1>6, <1>8 DEF Bounded
<1> QED
  BY <1>6, <1>8, <1>9

\* ... keeps the buckets of all but the client it drops, and their accounts.
LEMMA EnterAccounts ==
  ASSUME NEW l \in Limiter, Bounded(l), NEW ip \in Addresses, NEW held,
         \E i \in Ids : i \notin InUse(l, held), NEW c, c \notin Evicts(l, ip)
  PROVE  LET new == GetOrCreate(l, ip, held)
         IN  /\ c = ip => Has(new, c, Given(l, ip, held))
             /\ \A i \in Ids : Has(l, c, i) => Has(new, c, i)
             /\ \A took \in Nat : Account(l, c, took) => Account(new, c, took)
<1> DEFINE new == GetOrCreate(l, ip, held)
           i == Given(l, ip, held)
<1>1. /\ i \in Ids /\ (Cached(l, ip) => Has(l, ip, i))
      /\ ~Cached(l, ip) => i \notin InUse(l, held)
      /\ \A j \in Ids : Has(l, ip, j) => j = i
  BY GivenBucket DEF Bounded
<1>2. /\ \E p \in DOMAIN new.perIP : new.perIP[p] = <<ip, i>>
      /\ \A p \in DOMAIN new.perIP : \/ new.perIP[p] = <<ip, i>>
                                     \/ \E q \in DOMAIN l.perIP : new.perIP[p] = l.perIP[q] /\ l.perIP[q][1] # ip
      /\ \A q \in DOMAIN l.perIP :
           l.perIP[q][1] \notin Evicts(l, ip) \cup {ip} =>
             \E p \in DOMAIN new.perIP : new.perIP[p] = l.perIP[q]
  BY <1>1, CacheAfter DEF Bounded
<1>3. /\ new.perIPRate = l.perIPRate
      /\ \A j \in Ids : new.bucket[j] = IF j \in InUse(l, held) THEN l.bucket[j]
                                        ELSE IPBurst(l.perIPRate)
  BY EnterBounded
<1>4. \A j \in Ids : Has(l, c, j) => l.bucket[j] = new.bucket[j]
  BY <1>3 DEF Has, InUse
<1>5. IPBurst(l.perIPRate) \in Nat
  BY Bursts DEF Limiter
<1> HIDE DEF i, new
<1>6. Has(new, ip, i)
  BY <1>2 DEF Has
<1>7. ASSUME NEW j \in Ids, Has(l, c, j) PROVE Has(new, c, j)
  <2>1. CASE c = ip
    BY <1>1, <1>6, <1>7, <2>1
  <2>2. CASE c # ip
    BY <1>2, <1>7, <2>2 DEF Has
  <2> QED
    BY <2>1, <2>2
<1>8. ASSUME NEW took \in Nat, Account(l, c, took) PROVE Account(new, c, took)
  <2>1. ASSUME NEW j \in Ids, Has(new, c, j)
        PROVE  took + new.bucket[j] <= IPBurst(l.perIPRate)
    <3>1. CASE Has(l, c, j)
      BY <1>4, <1>8, <3>1 DEF Account
    <3>2. CASE ~Has(l, c, j)
      <4>1. PICK p \in DOMAIN new.perIP : new.perIP[p] = <<c, j>>
        BY <2>1 DEF Has
      <4>2. c = ip /\ j = i
        BY <1>2, <3>2, <4>1 DEF Has
      <4>3. ~Cached(l, ip)
        BY <1>1, <3>2, <4>2
      <4>4. took = 0
        <5>1. \A k \in Ids : ~Has(l, c, k)
          BY <4>2, <4>3 DEF Has, Cached
        <5> QED
          BY <1>8, <5>1 DEF Account
      <4>5. new.bucket[j] = IPBurst(l.perIPRate)
        BY <1>1, <1>3, <4>2, <4>3
      <4> QED
        BY <1>5, <4>4, <4>5
    <3> QED
      BY <3>1, <3>2
  <2>2. ASSUME \A j \in Ids : ~Has(new, c, j) PROVE took = 0
    BY <1>7, <1>8, <2>2 DEF Account
  <2> QED
    BY <1>3, <2>1, <2>2 DEF Account
<1> QED
  BY <1>6, <1>7, <1>8 DEF i, new

\* Allow() of a client's bucket.
LEMMA TakenIP ==
  ASSUME NEW l \in Limiter, Bounded(l), NEW i \in Ids, IPAllows(l, i)
  PROVE  LET new == TakeIP(l, i)
         IN  /\ new \in Limiter /\ Bounded(new)
             /\ new.perIPRate = l.perIPRate /\ new.globalRate = l.globalRate
             /\ new.global = l.global /\ new.perIP = l.perIP
             /\ new.bucket[i] = l.bucket[i] - Token
             /\ \A j \in Ids \ {i} : new.bucket[j] = l.bucket[j]
<1> DEFINE new == TakeIP(l, i)
           b == [l.bucket EXCEPT ![i] = @ - Token]
<1>1. Token \in Nat /\ l.bucket \in [Ids -> Nat] /\ l.bucket[i] >= Token
  BY RateLimiterConstants DEF Limiter, IPAllows
<1>2. b \in [Ids -> Nat] /\ b[i] = l.bucket[i] - Token /\ \A j \in Ids \ {i} : b[j] = l.bucket[j]
  BY <1>1
<1>3. new = [l EXCEPT !.bucket = b]
  BY DEF TakeIP, Limiter
<1> HIDE DEF b, new
<1>4. /\ new \in Limiter /\ new.bucket = b
      /\ new.perIPRate = l.perIPRate /\ new.globalRate = l.globalRate
      /\ new.global = l.global /\ new.perIP = l.perIP
  BY <1>2, <1>3 DEF Limiter
<1>5. ASSUME NEW j \in Ids PROVE b[j] <= IPBurst(l.perIPRate)
  <2>1. l.bucket[j] <= IPBurst(l.perIPRate) /\ l.bucket[j] \in Nat /\ IPBurst(l.perIPRate) \in Nat
    BY <1>1, Bursts DEF Bounded, Limiter
  <2>2. b[j] <= l.bucket[j] /\ b[j] \in Nat
    BY <1>1, <1>2
  <2> QED
    BY <2>1, <2>2
<1>6. Bounded(new)
  BY <1>4, <1>5 DEF Bounded
<1> QED
  BY <1>2, <1>4, <1>6 DEF new

\* Allow() of the bucket all share.
LEMMA TakenGlobal ==
  ASSUME NEW l \in Limiter, Bounded(l), GlobalAllows(l)
  PROVE  LET new == TakeGlobal(l)
         IN  /\ new \in Limiter /\ Bounded(new)
             /\ new.perIPRate = l.perIPRate /\ new.globalRate = l.globalRate
             /\ new.global = l.global - Token
             /\ new.perIP = l.perIP /\ new.bucket = l.bucket
<1> DEFINE new == TakeGlobal(l)
<1>1. Token \in Nat /\ l.global \in Nat /\ l.global >= Token /\ l.globalRate \in Nat
  BY RateLimiterConstants DEF Limiter, GlobalAllows
<1>2. GlobalBurst(l.globalRate) \in Nat
  BY <1>1, Bursts
<1>3. PICK g \in Nat : g = l.global - Token
  BY <1>1
<1>4. new = [l EXCEPT !.global = g]
  BY <1>3 DEF TakeGlobal
<1> HIDE DEF new
<1>5. /\ new \in Limiter /\ new.global = g
      /\ new.perIPRate = l.perIPRate /\ new.globalRate = l.globalRate
      /\ new.perIP = l.perIP /\ new.bucket = l.bucket
  BY <1>4 DEF Limiter
<1>6. g <= GlobalBurst(l.globalRate)
  BY <1>1, <1>2, <1>3 DEF Bounded
<1>7. Bounded(new)
  BY <1>5, <1>6 DEF Bounded
<1> QED
  BY <1>3, <1>5, <1>7 DEF new

LEMMA Owed ==
  ASSUME NEW took \in Nat, NEW rate \in Nat
  PROVE  Max({0, took - rate}) \in Nat /\ (took = 0 => Max({0, took - rate}) = 0)
<1>1. took - rate \in Int /\ 0 \in Int
  OBVIOUS
<1>2. Max({0, took - rate}) = IF 0 >= took - rate THEN 0 ELSE took - rate
  BY <1>1, MaxOfTwo
<1> QED
  BY <1>2

\* A second's refill adds no more than it takes off the account.
LEMMA Balance ==
  ASSUME NEW took \in Nat, NEW left \in Nat, NEW rate \in Nat, NEW burst \in Nat,
         left <= burst
  PROVE  /\ Min({burst, left + rate}) \in Nat /\ Min({burst, left + rate}) <= burst
         /\ took + left <= burst =>
              Max({0, took - rate}) + Min({burst, left + rate}) <= burst
<1>1. took - rate \in Int /\ left + rate \in Int /\ burst \in Int /\ 0 \in Int
  OBVIOUS
<1>2. Max({0, took - rate}) = IF 0 >= took - rate THEN 0 ELSE took - rate
  BY <1>1, MaxOfTwo
<1>3. Min({burst, left + rate}) = IF burst <= left + rate THEN burst ELSE left + rate
  BY <1>1, MinOfTwo
<1> QED
  BY <1>2, <1>3

LEMMA Refilled ==
  ASSUME NEW l \in Limiter, Bounded(l)
  PROVE  LET new == Refill(l)
         IN  /\ new \in Limiter /\ Bounded(new)
             /\ new.perIPRate = l.perIPRate /\ new.globalRate = l.globalRate
             /\ new.perIP = l.perIP
             /\ new.global = Min({GlobalBurst(l.globalRate), l.global + l.globalRate})
             /\ \A i \in Ids :
                  new.bucket[i] = Min({IPBurst(l.perIPRate), l.bucket[i] + l.perIPRate})
<1> DEFINE new == Refill(l)
           b == [i \in Ids |-> Min({IPBurst(l.perIPRate), l.bucket[i] + l.perIPRate})]
           g == Min({GlobalBurst(l.globalRate), l.global + l.globalRate})
<1>1. /\ l.perIPRate \in Nat /\ l.globalRate \in Nat /\ l.global \in Nat
      /\ \A i \in Ids : l.bucket[i] \in Nat
  BY DEF Limiter
<1>2. IPBurst(l.perIPRate) \in Nat /\ GlobalBurst(l.globalRate) \in Nat
  BY <1>1, Bursts
<1>3. g \in Nat /\ g <= GlobalBurst(l.globalRate)
  BY <1>1, <1>2, Balance DEF Bounded
<1>4. ASSUME NEW i \in Ids PROVE b[i] \in Nat /\ b[i] <= IPBurst(l.perIPRate)
  BY <1>1, <1>2, Balance DEF Bounded
<1>5. b \in [Ids -> Nat]
  BY <1>4
<1>6. new = [l EXCEPT !.bucket = b, !.global = g]
  BY DEF Refill
<1>7. /\ \A i \in Ids : b[i] = Min({IPBurst(l.perIPRate), l.bucket[i] + l.perIPRate})
      /\ g = Min({GlobalBurst(l.globalRate), l.global + l.globalRate})
  OBVIOUS
<1> HIDE DEF b, g, new
<1>8. /\ new \in Limiter /\ new.bucket = b /\ new.global = g
      /\ new.perIPRate = l.perIPRate /\ new.globalRate = l.globalRate
      /\ new.perIP = l.perIP
  BY <1>3, <1>5, <1>6 DEF Limiter
<1>9. Bounded(new)
  BY <1>3, <1>4, <1>8 DEF Bounded
<1> QED
  BY <1>7, <1>8, <1>9 DEF new

\* What main builds.
LEMMA FreshLimiter ==
  ASSUME NEW l \in Limiters
  PROVE  /\ Fresh(l) \in Limiter /\ Bounded(Fresh(l)) /\ Fresh(l).perIP = <<>>
<1>1. PICK p \in Nat, g \in Nat : Fresh(l) = NewRateLimiter(p, g)
  BY ServiceConstants DEF Fresh
<1>2. IPBurst(p) \in Nat /\ GlobalBurst(g) \in Nat /\ CacheSize \in Nat
  BY Bursts, RateLimiterConstants
<1>3. <<>> \in Seq(Addresses \X Ids) /\ Len(<<>>) = 0 /\ DOMAIN <<>> = {}
  OBVIOUS
<1>4. [i \in Ids |-> IPBurst(p)] \in [Ids -> Nat]
  BY <1>2
<1> QED
  BY <1>1, <1>2, <1>3, <1>4 DEF NewRateLimiter, Limiter, Bounded, Distinct

\* Whatever the client writes, a request is counted for the client that sent it.
LEMMA ClientIsCounted ==
  ASSUME NEW c \in Clients, NEW says \in Seq(Clients), env.trustProxy \in BOOLEAN
  PROVE  clientIP(env.trustProxy, Header(c, says), Remote(c), Addresses) = c
<1>1. CASE env.trustProxy
  <2>1. Append(says, c) # <<>> /\ Last(Append(says, c)) = c
    BY DEF Last
  <2> QED
    BY <1>1, <2>1 DEF clientIP, Header, Addresses
<1>2. CASE ~env.trustProxy
  BY <1>2 DEF clientIP, Remote
<1> QED
  BY <1>1, <1>2

---------------------------------------------------------------------------
(* There is always a bucket to give *)

LEMMA ImageBound ==
  ASSUME NEW S, IsFiniteSet(S), NEW f
  PROVE  /\ IsFiniteSet({f[s] : s \in S})
         /\ Cardinality({f[s] : s \in S}) <= Cardinality(S)
<1> DEFINE T == {f[s] : s \in S}
           g == [s \in S |-> f[s]]
<1>1. g \in Surjection(S, T)
  BY DEF Surjection
<1> QED
  BY <1>1, FS_Surjection

LEMMA UnionBound ==
  ASSUME NEW S, IsFiniteSet(S), NEW T, IsFiniteSet(T)
  PROVE  /\ IsFiniteSet(S \cup T)
         /\ Cardinality(S \cup T) <= Cardinality(S) + Cardinality(T)
<1>1. /\ IsFiniteSet(S \cup T)
      /\ Cardinality(S \cup T) = Cardinality(S) + Cardinality(T) - Cardinality(S \cap T)
  BY FS_Union
<1>2. Cardinality(S) \in Nat /\ Cardinality(T) \in Nat /\ Cardinality(S \cap T) \in Nat
  <2>1. IsFiniteSet(S \cap T)
    BY FS_Intersection
  <2> QED
    BY <2>1, FS_CardinalityType
<1> QED
  BY <1>1, <1>2

LEMMA FreeBucket ==
  ASSUME NEW l \in Limiter, Len(l.perIP) <= CacheSize,
         NEW r \in Requests, NEW held, NEW ref,
         held \subseteq {ref[s] : s \in Requests \ {r}}
  PROVE  \E i \in Ids : i \notin InUse(l, held)
<1> DEFINE others == Requests \ {r}
           refs == {ref[s] : s \in others}
           places == 1 .. Len(l.perIP)
           cached == {l.perIP[p][2] : p \in places}
<1>1. /\ IsFiniteSet(Requests) /\ Ids = 1 .. CacheSize + Cardinality(Requests)
      /\ CacheSize \in Nat
  BY ServiceConstants, RateLimiterConstants
<1>2. /\ IsFiniteSet(others) /\ Cardinality(Requests) \in Nat
      /\ Cardinality(others) \in Nat /\ Cardinality(others) = Cardinality(Requests) - 1
  BY <1>1, FS_RemoveElement, FS_CardinalityType
<1>3. l.perIP \in Seq(Addresses \X Ids) /\ Len(l.perIP) \in Nat /\ DOMAIN l.perIP = places
  BY DEF Limiter
<1>4. IsFiniteSet(places) /\ Cardinality(places) = Len(l.perIP)
  <2>1. 1 \in Int /\ Len(l.perIP) \in Int /\ (1 > Len(l.perIP) <=> Len(l.perIP) = 0)
    BY <1>3
  <2>2. IsFiniteSet(places) /\ Cardinality(places) = IF 1 > Len(l.perIP) THEN 0 ELSE Len(l.perIP) - 1 + 1
    BY <2>1, FS_Interval
  <2> QED
    BY <1>3, <2>1, <2>2
<1>5. IsFiniteSet(refs) /\ Cardinality(refs) <= Cardinality(others)
  BY <1>2, ImageBound
<1>6. IsFiniteSet(cached) /\ Cardinality(cached) <= Cardinality(places)
  <2> DEFINE f == [p \in places |-> l.perIP[p][2]]
  <2>1. cached = {f[p] : p \in places}
    OBVIOUS
  <2> HIDE DEF f, cached, places
  <2> QED
    BY <1>4, <2>1, ImageBound
<1> HIDE DEF refs, cached, places, others
<1>7. /\ IsFiniteSet(refs \cup cached)
      /\ Cardinality(refs \cup cached) <= Cardinality(refs) + Cardinality(cached)
  BY <1>5, <1>6, UnionBound
<1>8. Cardinality(Ids) = CacheSize + Cardinality(Requests) /\ IsFiniteSet(Ids)
  BY <1>1, <1>2, FS_Interval
<1>9. ~(Ids \subseteq refs \cup cached)
  <2> SUFFICES ASSUME Ids \subseteq refs \cup cached PROVE FALSE
    OBVIOUS
  <2>1. Cardinality(Ids) <= Cardinality(refs \cup cached)
    BY <1>7, FS_Subset
  <2>2. Cardinality(refs) \in Nat /\ Cardinality(cached) \in Nat /\ Cardinality(refs \cup cached) \in Nat
    BY <1>5, <1>6, <1>7, FS_CardinalityType
  <2> QED
    BY <1>1, <1>2, <1>3, <1>4, <1>5, <1>6, <1>7, <1>8, <2>1, <2>2
<1> QED
  BY <1>3, <1>9 DEF InUse, refs, cached, places, others

---------------------------------------------------------------------------
(* The front of the server: the inductive invariant *)

Request == [pc : {"idle", "ip", "global", "past"}, client : Addresses, ip : Addresses,
            path : Paths, at : Limiters, ref : Ids \cup {0}]

FrontTypeOK ==
  /\ lim \in [Limiters -> Limiter]
  /\ req \in [Requests -> Request]
  /\ drawn \in [Limiters -> [Clients -> Nat]]
  /\ passed \in [Limiters -> Nat]
  /\ dropped \in [Limiters -> SUBSET Addresses]

AllBounded == \A l \in Limiters : Bounded(lim[l])

\* What went past a limiter and what is left in its shared bucket.
SharedAccount ==
  \A l \in Limiters : passed[l] + lim[l].global <= GlobalBurst(lim[l].globalRate)

ClientAccounts ==
  \A l \in Limiters : \A c \in Clients \ dropped[l] : Account(lim[l], c, drawn[l][c])

\* A request in flight is counted for the client that sent it; one that is about
\* to ask a bucket holds the bucket of its client, unless the cache dropped that.
Counted ==
  \A r \in Requests : req[r].pc # "idle" =>
    /\ req[r].client \in Clients /\ req[r].ip = req[r].client
    /\ req[r].pc = "ip" =>
         /\ req[r].ref \in Ids
         /\ req[r].client \notin dropped[req[r].at] =>
              Has(lim[req[r].at], req[r].client, req[r].ref)

FrontInv ==
  FrontTypeOK /\ AllBounded /\ SharedAccount /\ ClientAccounts /\ Counted

\* What a process starts with.
FreshState ==
  /\ lim = [l \in Limiters |-> Fresh(l)] /\ req = [r \in Requests |-> Idle]
  /\ drawn = NoDraws /\ passed = [l \in Limiters |-> 0] /\ dropped = [l \in Limiters |-> {}]

LEMMA FreshFront == FreshState => FrontInv
<1> SUFFICES ASSUME FreshState PROVE FrontInv
  OBVIOUS
<1> USE DEF FreshState
<1>1. \A l \in Limiters : /\ lim[l] \in Limiter /\ Bounded(lim[l]) /\ lim[l].perIP = <<>>
                          /\ lim[l].global \in Nat /\ lim[l].globalRate \in Nat
  BY FreshLimiter DEF Limiter
<1>2. FrontTypeOK
  BY <1>1 DEF FrontTypeOK, NoDraws, Idle, Request, Addresses, Limiters, Paths
<1>3. AllBounded
  BY <1>1 DEF AllBounded
<1>4. SharedAccount
  BY <1>1 DEF SharedAccount, Bounded
<1>5. ClientAccounts
  <2> SUFFICES ASSUME NEW l \in Limiters, NEW c \in Clients
               PROVE  Account(lim[l], c, drawn[l][c])
    BY DEF ClientAccounts
  <2>1. \A i \in Ids : ~Has(lim[l], c, i)
    BY <1>1 DEF Has
  <2>2. drawn[l][c] = 0
    BY DEF NoDraws
  <2> QED
    BY <2>1, <2>2 DEF Account
<1>6. Counted
  BY DEF Counted, Idle
<1> QED
  BY <1>2, <1>3, <1>4, <1>5, <1>6 DEF FrontInv

\* Into the Middleware of a limiter, with requests of any clients in flight.
LEMMA EnterKeeps ==
  ASSUME FrontInv, NEW r \in Requests, NEW l \in Limiters, NEW q \in Request,
         q.client \in Clients, q.ip = q.client,
         req[r].pc = "idle" \/ req[r].at # l,
         Enter(r, l, q), passed' = passed
  PROVE  FrontInv'
<1> DEFINE i == Given(lim[l], q.ip, Held(l))
           out == Evicts(lim[l], q.ip)
           new == GetOrCreate(lim[l], q.ip, Held(l))
<1>1. /\ lim \in [Limiters -> Limiter] /\ req \in [Requests -> Request]
      /\ drawn \in [Limiters -> [Clients -> Nat]] /\ passed \in [Limiters -> Nat]
      /\ dropped \in [Limiters -> SUBSET Addresses]
      /\ lim[l] \in Limiter /\ Bounded(lim[l]) /\ q.ip \in Addresses
  BY DEF FrontInv, FrontTypeOK, AllBounded, Addresses
<1>2. \E j \in Ids : j \notin InUse(lim[l], Held(l))
  <2> DEFINE ref == [s \in Requests |-> req[s].ref]
  <2>1. Held(l) \subseteq {ref[s] : s \in Requests \ {r}}
    BY DEF Held, InFlight
  <2>2. Len(lim[l].perIP) <= CacheSize
    BY <1>1 DEF Bounded
  <2> HIDE DEF ref
  <2> QED
    BY <1>1, <2>1, <2>2, FreeBucket
<1>3. i \in Ids
  BY <1>1, <1>2, GivenBucket DEF Bounded
<1>4. /\ new \in Limiter /\ Bounded(new) /\ new.globalRate = lim[l].globalRate
      /\ new.perIPRate = lim[l].perIPRate /\ new.global = lim[l].global
  BY <1>1, <1>2, EnterBounded
<1>5. out \subseteq Addresses /\ q.ip \notin out
  <2>1. lim[l].perIP \in Seq(Addresses \X Ids) /\ CacheSize \in Nat \ {0}
    BY <1>1, RateLimiterConstants DEF Limiter
  <2>2. CASE Len(lim[l].perIP) >= CacheSize
    <3>1. Len(lim[l].perIP) \in 1 .. Len(lim[l].perIP)
      BY <2>1, <2>2
    <3>2. lim[l].perIP[Len(lim[l].perIP)] \in Addresses \X Ids
      BY <2>1, <3>1
    <3>3. Last(lim[l].perIP)[1] \in Addresses
      BY <3>2 DEF Last
    <3>4. ~Cached(lim[l], q.ip) => Last(lim[l].perIP)[1] # q.ip
      BY <2>1, <3>1 DEF Cached, Last
    <3> QED
      BY <3>3, <3>4 DEF Evicts
  <2>3. CASE Len(lim[l].perIP) < CacheSize
    BY <2>3 DEF Evicts
  <2> QED
    BY <2>1, <2>2, <2>3
<1>6. \A c \in Clients \ out :
        /\ c = q.ip => Has(new, c, i)
        /\ \A j \in Ids : Has(lim[l], c, j) => Has(new, c, j)
        /\ \A took \in Nat : Account(lim[l], c, took) => Account(new, c, took)
  BY <1>1, <1>2, EnterAccounts
<1>7. /\ lim' = [lim EXCEPT ![l] = new]
      /\ req' = [req EXCEPT ![r] = [q EXCEPT !.pc = "ip", !.at = l, !.ref = i]]
      /\ dropped' = [dropped EXCEPT ![l] = @ \cup out]
      /\ drawn' = [drawn EXCEPT ![l] = [c \in Clients |-> IF c \in out THEN 0 ELSE @[c]]]
  BY DEF Enter
<1> HIDE DEF i, out, new
<1>9. FrontTypeOK'
  <2>1. [q EXCEPT !.pc = "ip", !.at = l, !.ref = i] \in Request
    BY <1>3 DEF Request
  <2>2. drawn' \in [Limiters -> [Clients -> Nat]]
    <3>1. [c \in Clients |-> IF c \in out THEN 0 ELSE drawn[l][c]] \in [Clients -> Nat]
      BY <1>1
    <3> QED
      BY <1>1, <1>7, <3>1
  <2> QED
    BY <1>1, <1>4, <1>5, <1>7, <2>1, <2>2 DEF FrontTypeOK
<1>10. AllBounded'
  BY <1>1, <1>4, <1>7 DEF FrontInv, AllBounded
<1>11. SharedAccount'
  BY <1>1, <1>4, <1>7 DEF FrontInv, SharedAccount
<1>12. ClientAccounts'
  <2> SUFFICES ASSUME NEW k \in Limiters, NEW c \in Clients \ dropped'[k]
               PROVE  Account(lim'[k], c, drawn'[k][c])
    BY DEF ClientAccounts
  <2>1. c \notin dropped[k] /\ Account(lim[k], c, drawn[k][c]) /\ drawn[k][c] \in Nat
    BY <1>1, <1>7 DEF FrontInv, ClientAccounts
  <2>2. CASE k = l
    <3>1. c \notin out /\ lim'[k] = new /\ drawn'[k][c] = drawn[k][c]
      BY <1>1, <1>7, <2>2
    <3> QED
      BY <1>6, <2>1, <2>2, <3>1
  <2>3. CASE k # l
    BY <1>1, <1>7, <2>1, <2>3
  <2> QED
    BY <2>2, <2>3
<1>13. Counted'
  <2> SUFFICES ASSUME NEW s \in Requests, req'[s].pc # "idle"
               PROVE  /\ req'[s].client \in Clients /\ req'[s].ip = req'[s].client
                      /\ req'[s].pc = "ip" =>
                           /\ req'[s].ref \in Ids
                           /\ req'[s].client \notin dropped'[req'[s].at] =>
                                Has(lim'[req'[s].at], req'[s].client, req'[s].ref)
    BY DEF Counted
  <2>1. CASE s = r
    <3>1. /\ req'[s].client = q.client /\ req'[s].ip = q.ip
          /\ req'[s].at = l /\ req'[s].ref = i
      BY <1>1, <1>7, <2>1 DEF Request
    <3>2. lim'[l] = new
      BY <1>1, <1>7
    <3> QED
      BY <1>3, <1>5, <1>6, <3>1, <3>2
  <2>2. CASE s # r
    <3>1. req'[s] = req[s] /\ req[s].at \in Limiters
      BY <1>1, <1>7, <2>2 DEF Request
    <3>2. /\ req[s].client \in Clients /\ req[s].ip = req[s].client
          /\ req[s].pc = "ip" =>
               /\ req[s].ref \in Ids
               /\ req[s].client \notin dropped[req[s].at] =>
                    Has(lim[req[s].at], req[s].client, req[s].ref)
      BY <3>1 DEF FrontInv, Counted
    <3>3. CASE req[s].at = l
      <4>1. lim'[l] = new /\ dropped'[l] = dropped[l] \cup out
        BY <1>1, <1>7
      <4> QED
        BY <1>6, <3>1, <3>2, <3>3, <4>1
    <3>4. CASE req[s].at # l
      <4>1. lim'[req[s].at] = lim[req[s].at] /\ dropped'[req[s].at] = dropped[req[s].at]
        BY <1>1, <1>7, <3>1, <3>4
      <4> QED
        BY <3>1, <3>2, <4>1
    <3> QED
      BY <3>3, <3>4
  <2> QED
    BY <2>1, <2>2
<1> QED
  BY <1>9, <1>10, <1>11, <1>12, <1>13 DEF FrontInv

\* A request is answered.
LEMMA RespondKeeps ==
  ASSUME FrontInv, NEW r \in Requests, Respond(r), UNCHANGED <<lim, drawn, passed, dropped>>
  PROVE  FrontInv'
<1>1. req \in [Requests -> Request] /\ req' = [req EXCEPT ![r] = Idle] /\ Idle \in Request
  BY DEF FrontInv, FrontTypeOK, Respond, Idle, Request, Addresses, Paths, Limiters
<1>2. FrontTypeOK'
  BY <1>1 DEF FrontInv, FrontTypeOK
<1>3. Counted'
  BY <1>1 DEF FrontInv, Counted, Idle
<1>4. AllBounded' /\ SharedAccount' /\ ClientAccounts'
  BY DEF FrontInv, AllBounded, SharedAccount, ClientAccounts
<1> QED
  BY <1>2, <1>3, <1>4 DEF FrontInv

\* A request asks the bucket it holds: what the bucket loses its client's account
\* gains, for the client has no other bucket in the cache.
LEMMA AllowIPKeeps ==
  ASSUME FrontInv, NEW r \in Requests, AllowIP(r)
  PROVE  FrontInv'
<1> DEFINE l == req[r].at
           c == req[r].client
           i == req[r].ref
           new == TakeIP(lim[l], i)
<1>1. /\ lim \in [Limiters -> Limiter] /\ req \in [Requests -> Request]
      /\ drawn \in [Limiters -> [Clients -> Nat]] /\ passed \in [Limiters -> Nat]
      /\ dropped \in [Limiters -> SUBSET Addresses] /\ Token \in Nat
  BY RateLimiterConstants DEF FrontInv, FrontTypeOK
<1>2. /\ l \in Limiters /\ lim[l] \in Limiter /\ Bounded(lim[l]) /\ i \in Ids /\ c \in Clients
      /\ c \notin dropped[l] => Has(lim[l], c, i)
  BY <1>1 DEF FrontInv, AllBounded, Counted, AllowIP, Request
<1>3. CASE ~IPAllows(lim[l], i)
  BY <1>3, RespondKeeps DEF AllowIP
<1>4. CASE IPAllows(lim[l], i)
  <2>1. /\ lim' = [lim EXCEPT ![l] = new] /\ Charge(l, c)
        /\ req' = [req EXCEPT ![r].pc = "global"] /\ passed' = passed /\ dropped' = dropped
    BY <1>4 DEF AllowIP
  <2>2. /\ new \in Limiter /\ Bounded(new) /\ new.perIPRate = lim[l].perIPRate
        /\ new.globalRate = lim[l].globalRate /\ new.global = lim[l].global
        /\ new.perIP = lim[l].perIP /\ new.bucket[i] = lim[l].bucket[i] - Token
        /\ \A j \in Ids \ {i} : new.bucket[j] = lim[l].bucket[j]
    BY <1>2, <1>4, TakenIP
  <2>3. \A d, j : Has(new, d, j) <=> Has(lim[l], d, j)
    BY <2>2 DEF Has
  <2>4. /\ drawn' \in [Limiters -> [Clients -> Nat]]
        /\ \A k \in Limiters, d \in Clients :
             drawn'[k][d] = IF k = l /\ d = c /\ c \notin dropped[l] THEN drawn[k][d] + Token
                            ELSE drawn[k][d]
    <3>1. CASE c \in dropped[l]
      BY <1>1, <2>1, <3>1 DEF Charge
    <3>2. CASE c \notin dropped[l]
      <4>1. drawn' = [drawn EXCEPT ![l][c] = @ + Token]
        BY <2>1, <3>2 DEF Charge
      <4>2. drawn[l][c] + Token \in Nat
        BY <1>1, <1>2
      <4> HIDE DEF l, c
      <4> QED
        BY <1>1, <1>2, <3>2, <4>1, <4>2
    <3> QED
      BY <3>1, <3>2
  <2> HIDE DEF new, i
  <2>5. FrontTypeOK'
    <3>1. [req[r] EXCEPT !.pc = "global"] \in Request
      BY <1>1 DEF Request
    <3>2. req' \in [Requests -> Request]
      BY <1>1, <2>1, <3>1
    <3> QED
      BY <1>1, <1>2, <2>1, <2>2, <2>4, <3>2 DEF FrontTypeOK
  <2>6. AllBounded'
    BY <1>1, <1>2, <2>1, <2>2 DEF FrontInv, AllBounded
  <2>7. SharedAccount'
    BY <1>1, <1>2, <2>1, <2>2 DEF FrontInv, SharedAccount
  <2>8. ClientAccounts'
    <3> SUFFICES ASSUME NEW k \in Limiters, NEW d \in Clients \ dropped[k]
                 PROVE  Account(lim'[k], d, drawn'[k][d])
      BY <2>1 DEF ClientAccounts
    <3>1. Account(lim[k], d, drawn[k][d]) /\ drawn[k][d] \in Nat
      BY <1>1 DEF FrontInv, ClientAccounts
    <3>2. CASE k # l
      BY <1>1, <2>1, <2>4, <3>1, <3>2
    <3>3. CASE k = l
      <4>1. lim'[k] = new
        BY <1>1, <1>2, <2>1, <3>3
      <4>2. IPBurst(lim[l].perIPRate) \in Nat /\ \A j \in Ids : lim[l].bucket[j] \in Nat
        BY <1>2, Bursts DEF Limiter
      <4>3. CASE d = c
        <5>1. drawn'[k][d] = drawn[k][d] + Token /\ Has(lim[l], c, i)
          BY <1>2, <2>4, <3>3, <4>3
        <5>2. ASSUME NEW j \in Ids, Has(lim[l], c, j) PROVE j = i
          BY <1>2, <5>1, <5>2 DEF Has, Bounded, Distinct
        <5>3. drawn[k][d] + lim[l].bucket[i] <= IPBurst(lim[l].perIPRate)
          BY <1>2, <3>1, <3>3, <4>3, <5>1 DEF Account
        <5>4. (drawn[k][d] + Token) + new.bucket[i] <= IPBurst(lim[l].perIPRate)
          BY <1>1, <1>2, <2>2, <3>1, <4>2, <5>3
        <5> QED
          BY <1>2, <2>2, <2>3, <4>1, <4>3, <5>1, <5>2, <5>4 DEF Account
      <4>4. CASE d # c
        <5>1. drawn'[k][d] = drawn[k][d]
          BY <2>4, <4>4
        <5>2. \A j \in Ids : new.bucket[j] \in Nat /\ new.bucket[j] <= lim[l].bucket[j]
          <6> SUFFICES ASSUME NEW j \in Ids
                       PROVE  new.bucket[j] \in Nat /\ new.bucket[j] <= lim[l].bucket[j]
            OBVIOUS
          <6>1. new.bucket[j] \in Nat /\ lim[l].bucket[j] \in Nat
            BY <2>2, <4>2 DEF Limiter
          <6>2. CASE j = i
            BY <1>1, <2>2, <6>1, <6>2
          <6>3. CASE j # i
            BY <2>2, <6>1, <6>3
          <6> QED
            BY <6>2, <6>3
        <5>3. ASSUME NEW j \in Ids, Has(new, d, j)
              PROVE  drawn[k][d] + new.bucket[j] <= IPBurst(new.perIPRate)
          <6>1. drawn[k][d] + lim[l].bucket[j] <= IPBurst(new.perIPRate)
            BY <2>2, <2>3, <3>1, <3>3, <5>3 DEF Account
          <6> QED
            BY <2>2, <3>1, <4>2, <5>2, <6>1
        <5> QED
          BY <2>3, <3>1, <3>3, <4>1, <5>1, <5>3 DEF Account
      <4> QED
        BY <4>3, <4>4
    <3> QED
      BY <3>2, <3>3
  <2>9. Counted'
    <3> SUFFICES ASSUME NEW s \in Requests, req'[s].pc # "idle"
                 PROVE  /\ req'[s].client \in Clients /\ req'[s].ip = req'[s].client
                        /\ req'[s].pc = "ip" =>
                             /\ req'[s].ref \in Ids
                             /\ req'[s].client \notin dropped'[req'[s].at] =>
                                  Has(lim'[req'[s].at], req'[s].client, req'[s].ref)
      BY DEF Counted
    <3>1. CASE s = r
      <4>1. req[r].pc = "ip"
        BY DEF AllowIP
      <4>2. req'[s].pc = "global" /\ req'[s].client = req[r].client /\ req'[s].ip = req[r].ip
        BY <1>1, <2>1, <3>1 DEF Request
      <4> QED
        BY <4>1, <4>2 DEF FrontInv, Counted
    <3>2. CASE s # r
      <4>1. req'[s] = req[s] /\ req[s].at \in Limiters
        BY <1>1, <2>1, <3>2 DEF Request
      <4>2. /\ req[s].client \in Clients /\ req[s].ip = req[s].client
            /\ req[s].pc = "ip" =>
                 /\ req[s].ref \in Ids
                 /\ req[s].client \notin dropped[req[s].at] =>
                      Has(lim[req[s].at], req[s].client, req[s].ref)
        BY <4>1 DEF FrontInv, Counted
      <4>3. \A d, j : Has(lim'[req[s].at], d, j) <=> Has(lim[req[s].at], d, j)
        BY <1>1, <1>2, <2>1, <2>3, <4>1
      <4> QED
        BY <2>1, <4>1, <4>2, <4>3
    <3> QED
      BY <3>1, <3>2
  <2> QED
    BY <2>5, <2>6, <2>7, <2>8, <2>9 DEF FrontInv
<1> QED
  BY <1>3, <1>4

\* A request asks the bucket all share.
LEMMA AllowGlobalKeeps ==
  ASSUME FrontInv, NEW r \in Requests, AllowGlobal(r)
  PROVE  FrontInv'
<1> DEFINE l == req[r].at
           new == TakeGlobal(lim[l])
<1>1. /\ lim \in [Limiters -> Limiter] /\ req \in [Requests -> Request]
      /\ drawn \in [Limiters -> [Clients -> Nat]] /\ passed \in [Limiters -> Nat]
      /\ dropped \in [Limiters -> SUBSET Addresses] /\ Token \in Nat
  BY RateLimiterConstants DEF FrontInv, FrontTypeOK
<1>2. l \in Limiters /\ lim[l] \in Limiter /\ Bounded(lim[l])
  BY <1>1 DEF FrontInv, AllBounded, Request
<1>3. CASE ~GlobalAllows(lim[l])
  BY <1>3, RespondKeeps DEF AllowGlobal
<1>4. CASE GlobalAllows(lim[l])
  <2>1. /\ lim' = [lim EXCEPT ![l] = new] /\ passed' = [passed EXCEPT ![l] = @ + Token]
        /\ req' = [req EXCEPT ![r].pc = "past", ![r].ref = 0]
        /\ drawn' = drawn /\ dropped' = dropped
    BY <1>4 DEF AllowGlobal
  <2>2. /\ new \in Limiter /\ Bounded(new) /\ new.perIPRate = lim[l].perIPRate
        /\ new.globalRate = lim[l].globalRate /\ new.global = lim[l].global - Token
        /\ new.perIP = lim[l].perIP /\ new.bucket = lim[l].bucket
    BY <1>2, <1>4, TakenGlobal
  <2> HIDE DEF new
  <2>3. \A k \in Limiters : /\ lim'[k].perIP = lim[k].perIP /\ lim'[k].bucket = lim[k].bucket
                            /\ lim'[k].perIPRate = lim[k].perIPRate
    BY <1>1, <1>2, <2>1, <2>2
  <2>4. req'[r] = [req[r] EXCEPT !.pc = "past", !.ref = 0] /\ req'[r] \in Request
    BY <1>1, <2>1 DEF Request
  <2>5. FrontTypeOK'
    <3>1. req' \in [Requests -> Request]
      BY <1>1, <2>1, <2>4
    <3> QED
      BY <1>1, <1>2, <2>1, <2>2, <3>1 DEF FrontTypeOK
  <2>6. AllBounded'
    BY <1>1, <1>2, <2>1, <2>2 DEF FrontInv, AllBounded
  <2>7. SharedAccount'
    <3> SUFFICES ASSUME NEW k \in Limiters
                 PROVE  passed'[k] + lim'[k].global <= GlobalBurst(lim'[k].globalRate)
      BY DEF SharedAccount
    <3>1. /\ passed[k] + lim[k].global <= GlobalBurst(lim[k].globalRate)
          /\ passed[k] \in Nat /\ lim[k].global \in Nat
      BY <1>1 DEF FrontInv, SharedAccount, Limiter
    <3>2. CASE k = l
      <4>1. lim'[k] = new /\ passed'[k] = passed[k] + Token
        BY <1>1, <1>2, <2>1, <3>2
      <4>2. passed'[k] + lim'[k].global = passed[k] + lim[k].global
        BY <1>1, <2>2, <3>1, <3>2, <4>1
      <4> QED
        BY <2>2, <3>1, <3>2, <4>1, <4>2
    <3>3. CASE k # l
      BY <1>1, <2>1, <3>1, <3>3
    <3> QED
      BY <3>2, <3>3
  <2>10. ASSUME NEW k \in Limiters PROVE \A c, i : Has(lim'[k], c, i) <=> Has(lim[k], c, i)
    BY <2>3, SameCache
  <2>8. ClientAccounts'
    BY <2>1, <2>3, <2>10 DEF FrontInv, ClientAccounts, Account
  <2>9. Counted'
    <3> SUFFICES ASSUME NEW s \in Requests, req'[s].pc # "idle"
                 PROVE  /\ req'[s].client \in Clients /\ req'[s].ip = req'[s].client
                        /\ req'[s].pc = "ip" =>
                             /\ req'[s].ref \in Ids
                             /\ req'[s].client \notin dropped'[req'[s].at] =>
                                  Has(lim'[req'[s].at], req'[s].client, req'[s].ref)
      BY DEF Counted
    <3>1. CASE s = r
      <4>1. req[r].pc = "global"
        BY DEF AllowGlobal
      <4>2. req'[s].pc = "past" /\ req'[s].client = req[r].client /\ req'[s].ip = req[r].ip
        BY <1>1, <2>4, <3>1 DEF Request
      <4> QED
        BY <4>1, <4>2 DEF FrontInv, Counted
    <3>2. CASE s # r
      <4>1. req'[s] = req[s] /\ req[s].at \in Limiters
        BY <1>1, <2>1, <3>2 DEF Request
      <4> QED
        BY <2>1, <2>10, <4>1 DEF FrontInv, Counted
    <3> QED
      BY <3>1, <3>2
  <2> QED
    BY <2>5, <2>6, <2>7, <2>8, <2>9 DEF FrontInv
<1> QED
  BY <1>3, <1>4

\* A second passes.
LEMMA TickKeeps ==
  ASSUME FrontInv, Tick
  PROVE  FrontInv'
<1>1. /\ lim \in [Limiters -> Limiter] /\ drawn \in [Limiters -> [Clients -> Nat]]
      /\ passed \in [Limiters -> Nat]
  BY DEF FrontInv, FrontTypeOK
<1>2. /\ lim' = [l \in Limiters |-> Refill(lim[l])]
      /\ drawn' = [l \in Limiters |->
                     [c \in Clients |-> Max({0, drawn[l][c] - lim[l].perIPRate})]]
      /\ passed' = [l \in Limiters |-> Max({0, passed[l] - lim[l].globalRate})]
      /\ req' = req /\ dropped' = dropped
  BY DEF Tick
<1>3. \A l \in Limiters :
        /\ lim'[l] \in Limiter /\ Bounded(lim'[l])
        /\ lim'[l].perIPRate = lim[l].perIPRate /\ lim'[l].globalRate = lim[l].globalRate
        /\ lim'[l].perIP = lim[l].perIP
        /\ lim'[l].global = Min({GlobalBurst(lim[l].globalRate), lim[l].global + lim[l].globalRate})
        /\ \A i \in Ids :
             lim'[l].bucket[i] = Min({IPBurst(lim[l].perIPRate), lim[l].bucket[i] + lim[l].perIPRate})
  BY <1>1, <1>2, Refilled DEF FrontInv, AllBounded
<1>4. \A l \in Limiters :
        /\ lim[l].perIPRate \in Nat /\ lim[l].globalRate \in Nat /\ lim[l].global \in Nat
        /\ IPBurst(lim[l].perIPRate) \in Nat /\ GlobalBurst(lim[l].globalRate) \in Nat
        /\ lim[l].global <= GlobalBurst(lim[l].globalRate)
        /\ \A i \in Ids : lim[l].bucket[i] \in Nat /\ lim[l].bucket[i] <= IPBurst(lim[l].perIPRate)
  BY <1>1, Bursts DEF Limiter, FrontInv, AllBounded, Bounded
<1>5. ASSUME NEW l \in Limiters
      PROVE  /\ passed'[l] \in Nat
             /\ passed'[l] + lim'[l].global <= GlobalBurst(lim[l].globalRate)
  <2>1. passed[l] \in Nat /\ passed[l] + lim[l].global <= GlobalBurst(lim[l].globalRate)
    BY <1>1 DEF FrontInv, SharedAccount
  <2>2. passed'[l] = Max({0, passed[l] - lim[l].globalRate})
    BY <1>2
  <2>3. /\ lim[l].global \in Nat /\ lim[l].globalRate \in Nat
        /\ GlobalBurst(lim[l].globalRate) \in Nat
        /\ lim[l].global <= GlobalBurst(lim[l].globalRate)
    BY <1>4
  <2>4. lim'[l].global = Min({GlobalBurst(lim[l].globalRate), lim[l].global + lim[l].globalRate})
    BY <1>3
  <2>5. passed'[l] \in Nat
    BY <2>1, <2>2, <2>3, Owed
  <2>6. Max({0, passed[l] - lim[l].globalRate})
          + Min({GlobalBurst(lim[l].globalRate), lim[l].global + lim[l].globalRate})
        <= GlobalBurst(lim[l].globalRate)
    BY <2>1, <2>3, Balance
  <2> QED
    BY <2>2, <2>4, <2>5, <2>6
<1>6. ASSUME NEW l \in Limiters, NEW c \in Clients
      PROVE  /\ drawn'[l][c] \in Nat
             /\ drawn[l][c] = 0 => drawn'[l][c] = 0
             /\ \A i \in Ids : drawn[l][c] + lim[l].bucket[i] <= IPBurst(lim[l].perIPRate) =>
                               drawn'[l][c] + lim'[l].bucket[i] <= IPBurst(lim[l].perIPRate)
  <2>1. drawn[l][c] \in Nat /\ drawn'[l][c] = Max({0, drawn[l][c] - lim[l].perIPRate})
    BY <1>1, <1>2
  <2>2. lim[l].perIPRate \in Nat /\ IPBurst(lim[l].perIPRate) \in Nat
    BY <1>4
  <2>3. drawn'[l][c] \in Nat /\ (drawn[l][c] = 0 => drawn'[l][c] = 0)
    BY <2>1, <2>2, Owed
  <2>4. ASSUME NEW i \in Ids, drawn[l][c] + lim[l].bucket[i] <= IPBurst(lim[l].perIPRate)
        PROVE  drawn'[l][c] + lim'[l].bucket[i] <= IPBurst(lim[l].perIPRate)
    <3>1. lim[l].bucket[i] \in Nat /\ lim[l].bucket[i] <= IPBurst(lim[l].perIPRate)
      BY <1>4
    <3>2. lim'[l].bucket[i] = Min({IPBurst(lim[l].perIPRate), lim[l].bucket[i] + lim[l].perIPRate})
      BY <1>3
    <3> QED
      BY <2>1, <2>2, <2>4, <3>1, <3>2, Balance
  <2> QED
    BY <2>3, <2>4
<1>7. FrontTypeOK'
  <2>1. lim' \in [Limiters -> Limiter]
    BY <1>2, <1>3
  <2>2. passed' \in [Limiters -> Nat]
    BY <1>2, <1>5
  <2>3. \A l \in Limiters : drawn'[l] \in [Clients -> Nat]
    BY <1>2, <1>6
  <2>4. drawn' \in [Limiters -> [Clients -> Nat]]
    BY <1>2, <2>3
  <2> QED
    BY <1>2, <2>1, <2>2, <2>4 DEF FrontInv, FrontTypeOK
<1>8. AllBounded'
  BY <1>3 DEF AllBounded
<1>9. SharedAccount'
  BY <1>3, <1>5 DEF SharedAccount
<1>12. ASSUME NEW l \in Limiters PROVE \A c, i : Has(lim'[l], c, i) <=> Has(lim[l], c, i)
  BY <1>3, SameCache
<1>10. ClientAccounts'
  BY <1>2, <1>3, <1>6, <1>12 DEF FrontInv, ClientAccounts, Account
<1>11. Counted'
  <2>1. \A r \in Requests : req[r].at \in Limiters
    BY DEF FrontInv, FrontTypeOK, Request
  <2> QED
    BY <1>2, <1>12, <2>1 DEF FrontInv, Counted
<1> QED
  BY <1>7, <1>8, <1>9, <1>10, <1>11 DEF FrontInv

---------------------------------------------------------------------------
(* The process: the inductive invariant *)

\* There is a serving goroutine once main has started it; it reports once, and nil
\* only after Shutdown has begun; a process that ended is past main.
ProcessInv ==
  /\ ProcessTypeOK
  /\ main \in {"load", "stores", "tls", "listen"} => serve = "none"
  /\ serve # "returned" => serverErr = <<>>
  /\ main \notin {"shutdown", "drain", "gone"} => serverErr # <<"nil">>
  /\ main = "gone" <=> exit # "running"
  /\ exit = "running" => ~closed

\* Shutdown returned with nothing in flight.
Drained == main = "drain" => InFlight = {}

IInv == ProcessInv /\ FrontInv /\ Drained

\* Every step of the process, whatever is in flight.
ProcessSteps ==
  \/ MainSteps(InFlight) \/ ShutdownDeadline(InFlight)
  \/ Bind \/ ServeFails \/ ServeClosed \/ Signal \/ GoroutinePanics

LEMMA ProcessKeeps ==
  ASSUME ProcessInv, ProcessSteps
  PROVE  /\ ProcessInv'
         /\ main' = "drain" => main = "drain" \/ InFlight = {}
<1> USE DEF ProcessInv, ProcessTypeOK, MainStages
<1>14. \A err \in {"nil", "error"} : Append(<<>>, err) = <<err>> /\ <<err>> # <<>>
  OBVIOUS
<1>15. <<"nil">> # <<"error">>
  <2>1. <<"nil">>[1] # <<"error">>[1]
    OBVIOUS
  <2> QED
    BY <2>1
<1>1. CASE LoadConfig
  BY <1>1 DEF LoadConfig, GoTo, Exit
<1>2. CASE OpenStores
  BY <1>2 DEF OpenStores, GoTo, Exit
<1>3. CASE CheckTLS
  BY <1>3 DEF CheckTLS, GoTo, Exit
<1>4. CASE Listen
  BY <1>4 DEF Listen, GoTo
<1>5. CASE StartMetrics
  BY <1>5 DEF StartMetrics, GoTo, Exit
<1>6. CASE ServerEnded
  BY <1>6, <1>14 DEF ServerEnded, Exit, Return
<1>7. CASE ShutdownReturns(InFlight)
  BY <1>7 DEF ShutdownReturns, GoTo
<1>8. CASE DrainServerErr
  BY <1>8, <1>14 DEF DrainServerErr, Exit, Return
<1>9. CASE ShutdownDeadline(InFlight)
  BY <1>9 DEF ShutdownDeadline, Exit
<1>10. CASE Bind
  BY <1>10 DEF Bind, Running
<1>11. CASE ServeFails
  <2>1. serverErr' = <<"error">>
    BY <1>11, <1>14 DEF ServeFails, Report
  <2> QED
    BY <1>11, <1>15, <2>1 DEF ServeFails, Report, Running
<1>12. CASE ServeClosed
  <2>1. serverErr' = <<"nil">>
    BY <1>12, <1>14 DEF ServeClosed, Report
  <2> QED
    BY <1>12, <2>1 DEF ServeClosed, Report, Running
<1>13. CASE Signal
  BY <1>13 DEF Signal, GoTo, Exit, Running
<1>16. CASE GoroutinePanics
  BY <1>16 DEF GoroutinePanics, Exit, Running
<1> QED
  BY <1>1, <1>2, <1>3, <1>4, <1>5, <1>6, <1>7, <1>8, <1>9, <1>10, <1>11, <1>12, <1>13, <1>16
  DEF ProcessSteps, MainSteps

\* Ending the process is the only thing its steps do to requests and limiters.
LEMMA CarryKeeps ==
  ASSUME FrontInv, Carry
  PROVE  FrontInv' /\ (InFlight' = InFlight \/ exit' # "running")
<1>1. CASE exit' = "running"
  <2>1. UNCHANGED frontVars
    BY <1>1 DEF Carry
  <2>2. lim' = lim /\ req' = req /\ drawn' = drawn /\ passed' = passed /\ dropped' = dropped
    BY <2>1 DEF frontVars
  <2>3. FrontInv'
    BY <2>2 DEF FrontInv, FrontTypeOK, AllBounded, SharedAccount, ClientAccounts, Counted
  <2> QED
    BY <2>2, <2>3 DEF InFlight
<1>2. CASE exit' # "running"
  <2>1. FreshState'
    BY <1>2 DEF Carry, FreshState, NoDraws, Fresh, Idle
  <2>2. FreshState' => FrontInv'
    BY FreshFront, PTL
  <2> QED
    BY <1>2, <2>1, <2>2
<1> QED
  BY <1>1, <1>2

\* A request in flight, and one that arrives.
LEMMA RequestKeeps ==
  ASSUME IInv, NEW r \in Requests,
         \/ Step(r)
         \/ \E c \in Clients, path \in Paths :
              \E says \in {<<>>} \cup {<<d>> : d \in Clients \ {c}} : Arrive(r, c, path, says)
  PROVE  IInv'
<1>1. FrontInv /\ ProcessInv /\ req \in [Requests -> Request]
  BY DEF IInv, FrontInv, FrontTypeOK
<1>2. ASSUME AllowIP(r) PROVE FrontInv' /\ UNCHANGED processVars /\ req[r].pc # "idle"
  BY <1>1, <1>2, AllowIPKeeps DEF AllowIP
<1>3. ASSUME AllowGlobal(r) PROVE FrontInv' /\ UNCHANGED processVars /\ req[r].pc # "idle"
  BY <1>1, <1>3, AllowGlobalKeeps DEF AllowGlobal
<1>4. ASSUME ToAdmin(r) PROVE FrontInv' /\ UNCHANGED processVars /\ req[r].pc # "idle"
  <2>1. req[r] \in Request /\ req[r].client \in Clients /\ req[r].ip = req[r].client
    BY <1>1, <1>4 DEF ToAdmin, FrontInv, Counted
  <2>2. "admin" \in Limiters /\ req[r].at # "admin" /\ Enter(r, "admin", req[r]) /\ passed' = passed
    BY <1>4 DEF ToAdmin, Limiters
  <2>3. FrontInv'
    BY <1>1, <2>1, <2>2, EnterKeeps
  <2> QED
    BY <1>4, <2>3 DEF ToAdmin
<1>5. ASSUME Handle(r) PROVE FrontInv' /\ UNCHANGED processVars /\ req[r].pc # "idle"
  BY <1>1, <1>5, RespondKeeps DEF Handle
<1>6. ASSUME NEW c \in Clients, NEW path \in Paths,
             NEW says \in {<<>>} \cup {<<d>> : d \in Clients \ {c}}, Arrive(r, c, path, says)
      PROVE  FrontInv' /\ UNCHANGED processVars /\ main # "drain"
  <2>1. env.trustProxy \in BOOLEAN
    BY <1>1, ProcessConstants DEF ProcessInv, ProcessTypeOK, Environment
  <2>2. says \in Seq(Clients)
    <3>1. \A d \in Clients : <<d>> \in Seq(Clients)
      OBVIOUS
    <3>2. <<>> \in Seq(Clients)
      OBVIOUS
    <3> QED
      BY <3>1, <3>2
  <2>3. clientIP(env.trustProxy, Header(c, says), Remote(c), Addresses) = c
    BY <2>1, <2>2, ClientIsCounted
  <2> DEFINE q == [Idle EXCEPT !.client = c, !.path = path,
                     !.ip = clientIP(env.trustProxy, Header(c, says), Remote(c), Addresses)]
  <2>4. Enter(r, "main", q) /\ passed' = passed /\ req[r].pc = "idle"
    BY <1>6 DEF Arrive, Addresses
  <2>5. q \in Request /\ q.client = c /\ q.ip = c
    BY <2>3 DEF Idle, Request, Addresses, Paths, Limiters
  <2>6. FrontInv'
    <3> HIDE DEF q
    <3>1. "main" \in Limiters
      BY DEF Limiters
    <3> QED
      BY <1>1, <2>4, <2>5, <3>1, EnterKeeps
  <2> QED
    BY <1>6, <2>6 DEF Arrive, Accepting
<1>7. FrontInv' /\ UNCHANGED processVars /\ (req[r].pc # "idle" \/ main # "drain")
  BY <1>2, <1>3, <1>4, <1>5, <1>6 DEF Step
<1>8. ProcessInv'
  BY <1>1, <1>7 DEF ProcessInv, ProcessTypeOK, processVars
<1>9. main # "drain" /\ main' = main
  BY <1>7 DEF IInv, Drained, InFlight, processVars
<1> QED
  BY <1>7, <1>8, <1>9 DEF IInv, Drained

LEMMA Inductive == Spec => []IInv
<1>1. Init => IInv
  <2> SUFFICES ASSUME Init PROVE IInv
    OBVIOUS
  <2>1. FrontInv
    BY FreshFront DEF Init, FreshState
  <2>2. ProcessInv /\ Drained
    BY DEF Init, ProcessInit, ProcessInv, ProcessTypeOK, MainStages, Drained
  <2> QED
    BY <2>1, <2>2 DEF IInv
<1>2. IInv /\ [Next]_vars => IInv'
  <2> SUFFICES ASSUME IInv, [Next]_vars PROVE IInv'
    OBVIOUS
  <2>1. CASE ProcessSteps /\ Carry
    <3>1. ProcessInv' /\ (main' = "drain" => main = "drain" \/ InFlight = {})
      BY <2>1, ProcessKeeps DEF IInv
    <3>2. FrontInv' /\ (InFlight' = InFlight \/ exit' # "running")
      BY <2>1, CarryKeeps DEF IInv
    <3>3. main' = "drain" => exit' = "running"
      BY <3>1 DEF ProcessInv
    <3>4. Drained'
      BY <3>1, <3>2, <3>3 DEF IInv, Drained
    <3> QED
      BY <3>1, <3>2, <3>4 DEF IInv
  <2>2. CASE Tick
    <3>1. FrontInv'
      BY <2>2, TickKeeps DEF IInv
    <3>2. UNCHANGED <<processVars, req>>
      BY <2>2 DEF Tick
    <3> QED
      BY <3>1, <3>2 DEF IInv, ProcessInv, ProcessTypeOK, processVars, Drained, InFlight
  <2>3. ASSUME NEW r \in Requests,
               \/ Step(r)
               \/ \E c \in Clients, path \in Paths :
                    \E says \in {<<>>} \cup {<<d>> : d \in Clients \ {c}} : Arrive(r, c, path, says)
        PROVE  IInv'
    BY <2>3, RequestKeeps
  <2>4. CASE UNCHANGED vars
    <3>1. UNCHANGED processVars /\ UNCHANGED frontVars
      BY <2>4 DEF vars
    <3>2. ProcessInv' /\ Drained'
      BY <3>1 DEF IInv, ProcessInv, ProcessTypeOK, processVars, frontVars, Drained, InFlight
    <3>3. FrontInv'
      BY <3>1 DEF IInv, FrontInv, FrontTypeOK, AllBounded, SharedAccount, ClientAccounts,
                  Counted, frontVars
    <3> QED
      BY <3>2, <3>3 DEF IInv
  <2> QED
    BY <2>1, <2>2, <2>3, <2>4
    DEF Next, Main, Deadline, Serving, OSSignal, Panic, ProcessSteps
<1> QED
  BY <1>1, <1>2, PTL DEF Spec

\* At every moment the cache holds at most ipLimiterCacheSize buckets, no bucket is
\* above its burst or below zero, and the channel of the serving goroutine holds
\* at most one report.
THEOREM TypeCorrect == Spec => []TypeOK
<1>1. IInv => TypeOK
  <2> SUFFICES ASSUME IInv PROVE TypeOK
    OBVIOUS
  <2>1. \A l \in Limiters :
          /\ lim[l].global \in Nat /\ lim[l].global <= GlobalBurst(lim[l].globalRate)
          /\ GlobalBurst(lim[l].globalRate) \in Nat /\ IPBurst(lim[l].perIPRate) \in Nat
          /\ \A i \in Ids : lim[l].bucket[i] \in Nat /\ lim[l].bucket[i] <= IPBurst(lim[l].perIPRate)
          /\ Len(lim[l].perIP) <= CacheSize
    BY Bursts DEF IInv, FrontInv, FrontTypeOK, AllBounded, Bounded, Limiter
  <2>2. ASSUME NEW a \in Nat, NEW b \in Nat, a <= b PROVE a \in 0 .. b
    BY <2>2
  <2>3. ProcessTypeOK /\ req \in [Requests -> Request]
    BY DEF IInv, ProcessInv, FrontInv, FrontTypeOK
  <2> QED
    BY <2>1, <2>2, <2>3 DEF TypeOK, Request, Addresses
<1> QED
  BY <1>1, Inductive, PTL

\* Whatever the clients send and the cache drops, in any stretch of time a limiter
\* lets pass no more than its burst and its sustained rate.
THEOREM SharedBudget == Spec => []SharedLimit
<1>1. IInv => SharedLimit
  <2> SUFFICES ASSUME IInv, NEW l \in Limiters
               PROVE  passed[l] <= GlobalBurst(lim[l].globalRate)
    BY DEF SharedLimit
  <2>1. /\ passed[l] \in Nat /\ lim[l].global \in Nat /\ GlobalBurst(lim[l].globalRate) \in Nat
        /\ passed[l] + lim[l].global <= GlobalBurst(lim[l].globalRate)
    BY Bursts DEF IInv, FrontInv, FrontTypeOK, SharedAccount, Limiter
  <2> QED
    BY <2>1
<1> QED
  BY <1>1, Inductive, PTL

\* For any number of clients, requests and cache entries: no client takes from the
\* shared budget more than its own burst and rate, whatever it writes into
\* X-Forwarded-For and however its requests interleave.
THEOREM ClientBudget == Spec => []ClientShare
<1>1. IInv => ClientShare
  <2> SUFFICES ASSUME IInv, NEW l \in Limiters, NEW c \in Clients \ dropped[l]
               PROVE  drawn[l][c] <= IPBurst(lim[l].perIPRate)
    BY DEF ClientShare
  <2>1. /\ drawn[l][c] \in Nat /\ lim[l] \in Limiter /\ IPBurst(lim[l].perIPRate) \in Nat
        /\ Account(lim[l], c, drawn[l][c])
    BY Bursts DEF IInv, FrontInv, FrontTypeOK, ClientAccounts, Limiter
  <2>2. \A i \in Ids : lim[l].bucket[i] \in Nat
    BY <2>1 DEF Limiter
  <2>3. CASE \E i \in Ids : Has(lim[l], c, i)
    BY <2>1, <2>2, <2>3 DEF Account
  <2>4. CASE \A i \in Ids : ~Has(lim[l], c, i)
    BY <2>1, <2>4 DEF Account
  <2> QED
    BY <2>3, <2>4
<1> QED
  BY <1>1, Inductive, PTL

\* Once main waits for signals, a request in flight is cut off only by the 30 s
\* deadline, by a failed listener or by a panic, and nothing it uses is closed
\* under it.
THEOREM DrainIsSafe == Spec => DrainLosesNothing
<1> DEFINE A == /\ main \in {"select", "shutdown", "drain"}
                /\ serverErr # <<"error">>
                /\ InFlight # {}
                => exit' \in {"running", "deadline", "panic"} /\ ~closed'
<1>1. IInv /\ [Next]_vars => [A]_vars
  <2> SUFFICES ASSUME IInv, Next, main \in {"select", "shutdown", "drain"},
                      serverErr # <<"error">>, InFlight # {}
               PROVE  exit' \in {"running", "deadline", "panic"} /\ ~closed'
    OBVIOUS
  <2>1. main \in {"select", "shutdown"} /\ exit = "running" /\ ~closed
    BY DEF IInv, Drained, ProcessInv
  <2>2. main = "select" => serverErr = <<>>
    BY <2>1 DEF IInv, ProcessInv, ProcessTypeOK
  <2>3. CASE MainSteps(InFlight)
    BY <2>1, <2>2, <2>3
    DEF MainSteps, LoadConfig, OpenStores, CheckTLS, Listen, StartMetrics, ServerEnded,
        ShutdownReturns, DrainServerErr
  <2>4. CASE ShutdownDeadline(InFlight)
    BY <2>1, <2>4 DEF ShutdownDeadline, Exit
  <2>5. CASE Bind \/ ServeFails \/ ServeClosed
    BY <2>1, <2>5 DEF Bind, ServeFails, ServeClosed
  <2>6. CASE Signal
    BY <2>1, <2>6 DEF Signal, GoTo
  <2>8. CASE GoroutinePanics
    BY <2>1, <2>8 DEF GoroutinePanics, Exit
  <2>7. CASE UNCHANGED processVars
    BY <2>1, <2>7 DEF processVars
  <2> QED
    BY <2>3, <2>4, <2>5, <2>6, <2>7, <2>8
    DEF Next, Main, Deadline, Serving, OSSignal, Panic, Tick, Step, AllowIP, AllowGlobal, ToAdmin,
        Handle, Arrive
<1> QED
  BY <1>1, Inductive, PTL DEF Spec, DrainLosesNothing
============================================================================
