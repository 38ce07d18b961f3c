---------------------------- MODULE RouterProofs ----------------------------
(* The safety properties of Router hold for every topology, all routes and *)
(* any number of datagrams.                                                *)
EXTENDS Router, TLAPS

-----------------------------------------------------------------------------
(* The incremental checksum update agrees with a full computation.         *)

\* The sums a uint32_t holds.
Sum == 0..(Base * Base - 1)

\* Division by the base of the words.
LEMMA Division ==
    ASSUME NEW s \in Nat
    PROVE  /\ s \div Base \in Nat
           /\ s % Base \in Word
           /\ s = Base * (s \div Base) + (s % Base)
BY BaseAssumption DEF Word

\* A product that is smaller than its positive factor is zero.
LEMMA SmallProduct ==
    ASSUME NEW c \in Nat, NEW z \in Int, -c < c * z, c * z < c
    PROVE  z = 0
<1>1. CASE z >= 1
  <2>1. c * z >= c
    BY <1>1
  <2> QED
    BY <2>1
<1>2. CASE z <= -1
  <2>1. c * z <= -c
    BY <1>2
  <2> QED
    BY <2>1
<1> QED
    BY <1>1, <1>2

\* The two turns of the folding loop: they keep the sum modulo Base - 1, leave
\* a word without a carry and make zero of zero only, so of the two zeros of
\* the one's complement only one comes out of a sum that is not zero.
LEMMA FoldedSum ==
    ASSUME NEW s \in Sum
    PROVE  /\ Folded(s) \in Word
           /\ \E k \in Int : s = Folded(s) + (Base - 1) * k
           /\ Folded(s) = 0 <=> s = 0
<1> DEFINE q == s \div Base
           r == s % Base
           t == Carried(s)
           u == t \div Base
           v == t % Base
<1>0. s \in Nat /\ s < Base * Base
    BY BaseAssumption DEF Sum
<1>1. q \in Nat /\ r \in Word /\ s = Base * q + r
    BY <1>0, Division, Zenon
<1>2. t = r + q
    BY Zenon DEF Carried
<1> HIDE DEF q, r, t
<1>3. q < Base
  <2>1. ASSUME q >= Base PROVE FALSE
    <3>1. Base * q >= Base * Base
      BY <1>1, <2>1, BaseAssumption
    <3> QED
      BY <3>1, <1>0, <1>1, BaseAssumption DEF Word
  <2> QED
    BY <2>1, <1>1, BaseAssumption
<1>4. t \in Nat /\ t <= 2 * Base - 2
    BY <1>1, <1>2, <1>3, BaseAssumption DEF Word
<1>5. u \in Nat /\ v \in Word /\ t = Base * u + v
    BY <1>4, Division, Zenon
<1>6. Folded(s) = v + u
    BY Zenon DEF Folded, Carried, t
<1> HIDE DEF u, v
<1>7. u \in 0..1
  <2>1. ASSUME u >= 2 PROVE FALSE
    <3>1. Base * u >= Base * 2
      BY <1>5, <2>1, BaseAssumption
    <3> QED
      BY <3>1, <1>4, <1>5, BaseAssumption DEF Word
  <2> QED
    BY <2>1, <1>5
<1>8. (t = Base + v /\ u = 1) \/ (t = v /\ u = 0)
    BY <1>5, <1>7, BaseAssumption DEF Word
<1>9. Folded(s) \in Word
    BY <1>4, <1>5, <1>6, <1>8, BaseAssumption DEF Word
<1>10. s = Folded(s) + (Base - 1) * (q + u) /\ q + u \in Int
  <2>1. (Base - 1) * (q + u) = (Base - 1) * q + (Base - 1) * u
    BY <1>1, <1>7, BaseAssumption
  <2>2. (Base - 1) * q = Base * q - q
    BY <1>1, BaseAssumption
  <2>3. (Base - 1) * u = Base * u - u
    BY <1>7, BaseAssumption
  <2> QED
    BY <2>1, <2>2, <2>3, <1>1, <1>2, <1>5, <1>6, <1>7, BaseAssumption DEF Word
<1>11. s = 0 => Folded(s) = 0
  <2> SUFFICES ASSUME s = 0 PROVE Folded(s) = 0
    BY Zenon
  <2>1. q = 0 /\ r = 0
    BY <1>1, BaseAssumption DEF Word
  <2> QED
    BY <2>1, <1>2, <1>5, <1>6, <1>8, BaseAssumption DEF Word
<1>12. Folded(s) = 0 => s = 0
  <2> SUFFICES ASSUME Folded(s) = 0 PROVE s = 0
    BY Zenon
  <2>1. v = 0 /\ u = 0
    BY <1>5, <1>6, <1>7 DEF Word
  <2>2. q = 0 /\ r = 0
    BY <2>1, <1>1, <1>2, <1>8 DEF Word
  <2> QED
    BY <2>2, <1>1, BaseAssumption
<1> QED
    BY <1>9, <1>10, <1>11, <1>12, Zenon

\* csum_update16 (RFC 1624, as ip_forward uses it) returns what a new
\* computation over the header would: for every field that changes and every
\* sum of the other words but zero, which no IPv4 header has.
THEOREM UpdateAgrees ==
    ASSUME NEW rest \in 1..(Base * Base - Base), NEW old \in Word, NEW new \in Word
    PROVE  csum_update16(csum_fold(rest + old), old, new) = csum_fold(rest + new)
<1> DEFINE s == rest + old
           n == rest + new
           t == Folded(s) + Complement(old) + new
           B == Base - 1
<1>0. Base * Base \in Nat /\ Base * Base >= 2 * Base
    BY BaseAssumption
<1>1. s \in Sum /\ n \in Sum /\ s # 0 /\ n # 0
    BY <1>0, BaseAssumption DEF Word, Sum
<1>2. Folded(s) \in 1..B
    BY <1>1, FoldedSum, BaseAssumption DEF Word
<1>3. Folded(n) \in 1..B
    BY <1>1, FoldedSum, BaseAssumption DEF Word
<1>4. t \in 1..(3 * B) /\ t = Folded(s) + B - old + new
    BY <1>2, BaseAssumption DEF Word, Complement
<1>5. csum_update16(csum_fold(s), old, new) = Complement(Folded(t))
  <2>1. Complement(Complement(Folded(s))) = Folded(s)
    BY <1>2, BaseAssumption DEF Complement
  <2> QED
    BY <2>1, Zenon DEF csum_update16, csum_fold
<1>6. t \in Sum /\ t # 0
  <2>1. Base * Base - 1 >= 3 * B
    BY BaseAssumption
  <2> QED
    BY <2>1, <1>0, <1>4, BaseAssumption DEF Sum
<1>7. Folded(t) \in 1..B
    BY <1>6, FoldedSum, BaseAssumption DEF Word
<1>8. PICK i \in Int : s = Folded(s) + B * i
    BY <1>1, FoldedSum, Zenon
<1>9. PICK j \in Int : n = Folded(n) + B * j
    BY <1>1, FoldedSum, Zenon
<1>10. PICK k \in Int : t = Folded(t) + B * k
    BY <1>6, FoldedSum, Zenon
<1>11. s = rest + old /\ n = rest + new /\ B \in Nat
    BY BaseAssumption
<1>12. csum_fold(n) = Complement(Folded(n))
    BY Zenon DEF csum_fold
<1> HIDE DEF s, n, t, B
<1>13. Folded(t) = Folded(n)
  <2> DEFINE z == j - i + 1 - k
  <2>1. B * z = B * j - B * i + B - B * k /\ z \in Int
    BY <1>11
  <2>2. Folded(t) - Folded(n) = B * z
    BY <2>1, <1>2, <1>3, <1>4, <1>7, <1>8, <1>9, <1>10, <1>11 DEF Word
  <2> HIDE DEF z
  <2>3. -B < B * z /\ B * z < B
    BY <2>2, <1>3, <1>7, <1>11
  <2>4. z = 0
    BY <2>1, <2>3, <1>11, SmallProduct, Zenon
  <2> QED
    BY <2>2, <2>4, <1>3, <1>7, <1>11
<1> QED
    BY <1>5, <1>12, <1>13, Zenon DEF s, n

\* What a sender computes, a receiver accepts: the sum over a header with its
\* checksum folds to zero.
THEOREM VerifyAccepts ==
    ASSUME NEW sum \in 1..(Base * Base - Base)
    PROVE  csum_fold(sum + csum_fold(sum)) = 0 /\ csum_fold(sum) \in Word
<1> DEFINE B == Base - 1
           t == sum + B - Folded(sum)
<1>0. Base * Base \in Nat /\ B \in Nat
    BY BaseAssumption
<1>1. sum \in Sum /\ sum # 0
    BY <1>0, BaseAssumption DEF Sum
<1>2. Folded(sum) \in 1..B
    BY <1>1, FoldedSum, BaseAssumption DEF Word
<1>3. csum_fold(sum) = B - Folded(sum)
    BY Zenon DEF csum_fold, Complement
<1>4. t = sum + csum_fold(sum) /\ t \in Sum /\ t # 0
    BY <1>0, <1>2, <1>3, BaseAssumption DEF Sum
<1>5. Folded(t) \in 1..B
    BY <1>4, FoldedSum, BaseAssumption DEF Word
<1>6. PICK i \in Int : sum = Folded(sum) + B * i
    BY <1>1, FoldedSum, Zenon
<1>7. PICK j \in Int : t = Folded(t) + B * j
    BY <1>4, FoldedSum, Zenon
<1>8. t = sum + B - Folded(sum)
    BY Zenon
<1>9. csum_fold(t) = B - Folded(t)
    BY Zenon DEF csum_fold, Complement
<1>10. csum_fold(sum) \in Word
    BY <1>2, <1>3, <1>0, BaseAssumption DEF Word
<1> HIDE DEF t, B
<1>11. Folded(t) = B
  <2> DEFINE z == j - i
  <2>1. B * z = B * j - B * i /\ z \in Int
    BY <1>0
  <2>2. B * i \in Int /\ B * j \in Int /\ Folded(t) \in Int /\ Folded(sum) \in Int
    BY <1>0, <1>2, <1>5
  <2>3. Folded(t) + B * j = B * i + B
    BY <2>2, <1>0, <1>6, <1>7, <1>8
  <2>4. B - Folded(t) = B * z
    BY <2>1, <2>2, <2>3, <1>0
  <2> HIDE DEF z
  <2>5. -B < B * z /\ B * z < B
    BY <2>1, <2>4, <1>0, <1>5
  <2>6. z = 0
    BY <2>1, <2>5, <1>0, SmallProduct, Zenon
  <2> QED
    BY <2>4, <2>6, <1>0, <1>5
<1> QED
    BY <1>4, <1>9, <1>10, <1>11, <1>0, <1>5

-----------------------------------------------------------------------------
(* The inductive invariant.                                                *)

Unicast(addr) == \E n \in Nodes : stack_owns_ip(n, addr)

\* The checksum is that of a new computation.
Exact(d) ==
    /\ d \in Datagram
    /\ d.csum = csum_fold(d.rest + ttl_word(d.ttl, d.what))

\* What is known of a datagram on the wire, by the datagram of Sends that it
\* comes from.
Honest(d) ==
    /\ Unicast(d.src)
    /\ \E s \in sent : s.id = d.id
    /\ d.what = "error" => /\ d.dst = d.quote.src
                           /\ d.quote.what # "error" /\ ~d.quote.later
    /\ d.what = "echo" => \E s \in sent : /\ s.id = d.id /\ s.what = "echo"
                                          /\ d.dst = s.dst /\ stack_owns_ip(s.from, d.src)
    /\ d.what = "reply" => \E s \in sent : /\ s.id = d.id /\ s.what = "echo"
                                           /\ d.src = s.dst /\ stack_owns_ip(s.from, d.dst)

FrameOK(f) ==
    /\ f.to \in Nodes /\ f.by \in Nodes
    /\ Exact(f.d)
    /\ Honest(f.d)
    /\ f.by \notin Routers => stack_owns_ip(f.by, f.d.src)

Entry == [id : Nat, src : Addr, sport : Nat, size : 0..2]

EntryOK(p) == Unicast(p.src) /\ \E s \in sent : s.id = p.id

Queues ==
    /\ rxq \in [Bound -> Seq(Entry)]
    /\ \A b \in Bound : /\ Len(rxq[b]) <= PF_SOCK_RXQ_CAP
                        /\ \A i \in 1..Len(rxq[b]) : EntryOK(rxq[b][i])

IInv ==
    /\ via = [n \in Nodes |-> via[n]]
    /\ \A n \in Nodes : IsTable(n, via[n])
    /\ \A f \in net : FrameOK(f)
    /\ sent \subseteq Sends
    /\ Queues
    /\ OneOfEach

-----------------------------------------------------------------------------
(* The operators.                                                          *)

\* An address of a node is an address.
LEMMA UnicastAddr ==
    ASSUME NEW addr, Unicast(addr)
    PROVE  addr \in Addr /\ addr[2] # Bcast
BY RouterConstants DEF Unicast, stack_owns_ip, Addr

\* There is at most one route, and its device is one of the node's.
LEMMA OneRoute ==
    ASSUME NEW n \in Nodes, NEW dst, IsTable(n, via[n])
    PROVE  /\ \A r \in ip_route_lookup(n, dst) : r.dev \in Attached[n]
           /\ \A q, r \in ip_route_lookup(n, dst) : q = r
BY DEF IsTable, ip_route_lookup

\* A next hop has at most one owner.
LEMMA OneFrame ==
    ASSUME NEW n \in Nodes, NEW dev, NEW hop, NEW d
    PROVE  /\ \A f \in Frames(n, dev, hop, d) : f.to \in Nodes /\ f.by = n /\ f.d = d
           /\ \A f, g \in Frames(n, dev, hop, d) : f = g
BY DEF Frames, Frame, Others

\* The word of TTL and protocol is a word, and together with the rest of the
\* header it is a sum the checksum is right for.
LEMMA HeaderWord ==
    ASSUME NEW ttl \in 0..255, NEW what \in Kinds, NEW rest \in Rests
    PROVE  /\ ttl_word(ttl, what) \in Word
           /\ rest \in 1..(Base * Base - Base)
           /\ rest + ttl_word(ttl, what) \in 1..(Base * Base - Base)
<1>1. proto(what) \in 1..47
    BY DEF proto, Kinds
<1>2. ttl_word(ttl, what) \in Nat /\ ttl_word(ttl, what) < 256 * 256
    BY <1>1 DEF ttl_word
<1>3. ttl_word(ttl, what) \in Word
    BY <1>2, RouterConstants, BaseAssumption DEF Word
<1>4. rest \in Nat /\ rest >= 1 /\ rest <= 28 * Base
    BY RouterConstants, BaseAssumption
<1>5. Base * Base >= 256 * Base /\ Base * Base \in Nat
    BY RouterConstants, BaseAssumption
<1> QED
    BY <1>3, <1>4, <1>5, BaseAssumption DEF Word

Ttl == 0..255

L4 == [id : Nat, what : Kinds, size : 0..2, sport : Nat, dport : Nat,
       quote : [what : Kinds, src : Addr, later : BOOLEAN] \cup {None},
       later : BOOLEAN, df : BOOLEAN]

\* The TTL of what the stack originates.
LEMMA DefaultTtl == IP_DEFAULT_TTL \in Ttl
BY RouterConstants DEF Ttl

\* ip_output computes the checksum.
LEMMA NewHeader ==
    ASSUME NEW src \in Addr, NEW dst \in Addr, NEW ttl \in Ttl, NEW rest \in Rests,
           NEW l4 \in L4
    PROVE  Exact(Header(src, dst, ttl, rest, l4))
<1>1. ttl \in 0..255 /\ l4.what \in Kinds
    BY Zenon DEF Ttl, L4
<1>2. csum_fold(rest + ttl_word(ttl, l4.what)) \in Word
    BY <1>1, HeaderWord, VerifyAccepts, Zenon
<1> QED
    BY <1>1, <1>2, Zenon DEF Exact, Header, Datagram, L4

With(d, ttl, csum) == [d EXCEPT !.ttl = ttl, !.csum = csum]

\* A datagram with another TTL and checksum is a datagram.
LEMMA WithTtl ==
    ASSUME NEW d \in Datagram, NEW ttl \in Ttl, NEW csum \in Word
    PROVE  /\ With(d, ttl, csum) \in Datagram
           /\ With(d, ttl, csum).ttl = ttl /\ With(d, ttl, csum).csum = csum
           /\ With(d, ttl, csum).rest = d.rest
           /\ With(d, ttl, csum).id = d.id /\ With(d, ttl, csum).what = d.what /\ With(d, ttl, csum).src = d.src
           /\ With(d, ttl, csum).dst = d.dst /\ With(d, ttl, csum).quote = d.quote
BY ZenonT(60) DEF Datagram, With, Ttl

\* ip_forward keeps it right.
LEMMA ForwardedHeader ==
    ASSUME NEW d, Exact(d), d.ttl > 1
    PROVE  /\ Exact(Forwarded(d))
           /\ Forwarded(d).id = d.id /\ Forwarded(d).what = d.what /\ Forwarded(d).src = d.src
           /\ Forwarded(d).dst = d.dst /\ Forwarded(d).quote = d.quote
<1> DEFINE old == ttl_word(d.ttl, d.what)
           new == ttl_word(d.ttl - 1, d.what)
<1>1. d.ttl \in 0..255 /\ d.ttl - 1 \in 0..255 /\ d.what \in Kinds /\ d.rest \in Rests
    BY DEF Exact, Datagram
<1>2. old \in Word /\ new \in Word /\ d.rest \in 1..(Base * Base - Base)
      /\ d.rest + new \in 1..(Base * Base - Base)
    BY <1>1, HeaderWord, ZenonT(60)
<1>3. csum_update16(csum_fold(d.rest + old), old, new) = csum_fold(d.rest + new)
    BY <1>2, UpdateAgrees, Zenon
<1>4. csum_fold(d.rest + new) \in Word
    BY <1>2, VerifyAccepts, Zenon
<1>5. d.csum = csum_fold(d.rest + old) /\ d \in Datagram
    BY Zenon DEF Exact
<1>6. Forwarded(d) = With(d, d.ttl - 1, csum_fold(d.rest + new))
    BY <1>3, <1>5, ZenonT(60) DEF Forwarded, With
<1>7. new = ttl_word(d.ttl - 1, d.what)
    BY Zenon
<1> HIDE DEF old, new
<1>8. PICK ttl \in Ttl : ttl = d.ttl - 1
    BY <1>1, Zenon DEF Ttl
<1>9. PICK csum \in Word : csum = csum_fold(d.rest + new)
    BY <1>4, Zenon
<1>10. Forwarded(d) = With(d, ttl, csum)
    BY <1>6, <1>8, <1>9, Zenon
<1>11. /\ Forwarded(d) \in Datagram
       /\ Forwarded(d).ttl = ttl /\ Forwarded(d).csum = csum
       /\ Forwarded(d).rest = d.rest
       /\ Forwarded(d).id = d.id /\ Forwarded(d).what = d.what /\ Forwarded(d).src = d.src
       /\ Forwarded(d).dst = d.dst /\ Forwarded(d).quote = d.quote
    BY <1>5, <1>10, WithTtl
<1>12. Exact(Forwarded(d))
    BY <1>7, <1>8, <1>9, <1>11, Zenon DEF Exact
<1> QED
    BY <1>11, <1>12, Zenon

\* What ip_output sends: headers with the source asked for, or one of the
\* node's own; and one frame at most unless to a broadcast address.
LEMMA Output ==
    ASSUME NEW n \in Nodes, NEW src, NEW dst, NEW ttl, NEW rest, NEW l4, IsTable(n, via[n])
    PROVE  /\ \A f \in ip_output(n, src, dst, ttl, rest, l4) :
                 /\ f.to \in Nodes /\ f.by = n
                 /\ \E x : /\ f.d = Header(x, dst, ttl, rest, l4)
                           /\ IF src = None THEN stack_owns_ip(n, x) ELSE x = src
           /\ dst[2] # Bcast =>
                 \A f, g \in ip_output(n, src, dst, ttl, rest, l4) : f = g
<1> DEFINE X(r) == IF src = None THEN <<r.dev, n>> ELSE src
           H(r) == Header(X(r), dst, ttl, rest, l4)
           R == ip_route_lookup(n, dst)
<1>1. ip_output(n, src, dst, ttl, rest, l4) =
          UNION {ip_output_one(n, r, H(r)) : r \in {q \in R : dst # <<q.dev, n>>}}
    BY Zenon DEF ip_output
<1>2. ASSUME NEW r \in R, NEW f \in ip_output_one(n, r, H(r))
      PROVE  f.to \in Nodes /\ f.by = n /\ f.d = H(r)
    BY <1>2, OneFrame DEF ip_output_one, Frame, Others
<1>3. ASSUME NEW r \in R
      PROVE  IF src = None THEN stack_owns_ip(n, X(r)) ELSE X(r) = src
    BY <1>3, OneRoute, Zenon DEF stack_owns_ip
<1>4. ASSUME NEW f \in ip_output(n, src, dst, ttl, rest, l4)
      PROVE  /\ f.to \in Nodes /\ f.by = n
             /\ \E x : /\ f.d = Header(x, dst, ttl, rest, l4)
                       /\ IF src = None THEN stack_owns_ip(n, x) ELSE x = src
  <2>1. PICK r \in R : f \in ip_output_one(n, r, H(r))
    BY <1>1, <1>4, Zenon
  <2> QED
    BY <2>1, <1>2, <1>3, Zenon
<1>5. ASSUME dst[2] # Bcast,
             NEW f \in ip_output(n, src, dst, ttl, rest, l4),
             NEW g \in ip_output(n, src, dst, ttl, rest, l4)
      PROVE  f = g
  <2>1. PICK r \in R : f \in ip_output_one(n, r, H(r))
    BY <1>1, <1>5, Zenon
  <2>2. PICK q \in R : g \in ip_output_one(n, q, H(q))
    BY <1>1, <1>5, Zenon
  <2>3. q = r
    BY OneRoute, Zenon
  <2>4. H(r).dst # <<r.dev, Bcast>>
    BY <1>5 DEF Header
  <2>5. ip_output_one(n, r, H(r)) = Frames(n, r.dev, r.hop, H(r))
    BY <2>4, Zenon DEF ip_output_one
  <2> QED
    BY <2>1, <2>2, <2>3, <2>5, OneFrame
<1> QED
    BY <1>4, <1>5, Zenon

\* What holds of the datagrams a node originates: they are its own, and their
\* checksum is right.
LEMMA Originated ==
    ASSUME NEW n \in Nodes, IsTable(n, via[n]), NEW src, src = None \/ stack_owns_ip(n, src),
           NEW dst \in Addr, NEW ttl \in Ttl, NEW rest \in Rests, NEW l4 \in L4,
           NEW g \in ip_output(n, src, dst, ttl, rest, l4)
    PROVE  /\ g.to \in Nodes /\ g.by = n
           /\ Exact(g.d)
           /\ stack_owns_ip(n, g.d.src) /\ Unicast(g.d.src) /\ (src # None => g.d.src = src)
           /\ g.d.dst = dst
           /\ g.d.id = l4.id /\ g.d.what = l4.what /\ g.d.quote = l4.quote
<1>1. /\ g.to \in Nodes /\ g.by = n
      /\ \E x : /\ g.d = Header(x, dst, ttl, rest, l4)
                /\ IF src = None THEN stack_owns_ip(n, x) ELSE x = src
    BY Output
<1>2. PICK x : /\ g.d = Header(x, dst, ttl, rest, l4)
               /\ IF src = None THEN stack_owns_ip(n, x) ELSE x = src
    BY <1>1, Zenon
<1>3. stack_owns_ip(n, x) /\ Unicast(x) /\ x \in Addr
    BY <1>2, UnicastAddr, Zenon DEF Unicast
<1>4. Exact(g.d)
    BY <1>2, <1>3, NewHeader, Zenon
<1>5. /\ g.d.src = x /\ g.d.dst = dst /\ g.d.id = l4.id /\ g.d.what = l4.what
      /\ g.d.quote = l4.quote
    BY <1>2 DEF Header
<1> QED
    BY <1>1, <1>2, <1>3, <1>4, <1>5, Zenon

-----------------------------------------------------------------------------
(* One step.                                                               *)

\* A frame is replaced by at most one that continues it.
Swap(f) ==
    /\ \E fs : /\ net' = (net \ {f}) \cup fs
               /\ \A g \in fs : FrameOK(g) /\ g.d.id = f.d.id
               /\ \A g, h \in fs : g = h
    /\ rxq' = rxq

\* Replacing a frame so keeps the invariant.
LEMMA SwapStep ==
    ASSUME IInv, NEW f \in net, Swap(f), UNCHANGED <<via, sent>>
    PROVE  IInv'
<1>1. PICK fs : /\ net' = (net \ {f}) \cup fs
                /\ \A g \in fs : FrameOK(g) /\ g.d.id = f.d.id
                /\ \A g, h \in fs : g = h
    BY Zenon DEF Swap
<1>2. rxq' = rxq
    BY Zenon DEF Swap
<1>3. \A g \in net' : FrameOK(g)'
  <2> SUFFICES ASSUME NEW g \in net' PROVE FrameOK(g)'
    BY Zenon
  <2>1. FrameOK(g)
    BY <1>1, Zenon DEF IInv
  <2> QED
    BY <2>1, Zenon DEF FrameOK, Honest
<1>4. Queues'
    BY <1>2, ZenonT(60) DEF IInv, Queues, EntryOK
<1>5. OneOfEach'
  <2> SUFFICES ASSUME NEW s \in sent, s.dst[2] # Bcast
               PROVE  /\ \A g, h \in InFrames(s.id)' : g = h
                      /\ \A p, o \in InQueues(s.id)' : p = o
                      /\ InFrames(s.id)' = {} \/ InQueues(s.id)' = {}
    BY Zenon DEF OneOfEach
  <2>1. InQueues(s.id)' = InQueues(s.id)
    BY <1>2, Zenon DEF InQueues
  <2>2. /\ \A g, h \in InFrames(s.id) : g = h
        /\ \A p, o \in InQueues(s.id) : p = o
        /\ InFrames(s.id) = {} \/ InQueues(s.id) = {}
    BY Zenon DEF IInv, OneOfEach
  <2>3. CASE f.d.id # s.id
    <3>1. InFrames(s.id)' \subseteq InFrames(s.id)
      BY <2>3, <1>1, Zenon DEF InFrames
    <3> QED
      BY <3>1, <2>1, <2>2, Zenon
  <2>4. CASE f.d.id = s.id
    <3>1. InFrames(s.id) = {f}
      BY <2>2, <2>4, Zenon DEF InFrames
    <3>2. InFrames(s.id)' \subseteq fs
      BY <3>1, <1>1, Zenon DEF InFrames
    <3> QED
      BY <3>1, <3>2, <1>1, <2>1, <2>2, Zenon
  <2> QED
    BY <2>3, <2>4, Zenon
<1> QED
    BY <1>3, <1>4, <1>5, Zenon DEF IInv

\* A frame that is dropped.
LEMMA DropSwaps ==
    ASSUME NEW f, Becomes(f, {}), rxq' = rxq
    PROVE  Swap(f)
<1>1. \E fs : /\ net' = (net \ {f}) \cup fs
              /\ \A g \in fs : FrameOK(g) /\ g.d.id = f.d.id
              /\ \A g, h \in fs : g = h
  <2> WITNESS {}
  <2> QED
    BY Zenon DEF Becomes
<1> QED
    BY <1>1, Zenon DEF Swap

\* What icmp_send_error does with the frame.
LEMMA ErrorSwaps ==
    ASSUME IInv, NEW f \in net, icmp_send_error(f.to, f), rxq' = rxq
    PROVE  Swap(f)
<1> DEFINE d == f.d
           n == f.to
           l4 == Message(d.id, "error", 1, 0, 0, Quoted(d))
<1>1. CASE Becomes(f, {})
    BY <1>1, DropSwaps, Zenon
<1>2. CASE /\ MayErr(d)
           /\ \E rest \in Rests : Becomes(f, ip_output(n, None, d.src, IP_DEFAULT_TTL, rest, l4))
  <2>1. PICK rest \in Rests : Becomes(f, ip_output(n, None, d.src, IP_DEFAULT_TTL, rest, l4))
    BY <1>2, Zenon
  <2> DEFINE fs == ip_output(n, None, d.src, IP_DEFAULT_TTL, rest, l4)
  <2>2. FrameOK(f) /\ n \in Nodes /\ IsTable(n, via[n]) /\ d \in Datagram
    BY Zenon DEF IInv, FrameOK, Exact
  <2>3. d.src \in Addr /\ d.src[2] # Bcast
    BY <2>2, UnicastAddr, Zenon DEF FrameOK, Honest
  <2>4. l4.id = d.id /\ l4.what = "error" /\ l4.quote = Quoted(d)
    BY Zenon DEF Message
  <2>5. l4 \in L4
    <3>1. Quoted(d) \in [what : Kinds, src : Addr, later : BOOLEAN] /\ d.id \in Nat
      BY <2>2, <2>3, Zenon DEF Quoted, Datagram
    <3> QED
      BY <3>1, SMTT(60) DEF L4, Kinds, Message
  <2>6. Quoted(d).src = d.src /\ Quoted(d).what # "error" /\ ~Quoted(d).later
    BY <1>2, Zenon DEF Quoted, MayErr
  <2> HIDE DEF l4
  <2>7. ASSUME NEW g \in fs PROVE FrameOK(g) /\ g.d.id = d.id
    <3>1. /\ g.to \in Nodes /\ g.by = n /\ Exact(g.d)
          /\ stack_owns_ip(n, g.d.src) /\ Unicast(g.d.src) /\ g.d.dst = d.src
          /\ g.d.id = d.id /\ g.d.what = "error" /\ g.d.quote = Quoted(d)
      BY <2>2, <2>3, <2>4, <2>5, <2>7, DefaultTtl, Originated, SMTT(60)
    <3>2. Honest(g.d)
      BY <2>2, <2>6, <3>1, Zenon DEF Honest, FrameOK
    <3> QED
      BY <2>2, <3>1, <3>2, Zenon DEF FrameOK
  <2>8. \A g, h \in fs : g = h
    BY <2>2, <2>3, Output, Zenon
  <2> HIDE DEF fs
  <2> QED
    BY <2>1, <2>7, <2>8, Zenon DEF Swap, Becomes, fs
<1> QED
    BY <1>1, <1>2, Zenon DEF icmp_send_error

\* An echo request that reached the node it is for becomes the reply.
LEMMA ReplySwaps ==
    ASSUME IInv, NEW f \in net, stack_owns_ip(f.to, f.d.dst), icmp_input(f.to, f)
    PROVE  Swap(f)
<1> DEFINE d == f.d
           n == f.to
           l4 == Message(d.id, "reply", d.size, 0, 0, None)
<1>0. rxq' = rxq
    BY Zenon DEF icmp_input
<1>1. CASE Becomes(f, {})
    BY <1>0, <1>1, DropSwaps, Zenon
<1>2. CASE /\ d.what = "echo"
           /\ \E rest \in Rests : Becomes(f, ip_output(n, d.dst, d.src, IP_DEFAULT_TTL, rest, l4))
  <2>1. PICK rest \in Rests : Becomes(f, ip_output(n, d.dst, d.src, IP_DEFAULT_TTL, rest, l4))
    BY <1>2, Zenon
  <2> DEFINE fs == ip_output(n, d.dst, d.src, IP_DEFAULT_TTL, rest, l4)
  <2>2. FrameOK(f) /\ n \in Nodes /\ IsTable(n, via[n]) /\ d \in Datagram
    BY Zenon DEF IInv, FrameOK, Exact
  <2>3. d.src \in Addr /\ d.src[2] # Bcast /\ d.dst # None
    BY <2>2, UnicastAddr, RouterConstants, ZenonT(60) DEF FrameOK, Honest, Datagram
  <2>4. l4.id = d.id /\ l4.what = "reply"
    BY Zenon DEF Message
  <2>5. l4 \in L4
    BY <2>2, Zenon DEF L4, Kinds, Message, Datagram
  <2> HIDE DEF l4
  <2>6. ASSUME NEW g \in fs PROVE FrameOK(g) /\ g.d.id = d.id
    <3>1. /\ g.to \in Nodes /\ g.by = n /\ Exact(g.d)
          /\ stack_owns_ip(n, g.d.src) /\ Unicast(g.d.src) /\ g.d.src = d.dst
          /\ g.d.dst = d.src /\ g.d.id = d.id /\ g.d.what = "reply"
      BY <2>2, <2>3, <2>4, <2>5, <2>6, DefaultTtl, Originated, SMTT(60)
    <3>2. Honest(g.d)
      BY <1>2, <2>2, <3>1, Zenon DEF Honest, FrameOK
    <3> QED
      BY <2>2, <3>1, <3>2, Zenon DEF FrameOK
  <2>7. \A g, h \in fs : g = h
    BY <2>2, <2>3, Output, Zenon
  <2> HIDE DEF fs
  <2> QED
    BY <1>0, <2>1, <2>6, <2>7, Zenon DEF Swap, Becomes, fs
<1> QED
    BY <1>1, <1>2, Zenon DEF icmp_input

\* A frame that is forwarded, by a router.
LEMMA ForwardSwaps ==
    ASSUME IInv, NEW f \in net, f.to \in Routers, rxq' = rxq, ip_forward(f.to, f)
    PROVE  Swap(f)
<1> DEFINE d == f.d
           n == f.to
<1>1. CASE Becomes(f, {})
    BY <1>1, DropSwaps, Zenon
<1>2. CASE icmp_send_error(n, f)
    BY <1>2, ErrorSwaps, Zenon
<1>3. CASE d.ttl > 1 /\ \E r \in ip_route_lookup(n, d.dst) :
                            Becomes(f, Frames(n, r.dev, r.hop, Forwarded(d)))
  <2>1. PICK r : Becomes(f, Frames(n, r.dev, r.hop, Forwarded(d)))
    BY <1>3, Zenon
  <2> DEFINE fs == Frames(n, r.dev, r.hop, Forwarded(d))
  <2>2. FrameOK(f) /\ n \in Nodes
    BY Zenon DEF IInv, FrameOK
  <2>3. /\ Exact(Forwarded(d))
        /\ Forwarded(d).id = d.id /\ Forwarded(d).what = d.what /\ Forwarded(d).src = d.src
        /\ Forwarded(d).dst = d.dst /\ Forwarded(d).quote = d.quote
    BY <1>3, <2>2, ForwardedHeader, Zenon DEF FrameOK
  <2>4. Honest(Forwarded(d))
    BY <2>2, <2>3, Zenon DEF Honest, FrameOK
  <2>5. ASSUME NEW g \in fs PROVE FrameOK(g) /\ g.d.id = d.id
    <3>1. g.to \in Nodes /\ g.by = n /\ g.d = Forwarded(d)
      BY <2>2, <2>5, OneFrame, ZenonT(60)
    <3> QED
      BY <2>2, <2>3, <2>4, <3>1, Zenon DEF FrameOK
  <2>6. \A g, h \in fs : g = h
    BY <2>2, OneFrame, Zenon
  <2> HIDE DEF fs
  <2> QED
    BY <2>1, <2>5, <2>6, Zenon DEF Swap, Becomes, fs
<1> QED
    BY <1>1, <1>2, <1>3, Zenon DEF ip_forward

\* A datagram moves from a frame to the queue of a socket.
LEMMA QueueStep ==
    ASSUME IInv, NEW f \in net, NEW b \in Bound, ~QueueFull(rxq[b]),
           rxq' = [rxq EXCEPT ![b] = Append(@, [id |-> f.d.id, src |-> f.d.src,
                                                sport |-> f.d.sport, size |-> f.d.size])],
           Becomes(f, {}), UNCHANGED <<via, sent>>
    PROVE  IInv'
<1> DEFINE e == [id |-> f.d.id, src |-> f.d.src, sport |-> f.d.sport, size |-> f.d.size]
           n == Len(rxq[b]) + 1
<1>1. FrameOK(f) /\ f.d \in Datagram
    BY Zenon DEF IInv, FrameOK, Exact
<1>2. e \in Entry /\ EntryOK(e) /\ e.id = f.d.id
    BY <1>1, Zenon DEF Entry, EntryOK, Datagram, FrameOK, Honest
<1> HIDE DEF e
<1>3. rxq \in [Bound -> Seq(Entry)] /\ rxq' = [rxq EXCEPT ![b] = Append(rxq[b], e)]
    BY Zenon DEF IInv, Queues, e
<1>4. rxq' \in [Bound -> Seq(Entry)]
    BY <1>2, <1>3
<1>5. /\ \A c \in Bound \ {b} : rxq'[c] = rxq[c]
      /\ rxq'[b] = Append(rxq[b], e) /\ rxq[b] \in Seq(Entry)
    BY <1>3, Zenon
<1>6. /\ Len(rxq'[b]) = n /\ rxq'[b][n] = e /\ n \in Nat
      /\ \A i \in 1..Len(rxq[b]) : rxq'[b][i] = rxq[b][i]
    BY <1>2, <1>5
<1>7. n = Len(rxq[b]) + 1 /\ Len(rxq[b]) \in Nat
    BY <1>5
<1> HIDE DEF n
<1>8. ASSUME NEW c \in Bound, NEW i \in 1..Len(rxq'[c])
      PROVE  IF c = b /\ i = n THEN rxq'[c][i] = e
             ELSE i \in 1..Len(rxq[c]) /\ rxq'[c][i] = rxq[c][i]
  <2>1. CASE c = b
    BY <1>6, <1>7, <1>8, <2>1
  <2>2. CASE c # b
    BY <1>5, <1>8, <2>2, Zenon
  <2> QED
    BY <2>1, <2>2, Zenon
<1>9. Queues'
  <2>1. ASSUME NEW c \in Bound, NEW i \in 1..Len(rxq'[c]) PROVE EntryOK(rxq'[c][i])
    BY <1>2, <1>8, Zenon DEF IInv, Queues
  <2>2. ASSUME NEW c \in Bound PROVE Len(rxq'[c]) <= PF_SOCK_RXQ_CAP
    <3>1. CASE c = b
      BY <3>1, <1>6, <1>7, RouterConstants DEF QueueFull
    <3>2. CASE c # b
      BY <3>2, <1>5, Zenon DEF IInv, Queues
    <3> QED
      BY <3>1, <3>2, Zenon
  <2> QED
    BY <1>4, <2>1, <2>2, ZenonT(60) DEF Queues, EntryOK
<1>10. \A g \in net' : FrameOK(g)'
    BY Zenon DEF IInv, Becomes, FrameOK, Honest
<1>11. ASSUME NEW id PROVE InFrames(id)' = InFrames(id) \ {f}
    BY Zenon DEF InFrames, Becomes
<1>12. ASSUME NEW id, NEW p \in InQueues(id)'
       PROVE  p \in InQueues(id) \/ (p = <<b, n>> /\ id = f.d.id)
  <2>1. /\ p \in Bound \X (1..PF_SOCK_RXQ_CAP)
        /\ p[2] <= Len(rxq'[p[1]]) /\ rxq'[p[1]][p[2]].id = id
    BY <1>12, Zenon DEF InQueues
  <2>2. p[1] \in Bound /\ p[2] \in 1..Len(rxq'[p[1]]) /\ p = <<p[1], p[2]>>
    <3>1. rxq'[p[1]] \in Seq(Entry) /\ p[1] \in Bound /\ p[2] \in Nat /\ p[2] >= 1
      BY <2>1, <1>4, RouterConstants, SMTT(60)
    <3> QED
      BY <2>1, <3>1, SMTT(60)
  <2>3. CASE p[1] = b /\ p[2] = n
    BY <2>1, <2>2, <2>3, <1>2, <1>8, Zenon
  <2>4. CASE ~(p[1] = b /\ p[2] = n)
    <3>1. p[2] \in 1..Len(rxq[p[1]]) /\ rxq'[p[1]][p[2]] = rxq[p[1]][p[2]]
      BY <2>2, <2>4, <1>8, Zenon
    <3>2. p[2] <= Len(rxq[p[1]])
      BY <2>2, <3>1, <1>3, SMTT(60)
    <3> QED
      BY <2>1, <3>1, <3>2, Zenon DEF InQueues
  <2> QED
    BY <2>3, <2>4, Zenon
<1>13. OneOfEach'
  <2> SUFFICES ASSUME NEW s \in sent, s.dst[2] # Bcast
               PROVE  /\ \A g, h \in InFrames(s.id)' : g = h
                      /\ \A p, o \in InQueues(s.id)' : p = o
                      /\ InFrames(s.id)' = {} \/ InQueues(s.id)' = {}
    BY ZenonT(60) DEF OneOfEach
  <2>1. /\ \A g, h \in InFrames(s.id) : g = h
        /\ \A p, o \in InQueues(s.id) : p = o
        /\ InFrames(s.id) = {} \/ InQueues(s.id) = {}
    BY ZenonT(60) DEF IInv, OneOfEach
  <2>2. CASE f.d.id # s.id
    BY <2>1, <2>2, <1>11, <1>12, Zenon
  <2>3. CASE f.d.id = s.id
    <3>1. InFrames(s.id) = {f}
      BY <2>1, <2>3, Zenon DEF InFrames
    <3>2. InQueues(s.id) = {} /\ InFrames(s.id)' = {}
      BY <2>1, <3>1, <1>11, Zenon
    <3> QED
      BY <3>2, <1>12, Zenon
  <2> QED
    BY <2>2, <2>3, Zenon
<1> QED
    BY <1>9, <1>10, <1>13, Zenon DEF IInv

\* Every branch of ip_input keeps the invariant.
LEMMA InputStep ==
    ASSUME IInv, NEW f \in net, ip_input(f)
    PROVE  IInv'
<1> DEFINE d == f.d
           n == f.to
<1>0. UNCHANGED <<via, sent>>
    BY Zenon DEF ip_input
<1>1. CASE Becomes(f, {}) /\ rxq' = rxq
    BY <1>0, <1>1, DropSwaps, SwapStep, Zenon
<1>2. CASE n \in Routers /\ ip_forward(n, f) /\ rxq' = rxq
    BY <1>0, <1>2, ForwardSwaps, SwapStep, Zenon
<1>3. CASE stack_owns_ip(n, d.dst) /\ icmp_input(n, f)
    BY <1>0, <1>3, ReplySwaps, SwapStep, Zenon
<1>4. CASE icmp_send_error(n, f) /\ rxq' = rxq
    BY <1>0, <1>4, ErrorSwaps, SwapStep, Zenon
<1>5. CASE udp_input(n, f)
  <2>1. CASE <<n, d.dport>> \in Bound /\ ~QueueFull(rxq[<<n, d.dport>>])
    <3>1. PICK b \in Bound : b = <<n, d.dport>>
      BY <2>1, Zenon
    <3>2. ~QueueFull(rxq[b]) /\ Becomes(f, {})
      BY <1>5, <2>1, <3>1, Zenon DEF udp_input, pf_sock_lookup_udp
    <3>3. rxq' = [rxq EXCEPT ![b] = Append(@, [id |-> f.d.id, src |-> f.d.src,
                                               sport |-> f.d.sport, size |-> f.d.size])]
      BY <1>5, <2>1, <3>1, ZenonT(60) DEF udp_input, pf_sock_lookup_udp
    <3> QED
      BY <1>0, <3>2, <3>3, QueueStep, ZenonT(60)
  <2>2. CASE ~(<<n, d.dport>> \in Bound /\ ~QueueFull(rxq[<<n, d.dport>>]))
    BY <1>1, <1>4, <1>5, <2>2, Zenon DEF udp_input, pf_sock_lookup_udp
  <2> QED
    BY <2>1, <2>2, Zenon
<1> QED
    BY <1>1, <1>2, <1>3, <1>4, <1>5, Zenon DEF ip_input, ip_local_deliver, Forwards

\* Frames and queues that only get fewer keep the invariant.
LEMMA FewerStep ==
    ASSUME IInv, UNCHANGED sent, net' \subseteq net,
           via' = [n \in Nodes |-> via'[n]], \A n \in Nodes : IsTable(n, via'[n]),
           \A b \in Bound : rxq'[b] = rxq[b] \/ rxq'[b] = <<>>, rxq' \in [Bound -> Seq(Entry)]
    PROVE  IInv'
<1>1. \A g \in net' : FrameOK(g)'
    BY Zenon DEF IInv, FrameOK, Honest
<1>2. Queues'
  <2>1. ASSUME NEW b \in Bound, NEW i \in 1..Len(rxq'[b]) PROVE EntryOK(rxq'[b][i])
    BY <2>1 DEF IInv, Queues
  <2>2. ASSUME NEW b \in Bound PROVE Len(rxq'[b]) <= PF_SOCK_RXQ_CAP
    BY RouterConstants DEF IInv, Queues
  <2> QED
    BY <2>1, <2>2, Zenon DEF Queues, EntryOK
<1>3. ASSUME NEW id PROVE InFrames(id)' \subseteq InFrames(id) /\ InQueues(id)' \subseteq InQueues(id)
  <2>1. InFrames(id)' \subseteq InFrames(id)
    BY Zenon DEF InFrames
  <2>2. ASSUME NEW p \in InQueues(id)' PROVE p \in InQueues(id)
    <3>1. /\ p \in Bound \X (1..PF_SOCK_RXQ_CAP)
          /\ p[2] <= Len(rxq'[p[1]]) /\ rxq'[p[1]][p[2]].id = id
      BY <2>2, Zenon DEF InQueues
    <3>2. p[1] \in Bound /\ p[2] \in Nat /\ p[2] >= 1
      BY <3>1, RouterConstants
    <3>3. rxq'[p[1]] = rxq[p[1]]
      BY <3>1, <3>2
    <3> QED
      BY <3>1, <3>3, Zenon DEF InQueues
  <2> QED
    BY <2>1, <2>2, Zenon
<1>4. OneOfEach'
    BY <1>3, ZenonT(60) DEF IInv, OneOfEach
<1> QED
    BY <1>1, <1>2, <1>4, Zenon DEF IInv

\* A datagram that is sent is the first with its id.
LEMMA SendStep ==
    ASSUME IInv, NEW s \in Sends, NEW rest \in Rests, host_sends(s, rest)
    PROVE  IInv'
<1> DEFINE l4 == [id |-> s.id, what |-> s.what, size |-> s.size,
                  sport |-> s.sport, dport |-> s.dport, quote |-> None,
                  later |-> s.later, df |-> s.df]
           fs == ip_output(s.from, None, s.dst, s.ttl, rest, l4)
<1>1. /\ s \notin sent /\ sent' = sent \cup {s} /\ net' = net \cup fs
      /\ via' = via /\ rxq' = rxq
    BY Zenon DEF host_sends
<1>2. /\ s.from \in Nodes /\ s.dst \in Addr /\ s.ttl \in Ttl /\ IsTable(s.from, via[s.from])
      /\ s.what \in {"echo", "udp", "other"}
    BY RouterConstants DEF IInv, Ttl
<1>3. l4.id = s.id /\ l4.what = s.what
    BY Zenon
<1>4. l4 \in L4
    BY RouterConstants DEF L4, Kinds
<1> HIDE DEF l4
<1>5. ASSUME NEW g \in fs
      PROVE  /\ g.to \in Nodes /\ g.by = s.from /\ Exact(g.d)
             /\ stack_owns_ip(s.from, g.d.src) /\ Unicast(g.d.src) /\ g.d.dst = s.dst
             /\ g.d.id = s.id /\ g.d.what = s.what
    BY <1>2, <1>3, <1>4, <1>5, Originated
<1>6. s.dst[2] # Bcast => \A g, h \in fs : g = h
    BY <1>2, Output, Zenon
<1> HIDE DEF fs
<1>7. \A g \in net' : FrameOK(g)'
  <2> SUFFICES ASSUME NEW g \in net' PROVE FrameOK(g)'
    BY Zenon
  <2>1. CASE g \in net
    <3>1. FrameOK(g)
      BY <2>1, Zenon DEF IInv
    <3>2. Honest(g.d)'
      BY <3>1, <1>1, Zenon DEF FrameOK, Honest
    <3> QED
      BY <3>1, <3>2, Zenon DEF FrameOK
  <2>2. CASE g \in fs
    <3>1. Honest(g.d)'
      BY <2>2, <1>1, <1>2, <1>5, Zenon DEF Honest
    <3> QED
      BY <2>2, <3>1, <1>2, <1>5, Zenon DEF FrameOK
  <2> QED
    BY <1>1, <2>1, <2>2, Zenon
<1>8. Queues'
    BY <1>1, ZenonT(60) DEF IInv, Queues, EntryOK
<1>9. ASSUME NEW t \in sent PROVE t.id # s.id
    BY <1>1, RouterConstants, ZenonT(60) DEF IInv
<1>10. InFrames(s.id) = {}
    BY <1>9, SMTT(60) DEF IInv, FrameOK, Honest, InFrames
<1>11. InQueues(s.id) = {}
  <2> SUFFICES ASSUME NEW p \in InQueues(s.id) PROVE FALSE
    BY Zenon
  <2>1. /\ p \in Bound \X (1..PF_SOCK_RXQ_CAP)
        /\ p[2] <= Len(rxq[p[1]]) /\ rxq[p[1]][p[2]].id = s.id
    BY Zenon DEF InQueues
  <2>2. p[1] \in Bound /\ p[2] \in 1..Len(rxq[p[1]])
    <3>1. rxq[p[1]] \in Seq(Entry) /\ p[1] \in Bound /\ p[2] \in Nat /\ p[2] >= 1
      BY <2>1, RouterConstants DEF IInv, Queues
    <3> QED
      BY <2>1, <3>1, SMTT(60)
  <2>3. EntryOK(rxq[p[1]][p[2]])
    BY <2>2, Zenon DEF IInv, Queues
  <2> QED
    BY <2>1, <2>3, <1>9, Zenon DEF EntryOK
<1>12. OneOfEach'
  <2>1. ASSUME NEW id PROVE InQueues(id)' = InQueues(id)
    BY <1>1, Zenon DEF InQueues
  <2>2. ASSUME NEW t \in sent PROVE InFrames(t.id)' = InFrames(t.id)
    BY <1>1, <1>5, <1>9, Zenon DEF InFrames
  <2>3. InFrames(s.id)' = fs
    BY <1>1, <1>5, <1>10, Zenon DEF InFrames
  <2>4. ASSUME NEW t \in sent', t.dst[2] # Bcast
        PROVE  /\ \A g, h \in InFrames(t.id)' : g = h
               /\ \A p, o \in InQueues(t.id)' : p = o
               /\ InFrames(t.id)' = {} \/ InQueues(t.id)' = {}
    <3>1. CASE t \in sent
      BY <3>1, <2>1, <2>2, <2>4, ZenonT(60) DEF IInv, OneOfEach
    <3>2. CASE t = s
      BY <3>2, <2>1, <2>3, <2>4, <1>6, <1>11, Zenon
    <3> QED
      BY <3>1, <3>2, <1>1, Zenon
  <2> QED
    BY <2>4, ZenonT(60) DEF OneOfEach
<1> QED
    BY <1>1, <1>7, <1>8, <1>12, Zenon DEF IInv

\* A program takes a datagram from its queue and may answer it.
LEMMA ReceiveStep ==
    ASSUME IInv, NEW b \in Bound, NEW rest \in Rests, pf_recvfrom(b, rest)
    PROVE  IInv'
<1> DEFINE p == Head(rxq[b])
           l4 == Message(p.id, "udp", p.size, b[2], p.sport, None)
           out == ip_output(b[1], None, p.src, IP_DEFAULT_TTL, rest, l4)
<1>1. /\ rxq[b] # <<>> /\ rxq' = [rxq EXCEPT ![b] = Tail(@)]
      /\ net' = net \/ net' = net \cup out
      /\ via' = via /\ sent' = sent
    BY ZenonT(60) DEF pf_recvfrom, udp_echo, pf_sendto, udp_output
<1>2. /\ rxq \in [Bound -> Seq(Entry)] /\ rxq[b] \in Seq(Entry)
      /\ Len(rxq[b]) <= PF_SOCK_RXQ_CAP /\ \A i \in 1..Len(rxq[b]) : EntryOK(rxq[b][i])
    BY Zenon DEF IInv, Queues
<1>3. /\ Len(rxq[b]) \in Nat /\ Len(rxq[b]) >= 1 /\ p = rxq[b][1] /\ p \in Entry
      /\ Tail(rxq[b]) \in Seq(Entry) /\ Len(Tail(rxq[b])) = Len(rxq[b]) - 1
      /\ \A i \in 1..(Len(rxq[b]) - 1) : Tail(rxq[b])[i] = rxq[b][i + 1]
    BY <1>1, <1>2
<1>4. EntryOK(p)
    BY <1>2, <1>3
<1>5. p.src \in Addr /\ p.src[2] # Bcast /\ b[1] \in Nodes /\ b[2] \in Nat
      /\ IsTable(b[1], via[b[1]])
    BY <1>4, UnicastAddr, RouterConstants, ZenonT(60) DEF EntryOK, IInv
<1>6. l4.id = p.id /\ l4.what = "udp"
    BY Zenon DEF Message
<1> HIDE DEF p
<1>7. l4 \in L4
  <2>1. p.id \in Nat /\ p.size \in 0..2 /\ p.sport \in Nat
    BY <1>3, Zenon DEF Entry
  <2> QED
    BY <2>1, <1>5, Zenon DEF L4, Kinds, Message
<1> HIDE DEF l4
<1>8. ASSUME NEW g \in out PROVE FrameOK(g) /\ g.d.id = p.id
  <2>1. /\ g.to \in Nodes /\ g.by = b[1] /\ Exact(g.d)
        /\ stack_owns_ip(b[1], g.d.src) /\ Unicast(g.d.src)
        /\ g.d.id = p.id /\ g.d.what = "udp"
    BY <1>5, <1>6, <1>7, <1>8, DefaultTtl, Originated, SMTT(60)
  <2>2. Honest(g.d)
    BY <2>1, <1>4, ZenonT(60) DEF Honest, EntryOK
  <2> QED
    BY <1>5, <2>1, <2>2, Zenon DEF FrameOK
<1>9. \A g, h \in out : g = h
    BY <1>5, Output, Zenon
<1> HIDE DEF out
<1>10. \A g \in net' : FrameOK(g)'
  <2>1. ASSUME NEW g \in net' PROVE FrameOK(g)
    BY <1>1, <1>8, Zenon DEF IInv
  <2> QED
    BY <2>1, <1>1, Zenon DEF FrameOK, Honest
<1>11. rxq' \in [Bound -> Seq(Entry)] /\ rxq'[b] = Tail(rxq[b])
       /\ \A c \in Bound \ {b} : rxq'[c] = rxq[c]
    BY <1>1, <1>2, <1>3, Zenon
<1>12. ASSUME NEW c \in Bound, NEW i \in 1..Len(rxq'[c])
       PROVE  IF c = b THEN /\ i + 1 \in 1..Len(rxq[b]) /\ rxq'[c][i] = rxq[b][i + 1]
                            /\ i + 1 # 1
              ELSE i \in 1..Len(rxq[c]) /\ rxq'[c][i] = rxq[c][i]
  <2>1. CASE c = b
    <3>1. i \in 1..Len(Tail(rxq[b]))
      BY <1>11, <1>12, <2>1, ZenonT(60)
    <3>2. i \in 1..(Len(rxq[b]) - 1) /\ i \in Nat
      BY <1>3, <3>1
    <3>3. rxq'[c][i] = rxq[b][i + 1]
      BY <1>3, <1>11, <2>1, <3>2, ZenonT(60)
    <3> QED
      BY <1>3, <2>1, <3>2, <3>3
  <2>2. CASE c # b
    BY <1>11, <1>12, <2>2, Zenon
  <2> QED
    BY <2>1, <2>2, Zenon
<1>13. Queues'
  <2>1. ASSUME NEW c \in Bound, NEW i \in 1..Len(rxq'[c]) PROVE EntryOK(rxq'[c][i])
    BY <1>2, <1>12, ZenonT(60) DEF IInv, Queues
  <2>2. ASSUME NEW c \in Bound PROVE Len(rxq'[c]) <= PF_SOCK_RXQ_CAP
    <3>1. CASE c = b
      BY <3>1, <1>2, <1>3, <1>11, RouterConstants
    <3>2. CASE c # b
      BY <3>2, <1>11, Zenon DEF IInv, Queues
    <3> QED
      BY <3>1, <3>2, Zenon
  <2> QED
    BY <1>1, <1>11, <2>1, <2>2, ZenonT(60) DEF Queues, EntryOK
<1>14. ASSUME NEW id, NEW x \in InQueues(id)'
       PROVE  /\ x[1] \in Bound /\ x[2] \in Nat /\ x = <<x[1], x[2]>>
              /\ IF x[1] = b THEN <<b, x[2] + 1>> \in InQueues(id) ELSE x \in InQueues(id)
  <2>1. /\ x \in Bound \X (1..PF_SOCK_RXQ_CAP)
        /\ x[2] <= Len(rxq'[x[1]]) /\ rxq'[x[1]][x[2]].id = id
    BY <1>14, Zenon DEF InQueues
  <2>2. /\ x[1] \in Bound /\ x[2] \in Nat /\ x[2] \in 1..Len(rxq'[x[1]])
        /\ x = <<x[1], x[2]>>
    <3>1. rxq'[x[1]] \in Seq(Entry) /\ x[1] \in Bound /\ x[2] \in Nat /\ x[2] >= 1
      BY <2>1, <1>11, RouterConstants
    <3> QED
      BY <2>1, <3>1, SMTT(60)
  <2>3. CASE x[1] = b
    <3>1. x[2] + 1 \in 1..Len(rxq[b]) /\ rxq[b][x[2] + 1].id = id
      BY <2>1, <2>2, <2>3, <1>12, Zenon
    <3>2. x[2] + 1 \in 1..PF_SOCK_RXQ_CAP /\ x[2] + 1 <= Len(rxq[b])
      BY <3>1, <1>2, <1>3, RouterConstants
    <3> QED
      BY <2>2, <2>3, <3>1, <3>2, Zenon DEF InQueues
  <2>4. CASE x[1] # b
    <3>1. x[2] \in 1..Len(rxq[x[1]]) /\ rxq[x[1]][x[2]].id = id
      BY <2>1, <2>2, <2>4, <1>12, Zenon
    <3>2. x[2] <= Len(rxq[x[1]])
      BY <2>2, <3>1, <1>2
    <3> QED
      BY <2>1, <2>2, <2>4, <3>1, <3>2, Zenon DEF InQueues
  <2> QED
    BY <2>3, <2>4, Zenon
<1>15. <<b, 1>> \in InQueues(p.id)
    BY <1>2, <1>3, RouterConstants, SMTT(60) DEF InQueues
<1>16. OneOfEach'
  <2> SUFFICES ASSUME NEW s \in sent, s.dst[2] # Bcast
               PROVE  /\ \A g, h \in InFrames(s.id)' : g = h
                      /\ \A x, y \in InQueues(s.id)' : x = y
                      /\ InFrames(s.id)' = {} \/ InQueues(s.id)' = {}
    BY <1>1, ZenonT(60) DEF OneOfEach
  <2>1. /\ \A g, h \in InFrames(s.id) : g = h
        /\ \A x, y \in InQueues(s.id) : x = y
        /\ InFrames(s.id) = {} \/ InQueues(s.id) = {}
    BY Zenon DEF IInv, OneOfEach
  <2>2. CASE p.id # s.id
    <3>1. InFrames(s.id)' = InFrames(s.id)
      BY <2>2, <1>1, <1>8, Zenon DEF InFrames
    <3>2. ASSUME NEW x \in InQueues(s.id)', NEW y \in InQueues(s.id)' PROVE x = y
      <4>1. CASE x[1] = b /\ y[1] = b
        <5>1. <<b, x[2] + 1>> = <<b, y[2] + 1>> /\ x[2] \in Nat /\ y[2] \in Nat
          BY <2>1, <3>2, <4>1, <1>14, ZenonT(60)
        <5>2. x = <<x[1], x[2]>> /\ y = <<y[1], y[2]>>
          BY <3>2, <1>14, ZenonT(60)
        <5>3. x[2] = y[2]
          BY <5>1
        <5> QED
          BY <4>1, <5>2, <5>3, Zenon
      <4>2. CASE x[1] = b /\ y[1] # b
        <5>1. <<b, x[2] + 1>> = y
          BY <2>1, <3>2, <4>2, <1>14, ZenonT(60)
        <5> QED
          BY <4>2, <5>1, Zenon
      <4>3. CASE x[1] # b /\ y[1] = b
        <5>1. x = <<b, y[2] + 1>>
          BY <2>1, <3>2, <4>3, <1>14, ZenonT(60)
        <5> QED
          BY <4>3, <5>1, Zenon
      <4>4. CASE x[1] # b /\ y[1] # b
        BY <2>1, <3>2, <4>4, <1>14, ZenonT(60)
      <4> QED
        BY <4>1, <4>2, <4>3, <4>4, Zenon
    <3>3. InQueues(s.id) = {} => InQueues(s.id)' = {}
      BY <1>14, ZenonT(60)
    <3> QED
      BY <2>1, <3>1, <3>2, <3>3, Zenon
  <2>3. CASE p.id = s.id
    <3>1. InFrames(s.id) = {} /\ \A x \in InQueues(s.id) : x = <<b, 1>>
      BY <2>1, <2>3, <1>15, Zenon
    <3>2. InQueues(s.id)' = {}
      <4> SUFFICES ASSUME NEW x \in InQueues(s.id)' PROVE FALSE
        BY Zenon
      <4>1. CASE x[1] = b
        <5>1. <<b, x[2] + 1>> = <<b, 1>> /\ x[2] \in Nat
          BY <3>1, <4>1, <1>14, ZenonT(60)
        <5>2. x[2] + 1 = 1
          BY <5>1, Zenon
        <5>3. x[2] >= 1
          BY RouterConstants DEF InQueues
        <5> QED
          BY <5>1, <5>2, <5>3
      <4>2. CASE x[1] # b
        <5>1. x = <<b, 1>>
          BY <3>1, <4>2, <1>14, ZenonT(60)
        <5> QED
          BY <4>2, <5>1, Zenon
      <4> QED
        BY <4>1, <4>2, Zenon
    <3>3. InFrames(s.id)' \subseteq out
      BY <3>1, <1>1, Zenon DEF InFrames
    <3> QED
      BY <3>2, <3>3, <1>9, Zenon
  <2> QED
    BY <2>2, <2>3, Zenon
<1> QED
    BY <1>1, <1>10, <1>13, <1>16, Zenon DEF IInv

\* Every step of Next keeps the invariant.
LEMMA StepInvariant ==
    ASSUME IInv, [Next]_vars
    PROVE  IInv'
<1>0. rxq \in [Bound -> Seq(Entry)]
    BY Zenon DEF IInv, Queues
<1>1. ASSUME NEW f \in net, ip_input(f) PROVE IInv'
    BY <1>1, InputStep, Zenon
<1>2. ASSUME NEW s \in Sends, NEW rest \in Rests, host_sends(s, rest) PROVE IInv'
    BY <1>2, SendStep, Zenon
<1>3. ASSUME NEW b \in Bound, NEW rest \in Rests, pf_recvfrom(b, rest) PROVE IInv'
    BY <1>3, ReceiveStep, Zenon
<1>4. ASSUME NEW n \in Nodes, NEW table \in Tables[n], cmd_ip_route(n, table) PROVE IInv'
  <2>1. via' = [via EXCEPT ![n] = table] /\ via = [m \in Nodes |-> via[m]]
    BY <1>4, Zenon DEF cmd_ip_route, IInv
  <2>2. via' = [m \in Nodes |-> via'[m]] /\ \A m \in Nodes : IsTable(m, via'[m])
    BY <1>4, <2>1, RouterConstants, ZenonT(60) DEF IInv
  <2> QED
    BY <1>0, <1>4, <2>2, FewerStep, Zenon DEF cmd_ip_route
<1>5. ASSUME NEW n \in Nodes, restart(n) PROVE IInv'
  <2>1. via' = [via EXCEPT ![n] = Startup[n]] /\ via = [m \in Nodes |-> via[m]]
    BY <1>5, Zenon DEF restart, IInv
  <2>2. via' = [m \in Nodes |-> via'[m]] /\ \A m \in Nodes : IsTable(m, via'[m])
    BY <2>1, RouterConstants, ZenonT(60) DEF IInv
  <2>3. /\ \A b \in Bound : rxq'[b] = rxq[b] \/ rxq'[b] = <<>>
        /\ rxq' \in [Bound -> Seq(Entry)]
    BY <1>0, <1>5 DEF restart
  <2> QED
    BY <1>5, <2>2, <2>3, FewerStep, Zenon DEF restart
<1>6. ASSUME NEW n \in Nodes, elapse(n) PROVE IInv'
    BY <1>0, <1>6, FewerStep, Zenon DEF elapse, IInv
<1>7. ASSUME NEW f \in net, lose(f) PROVE IInv'
    BY <1>0, <1>7, FewerStep, Zenon DEF lose, IInv
<1>8. CASE UNCHANGED vars
    BY <1>0, <1>8, FewerStep, Zenon DEF vars, IInv
<1> QED
    BY <1>1, <1>2, <1>3, <1>4, <1>5, <1>6, <1>7, <1>8, Zenon DEF Next

\* The invariant holds of the initial state.
LEMMA InitInvariant == Init => IInv
<1> SUFFICES ASSUME Init PROVE IInv
    BY Zenon
<1>1. Queues
    BY RouterConstants, SMTT(60) DEF Init, Queues
<1>2. OneOfEach
    BY Zenon DEF Init, OneOfEach
<1>3. via = [n \in Nodes |-> via[n]] /\ \A n \in Nodes : IsTable(n, via[n])
    BY RouterConstants, ZenonT(60) DEF Init
<1> QED
    BY <1>1, <1>2, <1>3, Zenon DEF Init, IInv

\* The inductive invariant: what is known of every frame and queue, by the
\* datagram it comes from.
THEOREM IInvariant == Spec => []IInv
<1> QED
    BY InitInvariant, StepInvariant, PTL DEF Spec

\* No router on any path, over any routes, spoils a header (HeadersValid): the
\* checksum is always that of a full computation.
THEOREM HeadersStayValid == Spec => []HeadersValid
<1>1. IInv => HeadersValid
  <2> SUFFICES ASSUME IInv, NEW f \in net PROVE inet_csum(f.d) = 0
    BY Zenon DEF HeadersValid
  <2> DEFINE sum == f.d.rest + ttl_word(f.d.ttl, f.d.what)
  <2>1. f.d \in Datagram /\ f.d.csum = csum_fold(sum)
    BY Zenon DEF IInv, FrameOK, Exact
  <2>2. f.d.ttl \in 0..255 /\ f.d.what \in Kinds /\ f.d.rest \in Rests
    BY <2>1, Zenon DEF Datagram
  <2>3. sum \in 1..(Base * Base - Base)
    BY <2>2, HeaderWord, Zenon
  <2>4. csum_fold(sum + csum_fold(sum)) = 0
    BY <2>3, VerifyAccepts, Zenon
  <2> QED
    BY <2>1, <2>4, Zenon DEF inet_csum
<1> QED
    BY <1>1, IInvariant, PTL

\* On every topology a datagram to one node has one fate (OneOfEach).
THEOREM OneFate == Spec => []OneOfEach
<1>1. IInv => OneOfEach
    BY Zenon DEF IInv
<1> QED
    BY <1>1, IInvariant, PTL

\* udp_input drops what a socket has no room for: no receive queue outgrows
\* PF_SOCK_RXQ_CAP, whatever arrives while its program is busy.
THEOREM RxQueuesBounded == Spec => [](\A b \in Bound : Len(rxq[b]) <= PF_SOCK_RXQ_CAP)
<1>1. IInv => \A b \in Bound : Len(rxq[b]) <= PF_SOCK_RXQ_CAP
    BY Zenon DEF IInv, Queues
<1> QED
    BY <1>1, IInvariant, PTL

\* icmp_send_error keeps to its suppression rules on every topology: an ICMP
\* error answers a datagram that deserves one and goes to its source.
THEOREM AnswersDue == Spec => []ErrorsAreDue
<1>1. IInv => ErrorsAreDue
    BY Zenon DEF IInv, FrameOK, Honest, ErrorsAreDue
<1> QED
    BY <1>1, IInvariant, PTL

\* ip_input drops what is not for a host: only nodes with ip_forward set ever
\* pass a datagram on, on every topology and with all routing tables.
THEOREM HostsKeepQuiet == Spec => []OnlyRoutersForward
<1>1. IInv => OnlyRoutersForward
    BY Zenon DEF IInv, FrameOK, OnlyRoutersForward
<1> QED
    BY <1>1, IInvariant, PTL

\* icmp_input answers an echo request from the address that was pinged, also
\* when the reply leaves through another interface.
THEOREM RepliesNameTheAsked == Spec => []RepliesFromTheAsked
<1>1. IInv => RepliesFromTheAsked
    BY Zenon DEF IInv, FrameOK, Honest, RepliesFromTheAsked
<1> QED
    BY <1>1, IInvariant, PTL
=============================================================================
