--------------------------- MODULE DataPathProofs ---------------------------
(***************************************************************************)
(* Theorems about packets and the resource table, for every word size,     *)
(* address, sum, document, destination and name.                           *)
(*                                                                         *)
(* The first half is about checksums: folding and updating change a sum by *)
(* laps of WordMax only, so a receiver cannot tell; PathInv follows a      *)
(* packet and the error about it.  The second half is about the table: a   *)
(* sorted list, scanned for its first match, finds the best rule; the      *)
(* search for the parts of a pattern is never behind a way to fill its     *)
(* stars; and the loops over the node groups meet each address first at    *)
(* its best place.                                                         *)
(***************************************************************************)
EXTENDS DataPath, FiniteSetTheorems, SequenceTheorems, TLAPS

-----------------------------------------------------------------------------
(* Ones' complement sums: equal but for laps of WordMax.                     *)

\* A sum is what lies above its lowest word and that word.
LEMMA Division ==
    ASSUME NEW s \in Nat
    PROVE  /\ s = Base * (s \div Base) + (s % Base)
           /\ s % Base \in 0 .. Base - 1
           /\ s \div Base \in Nat
  BY MappingAssumption

\* How much k overflows take off a sum: one lap each.
Laps(k) == k * WordMax

\* The same sum but for laps.
Cong(a, b) == \E k \in Int : a = b + Laps(k)

\* One round of the carry loop of checksum16 and updateChecksum takes off one lap for each
\* overflow.
LEMMA CarryIs ==
    ASSUME NEW s \in Nat, NEW n \in 0 .. 7, s \in n * Base .. n * Base + Base - 1
    PROVE  Carry(s) = s - n * WordMax
  <1> DEFINE q == s \div Base
             r == s % Base
  <1>1. s = Base * q + r /\ r \in 0 .. Base - 1 /\ q \in Nat
    BY Division
  <1>3. Carry(s) = r + q
    BY DEF Carry
  <1> HIDE DEF q, r
  <1>2. q = n
    BY <1>1, MappingAssumption
  <1> QED
    BY <1>1, <1>2, <1>3, MappingAssumption DEF WordMax

\* The sums that are folded overflow a few times at most.
LEMMA Quotient ==
    ASSUME NEW s \in Nat, s <= 6 * WordMax
    PROVE  \E n \in 0 .. 7 : s \in n * Base .. n * Base + Base - 1
  BY MappingAssumption DEF WordMax

\* After one round the sum has one carry at most, and only a zero sum gives zero.
LEMMA CarryOnce ==
    ASSUME NEW s \in Nat, s <= 6 * WordMax
    PROVE  \E n \in 0 .. 7 : /\ Carry(s) = s - n * WordMax
                             /\ Carry(s) \in Nat
                             /\ Carry(s) <= WordMax + 5
                             /\ Carry(s) = 0 <=> s = 0
  <1>1. PICK n \in 0 .. 7 : s \in n * Base .. n * Base + Base - 1
    BY Quotient
  <1>2. Carry(s) = s - n * WordMax
    BY <1>1, CarryIs
  <1>3. n <= 5
    BY <1>1, MappingAssumption DEF WordMax
  <1>4. s - n * WordMax \in Nat /\ s - n * WordMax <= WordMax + n
    BY <1>1, <1>3, MappingAssumption DEF WordMax
  <1>5. s - n * WordMax = 0 <=> s = 0
    BY <1>1, <1>3, MappingAssumption DEF WordMax
  <1> QED
    BY <1>2, <1>3, <1>4, <1>5, MappingAssumption DEF WordMax

\* The carry loop ends in one word, which differs from the sum by whole laps.
LEMMA Folded ==
    ASSUME NEW s \in Nat, s <= 6 * WordMax
    PROVE  /\ Fold(s) \in Word
           /\ Fold(s) = 0 <=> s = 0
           /\ \E j \in Nat : Fold(s) = s - Laps(j)
  <1> DEFINE c == Carry(s)
             d == Carry(c)
  <1>0. WordMax \in Nat /\ WordMax >= 3
    BY MappingAssumption DEF WordMax
  <1>1. PICK n \in 0 .. 7 : /\ c = s - n * WordMax /\ c \in Nat
                            /\ c <= WordMax + 5 /\ (c = 0 <=> s = 0)
    BY CarryOnce
  <1> HIDE DEF c
  <1>2. PICK m \in 0 .. 2 : c \in m * Base .. m * Base + Base - 1
    <2>1. CASE c < Base
      <3>1. c \in 0 * Base .. 0 * Base + Base - 1
        BY <1>1, <2>1, MappingAssumption
      <3> QED BY <3>1
    <2>2. CASE c >= Base /\ c < 2 * Base
      <3>1. c \in 1 * Base .. 1 * Base + Base - 1
        BY <1>1, <2>2, MappingAssumption
      <3> QED BY <3>1
    <2>3. CASE c >= 2 * Base
      <3>1. c \in 2 * Base .. 2 * Base + Base - 1
        BY <1>1, <2>3, MappingAssumption DEF WordMax
      <3> QED BY <3>1
    <2> QED BY <1>1, <2>1, <2>2, <2>3, MappingAssumption
  <1>3. d = c - m * WordMax
    BY <1>1, <1>2, CarryIs
  <1>4. /\ d \in Nat /\ d <= 2 * WordMax /\ (d = 0 <=> c = 0)
    BY <1>1, <1>2, <1>3, MappingAssumption DEF WordMax
  <1> HIDE DEF d
  <1>5. PICK l \in 0 .. 1 : d \in l * Base .. l * Base + Base - 1
    BY <1>4, MappingAssumption DEF WordMax
  <1>6. Carry(d) = d - l * WordMax
    BY <1>4, <1>5, CarryIs
  <1>7. Carry(d) \in 0 .. WordMax /\ (Carry(d) = 0 <=> d = 0)
    BY <1>4, <1>5, <1>6, MappingAssumption DEF WordMax
  <1>8. Fold(s) = Carry(d)
    BY DEF Fold, c, d
  <1>9. Fold(s) = s - Laps(n + m + l)
    BY <1>0, <1>1, <1>3, <1>6, <1>8, <1>4 DEF Laps
  <1>10. n + m + l \in Nat
    OBVIOUS
  <1>11. Fold(s) \in Word /\ (Fold(s) = 0 <=> s = 0)
    BY <1>1, <1>4, <1>7, <1>8 DEF Word
  <1> QED
    BY <1>9, <1>10, <1>11

\* A word has at least two bits.
LEMMA WordMaxFacts == WordMax \in Nat /\ WordMax >= 3
  BY MappingAssumption DEF WordMax

\* Laps add up like the numbers that count them.
LEMMA Times ==
    \A j, k \in Int :
        /\ Laps(j) \in Int
        /\ Laps(j) + Laps(k) = Laps(j + k)
        /\ Laps(j) - Laps(k) = Laps(j - k)
        /\ Laps(0 - k) = 0 - Laps(k)
        /\ Laps(1) = WordMax
  BY WordMaxFacts DEF Laps

\* Being equal but for laps is reflexive.
LEMMA CongRefl ==
    ASSUME NEW a \in Int
    PROVE  Cong(a, a)
  <1>1. a = a + Laps(0)
    BY Times
  <1> QED BY <1>1 DEF Cong

\* It is symmetric.
LEMMA CongSym ==
    ASSUME NEW a \in Int, NEW b \in Int, Cong(a, b)
    PROVE  Cong(b, a)
  <1>1. PICK k \in Int : a = b + Laps(k)
    BY DEF Cong
  <1>2. Laps(k) \in Int /\ Laps(0 - k) = 0 - Laps(k)
    BY Times
  <1>4. 0 - k \in Int
    OBVIOUS
  <1>3. b = a + Laps(0 - k)
    BY <1>1, <1>2
  <1> QED BY <1>3, <1>4 DEF Cong

\* It is transitive.
LEMMA CongTrans ==
    ASSUME NEW a \in Int, NEW b \in Int, NEW c \in Int, Cong(a, b), Cong(b, c)
    PROVE  Cong(a, c)
  <1>1. PICK k \in Int : a = b + Laps(k)
    BY DEF Cong
  <1>2. PICK j \in Int : b = c + Laps(j)
    BY DEF Cong
  <1>3. Laps(j) + Laps(k) = Laps(j + k) /\ Laps(j) \in Int /\ Laps(k) \in Int
    BY Times
  <1>4. a = c + Laps(j + k) /\ j + k \in Int
    BY <1>1, <1>2, <1>3
  <1> QED BY <1>4 DEF Cong

\* It is kept by sums and differences, as ones' complement arithmetic is.
LEMMA CongAdd ==
    ASSUME NEW a \in Int, NEW b \in Int, NEW c \in Int, NEW d \in Int,
           Cong(a, b), Cong(c, d)
    PROVE  Cong(a + c, b + d) /\ Cong(a - c, b - d)
  <1>1. PICK k \in Int : a = b + Laps(k)
    BY DEF Cong
  <1>2. PICK j \in Int : c = d + Laps(j)
    BY DEF Cong
  <1>0. /\ Laps(k) + Laps(j) = Laps(k + j) /\ Laps(k) - Laps(j) = Laps(k - j)
        /\ Laps(j) \in Int /\ Laps(k) \in Int
    BY Times
  <1>3. a + c = b + d + Laps(k + j) /\ k + j \in Int
    BY <1>0, <1>1, <1>2
  <1>4. a - c = b - d + Laps(k - j) /\ k - j \in Int
    BY <1>0, <1>1, <1>2
  <1> QED BY <1>3, <1>4 DEF Cong

\* Folding changes a sum by laps only.
LEMMA FoldCong ==
    ASSUME NEW s \in Nat, s <= 6 * WordMax
    PROVE  Cong(Fold(s), s) /\ Fold(s) \in Word
  <1>1. PICK j \in Nat : Fold(s) = s - Laps(j)
    BY Folded
  <1>4. j \in Int /\ 0 - j \in Int
    OBVIOUS
  <1>2. Laps(j) \in Int /\ Laps(0 - j) = 0 - Laps(j)
    BY <1>4, Times
  <1>3. Fold(s) = s + Laps(0 - j)
    BY <1>1, <1>2
  <1> QED BY <1>3, <1>4, Folded DEF Cong

\* A receiver accepts a sum, which is never zero, exactly if it is whole laps.
LEMMA VerifiesIff ==
    ASSUME NEW s \in Nat, s > 0, s <= 6 * WordMax
    PROVE  Verifies(s) <=> Cong(s, 0)
  <1>1. PICK j \in Nat : Fold(s) = s - Laps(j)
    BY Folded
  <1>2. Fold(s) \in 1 .. WordMax
    BY Folded, WordMaxFacts DEF Word
  <1>3. ASSUME Verifies(s) PROVE Cong(s, 0)
    <2>0. 1 \in Int /\ j \in Int /\ Laps(1) + Laps(j) = Laps(1 + j)
      BY Times
    <2>2. Laps(j) \in Int /\ Laps(1) = WordMax
      BY Times
    <2>1. s = 0 + Laps(1 + j) /\ 1 + j \in Int
      BY <1>1, <1>3, <2>0, <2>2, WordMaxFacts DEF Verifies
    <2> QED BY <2>1 DEF Cong
  <1>4. ASSUME Cong(s, 0) PROVE Verifies(s)
    <2>1. PICK k \in Int : s = 0 + Laps(k)
      BY <1>4 DEF Cong
    <2>4. j \in Int
      OBVIOUS
    <2>5. Laps(k) \in Int /\ Laps(j) \in Int /\ Laps(k) - Laps(j) = Laps(k - j)
      BY <2>4, Times
    <2>2. Fold(s) = Laps(k - j)
      BY <1>1, <2>1, <2>5
    <2>3. k - j = 1
      <3>1. CASE k - j <= 0
        BY <1>2, <2>2, <3>1, WordMaxFacts DEF Laps
      <3>2. CASE k - j >= 2
        BY <1>2, <2>2, <3>2, WordMaxFacts DEF Laps
      <3> QED BY <3>1, <3>2
    <2> QED BY <2>2, <2>3, Times DEF Verifies
  <1> QED BY <1>3, <1>4

\* So it cannot tell sums apart that differ by laps.
LEMMA VerifiesSame ==
    ASSUME NEW s \in Nat, NEW t \in Nat, s > 0, s <= 6 * WordMax,
           t > 0, t <= 6 * WordMax, Cong(t, s)
    PROVE  Verifies(s) <=> Verifies(t)
  BY VerifiesIff, CongSym, CongTrans

\* updateChecksum takes the old word off the sum and puts the new one in.
LEMMA UpdateCong ==
    ASSUME NEW c \in Word, NEW o \in Word, NEW n \in Word
    PROVE  /\ updateChecksum(c, o, n) \in Word
           /\ Cong(updateChecksum(c, o, n), c + o - n)
  <1> DEFINE s == Not(c) + Not(o) + n
  <1>1. s \in Nat /\ s <= 6 * WordMax /\ s = 2 * WordMax - c - o + n
    BY WordMaxFacts DEF Word, Not
  <1>2. updateChecksum(c, o, n) = WordMax - Fold(s)
    BY DEF updateChecksum, Not
  <1> HIDE DEF s
  <1>3. PICK j \in Nat : Fold(s) = s - Laps(j)
    BY <1>1, Folded
  <1>4. Fold(s) \in Word
    BY <1>1, Folded
  <1>0. Laps(j) - Laps(1) = Laps(j - 1) /\ Laps(j) \in Int /\ Laps(1) = WordMax
    BY Times
  <1>5. WordMax - Fold(s) = c + o - n + Laps(j - 1) /\ j - 1 \in Int
    BY <1>0, <1>1, <1>3, WordMaxFacts DEF Word
  <1> QED BY <1>2, <1>4, <1>5, WordMaxFacts DEF Cong, Word

\* rewriteAddr does that for both words of an address.
LEMMA UpdateAddressCong ==
    ASSUME NEW c \in Word, NEW o \in Address, NEW n \in Address
    PROVE  /\ updateAddress(c, o, n) \in Word
           /\ Cong(updateAddress(c, o, n), c + AddressSum(o) - AddressSum(n))
  <1>1. o[1] \in Word /\ o[2] \in Word /\ n[1] \in Word /\ n[2] \in Word
    BY DEF Address
  <1> DEFINE a == updateChecksum(c, o[1], n[1])
             b == updateChecksum(a, o[2], n[2])
  <1>2. a \in Word /\ Cong(a, c + o[1] - n[1])
    BY <1>1, UpdateCong
  <1> HIDE DEF a
  <1>3. b \in Word /\ Cong(b, a + o[2] - n[2])
    BY <1>1, <1>2, UpdateCong
  <1> HIDE DEF b
  <1>7. o[2] - n[2] \in Int /\ c + o[1] - n[1] \in Int /\ a \in Int /\ b \in Int
    BY <1>1, <1>2, <1>3, WordMaxFacts DEF Word
  <1>8. Cong(o[2] - n[2], o[2] - n[2])
    BY <1>7, CongRefl
  <1>4. Cong(a + (o[2] - n[2]), c + o[1] - n[1] + (o[2] - n[2]))
    BY <1>2, <1>7, <1>8, CongAdd
  <1>5. Cong(b, c + o[1] - n[1] + (o[2] - n[2]))
    <2>1. a + (o[2] - n[2]) = a + o[2] - n[2]
      BY <1>1, <1>2 DEF Word
    <2> QED BY <1>3, <1>4, <1>7, <2>1, CongTrans
  <1>6. c + o[1] - n[1] + (o[2] - n[2]) = c + AddressSum(o) - AddressSum(n)
    BY <1>1 DEF AddressSum, Word
  <1> QED BY <1>3, <1>5, <1>6 DEF updateAddress, a, b

-----------------------------------------------------------------------------
(* Packets, and the sums of their headers.                                   *)

\* "No quoted header" is not a header.
LEMMA NoQuoteIsNone == NoQuote \notin QuotedHeader
  BY DEF NoQuote, QuotedHeader

\* A sum that holds a part changes by laps when the part does.
LEMMA Shift ==
    ASSUME NEW x \in Int, NEW a \in Int, NEW b \in Int, Cong(a, b)
    PROVE  Cong(x + a, x + b)
  BY CongRefl, CongAdd

\* The words of an address.
LEMMA AddressSums ==
    ASSUME NEW a \in Address
    PROVE  AddressSum(a) \in 0 .. 2 * WordMax
  BY WordMaxFacts DEF Address, AddressSum, Word

\* The sum of a header without its checksum: never zero, and small enough to fold in two
\* rounds.
LEMMA HeaderSums ==
    ASSUME NEW h, h.src \in Address, h.dst \in Address, h.rest \in NonZeroWord
    PROVE  HeaderSum(h) \in 1 .. 5 * WordMax
  BY AddressSums, WordMaxFacts DEF HeaderSum, NonZeroWord, Word

\* What checksum16 writes into a header.
LEMMA ChecksumFacts ==
    ASSUME NEW h, h.src \in Address, h.dst \in Address, h.rest \in NonZeroWord
    PROVE  /\ checksum16(h) \in Word
           /\ checksum16(h) = WordMax - Fold(HeaderSum(h))
           /\ Fold(HeaderSum(h)) \in Word
           /\ Cong(Fold(HeaderSum(h)), HeaderSum(h))
  <1>1. HeaderSum(h) \in Nat /\ HeaderSum(h) <= 6 * WordMax
    BY HeaderSums, WordMaxFacts
  <1>2. Fold(HeaderSum(h)) \in Word /\ Cong(Fold(HeaderSum(h)), HeaderSum(h))
    BY <1>1, FoldCong
  <1> QED
    BY <1>2, WordMaxFacts DEF checksum16, Not, Word

\* A header whose checksum checksum16 has just written is accepted.
LEMMA FreshHeaderValid ==
    ASSUME NEW h, h.src \in Address, h.dst \in Address, h.rest \in NonZeroWord,
           h.csum = checksum16(h)
    PROVE  HeaderValid(h)
  <1> DEFINE s == HeaderSum(h)
             f == Fold(s)
  <1>1. s \in 1 .. 5 * WordMax
    BY HeaderSums
  <1>2. f \in Word /\ h.csum = WordMax - f /\ Cong(f, s)
    BY ChecksumFacts
  <1> HIDE DEF s, f
  <1>3. f \in Int /\ s \in Int /\ WordMax \in Int
    BY <1>1, <1>2, WordMaxFacts DEF Word
  <1>4. Cong(s, f)
    BY <1>2, <1>3, CongSym
  <1>11. WordMax - f \in Int
    BY <1>3
  <1>5. Cong((WordMax - f) + s, (WordMax - f) + f)
    BY <1>3, <1>4, <1>11, Shift
  <1>6. Cong(WordMax, 0)
    <2>1. WordMax = 0 + Laps(1) /\ 1 \in Int
      BY Times, WordMaxFacts
    <2> QED BY <2>1 DEF Cong
  <1>7. (WordMax - f) + f = WordMax /\ (WordMax - f) + s = s + h.csum
    BY <1>2, <1>3
  <1>8. s + h.csum \in Int
    BY <1>2, <1>3
  <1>9. Cong(s + h.csum, 0)
    BY <1>5, <1>6, <1>7, <1>8, <1>3, CongTrans
  <1>10. s + h.csum \in Nat /\ s + h.csum > 0 /\ s + h.csum <= 6 * WordMax
    BY <1>1, <1>2, WordMaxFacts DEF Word
  <1> QED
    BY <1>9, <1>10, VerifiesIff DEF HeaderValid, s

\* An address inside a sum is replaced and the checksum of the sum updated: the sum is
\* accepted exactly if it was before.
LEMMA SumKept ==
    ASSUME NEW x \in Nat, NEW o \in Address, NEW n \in Address, NEW c \in Word,
           NEW d \in Word, Cong(d, c + AddressSum(o) - AddressSum(n)),
           x > 0, x <= 3 * WordMax
    PROVE  Verifies(x + AddressSum(o) + c) <=> Verifies(x + AddressSum(n) + d)
  <1> DEFINE ao == AddressSum(o)
             an == AddressSum(n)
  <1>1. ao \in 0 .. 2 * WordMax /\ an \in 0 .. 2 * WordMax
    BY AddressSums
  <1> HIDE DEF ao, an
  <1>2. x + an \in Int /\ d \in Int /\ c + ao - an \in Int
    BY <1>1, WordMaxFacts DEF Word
  <1>3. Cong(d, c + ao - an)
    BY DEF ao, an
  <1>4. Cong(x + an + d, x + an + (c + ao - an))
    BY <1>2, <1>3, Shift
  <1>5. x + an + (c + ao - an) = x + ao + c
    BY <1>1, WordMaxFacts DEF Word
  <1>6. /\ x + ao + c \in Nat /\ x + ao + c > 0 /\ x + ao + c <= 6 * WordMax
        /\ x + an + d \in Nat /\ x + an + d > 0 /\ x + an + d <= 6 * WordMax
    BY <1>1, WordMaxFacts DEF Word
  <1>7. Verifies(x + ao + c) <=> Verifies(x + an + d)
    BY <1>4, <1>5, <1>6, VerifiesSame
  <1> QED
    BY <1>7 DEF ao, an

\* What rewriteTransport leaves as it was.
SameButMessage(p, q) ==
    /\ q.src = p.src /\ q.dst = p.dst /\ q.rest = p.rest /\ q.csum = p.csum
    /\ q.proto = p.proto /\ q.port = p.port /\ q.frag = p.frag
    /\ q.whole = p.whole /\ q.body = p.body

\* What a receiver says of the message.
MessageKept(p, q) ==
    /\ TransportValid(p) <=> TransportValid(q)
    /\ p.proto = "udp" => (p.tsum = 0 <=> q.tsum = 0)

-----------------------------------------------------------------------------
(* The header an ICMP error quotes.                                          *)

\* The sum of the words of an error that are rewritten: the quoted addresses and their
\* checksum.
LEMMA QuoteSums ==
    ASSUME NEW p \in Packet
    PROVE  QuoteSum(p) \in 0 .. 2 * WordMax
  <1>1. CASE p.inner = NoQuote
    BY <1>1, WordMaxFacts DEF QuoteSum
  <1>2. CASE p.inner # NoQuote
    <2>1. p.inner \in QuotedHeader
      BY <1>2 DEF Packet
    <2>2. Fold(HeaderSum(p.inner)) \in Word /\ p.inner.csum \in Word
      BY <2>1, ChecksumFacts DEF QuotedHeader
    <2> QED
      BY <1>2, <2>2, WordMaxFacts DEF QuoteSum, Word
  <1> QED BY <1>1, <1>2

\* The quoted header of q is that of p with the address replaced and summed anew.
Quotes(p, q, old, new) ==
    /\ q.inner.src = Replace(p.inner.src, old, new)
    /\ q.inner.dst = Replace(p.inner.dst, old, new)
    /\ q.inner.rest = p.inner.rest
    /\ q.inner \in QuotedHeader
    /\ q.inner.csum = checksum16(q.inner)

\* One address of the quoted header in rewriteICMPInner: replaced or not, the running
\* checksum follows.
LEMMA ReplaceAddress ==
    ASSUME NEW a \in Address, NEW old \in Address, NEW new \in Address, NEW c \in Word
    PROVE  LET u == IF a = old THEN updateAddress(c, old, new) ELSE c
           IN /\ Replace(a, old, new) \in Address
              /\ u \in Word
              /\ Cong(u, c + AddressSum(a) - AddressSum(Replace(a, old, new)))
  <1>1. CASE a = old
    BY <1>1, UpdateAddressCong DEF Replace
  <1>2. CASE a # old
    <2>1. c + AddressSum(a) - AddressSum(a) = c /\ c \in Int
      BY AddressSums, WordMaxFacts DEF Word
    <2> QED BY <1>2, <2>1, CongRefl DEF Replace
  <1> QED BY <1>1, <1>2

\* rewriteICMPInner on an error that quotes the address: the quoted header gets the new
\* address and a right checksum, and the message is accepted exactly if it was before.
LEMMA QuoteMoves ==
    ASSUME NEW p \in Packet, NEW old \in Address, NEW new \in Address,
           p.proto = "icmp", p.inner # NoQuote, old \in {p.inner.src, p.inner.dst}
    PROVE  LET q == rewriteICMPInner(p, old, new)
           IN /\ q \in Packet /\ SameButMessage(p, q) /\ MessageKept(p, q)
              /\ Quotes(p, q, old, new)
  <1> DEFINE h == p.inner
             moved == [h EXCEPT !.src = Replace(@, old, new),
                                !.dst = Replace(@, old, new)]
             quoted == [moved EXCEPT !.csum = checksum16(moved)]
             u == IF h.src = old THEN updateAddress(p.tsum, old, new) ELSE p.tsum
             v == IF h.dst = old THEN updateAddress(u, old, new) ELSE u
             w == updateChecksum(v, h.csum, quoted.csum)
             q == [p EXCEPT !.inner = quoted, !.tsum = w]
  <1>1. rewriteICMPInner(p, old, new) = q
    BY DEF rewriteICMPInner
  <1>2. /\ h \in QuotedHeader /\ h.src \in Address /\ h.dst \in Address
        /\ h.rest \in NonZeroWord /\ h.csum \in Word
    BY DEF Packet, QuotedHeader
  <1>3. /\ Replace(h.src, old, new) \in Address /\ u \in Word
        /\ Cong(u, p.tsum + AddressSum(h.src) - AddressSum(Replace(h.src, old, new)))
    BY <1>2, ReplaceAddress DEF Packet
  <1> HIDE DEF u
  <1>4. /\ Replace(h.dst, old, new) \in Address /\ v \in Word
        /\ Cong(v, u + AddressSum(h.dst) - AddressSum(Replace(h.dst, old, new)))
    BY <1>2, <1>3, ReplaceAddress
  <1> HIDE DEF v
  <1>5. /\ moved.src = Replace(h.src, old, new) /\ moved.dst = Replace(h.dst, old, new)
        /\ moved.rest = h.rest /\ moved \in QuotedHeader
    BY <1>2, <1>3, <1>4 DEF QuotedHeader
  <1> HIDE DEF moved
  <1>6. /\ checksum16(moved) \in Word
        /\ checksum16(moved) = WordMax - Fold(HeaderSum(moved))
        /\ Fold(HeaderSum(moved)) \in Word
        /\ Cong(Fold(HeaderSum(moved)), HeaderSum(moved))
    BY <1>2, <1>3, <1>4, <1>5, ChecksumFacts
  <1>7. /\ quoted.src = moved.src /\ quoted.dst = moved.dst
        /\ quoted.rest = moved.rest /\ quoted.csum = checksum16(moved)
        /\ quoted \in QuotedHeader
    BY <1>5, <1>6 DEF QuotedHeader
  <1> HIDE DEF quoted
  <1>8. HeaderSum(quoted) = HeaderSum(moved)
    BY <1>7 DEF HeaderSum
  <1>9. checksum16(quoted) = quoted.csum
    BY <1>7, <1>8 DEF checksum16
  <1>10. w \in Word /\ Cong(w, v + h.csum - quoted.csum)
    BY <1>2, <1>4, <1>6, <1>7, UpdateCong
  <1> HIDE DEF w
  <1>11. /\ q \in Packet /\ SameButMessage(p, q)
         /\ q.inner = quoted /\ q.tsum = w
    BY <1>7, <1>10 DEF Packet, SameButMessage
  <1> HIDE DEF q
  <1>12. Quotes(p, q, old, new)
    BY <1>5, <1>7, <1>9, <1>11 DEF Quotes
  <1>13. MessageKept(p, q)
    <2> DEFINE a == AddressSum(h.src)
               b == AddressSum(h.dst)
               aa == AddressSum(moved.src)
               bb == AddressSum(moved.dst)
               f == Fold(HeaderSum(moved))
               g == Fold(HeaderSum(h))
               s == QuoteSum(p) + p.body + p.tsum
               t == QuoteSum(q) + q.body + q.tsum
    <2>1. /\ a \in 0 .. 2 * WordMax /\ b \in 0 .. 2 * WordMax
          /\ aa \in 0 .. 2 * WordMax /\ bb \in 0 .. 2 * WordMax
      BY <1>2, <1>3, <1>4, <1>5, AddressSums
    <2>2. /\ HeaderSum(h) = h.rest + a + b
          /\ HeaderSum(moved) = h.rest + aa + bb
      BY <1>5 DEF HeaderSum
    <2>3. g \in Word /\ Cong(g, HeaderSum(h))
      BY <1>2, ChecksumFacts
    <2>4. s = g + h.csum + p.body + p.tsum
      BY DEF QuoteSum
    <2>5. quoted # NoQuote
      BY <1>7, NoQuoteIsNone
    <2>6. t = f + (WordMax - f) + p.body + w
      BY <1>6, <1>7, <1>8, <1>11, <2>5 DEF QuoteSum, SameButMessage
    <2>7. Cong(u, p.tsum + a - aa) /\ Cong(v, u + b - bb) /\ Cong(f, h.rest + aa + bb)
      BY <1>3, <1>4, <1>5, <1>6, <2>2
    <2>8. Cong(w, v + h.csum - (WordMax - f))
      BY <1>6, <1>7, <1>10
    <2>9. /\ p.tsum \in Word /\ p.body \in NonZeroWord /\ h.rest \in NonZeroWord
          /\ u \in Word /\ v \in Word /\ w \in Word /\ f \in Word /\ h.csum \in Word
      BY <1>2, <1>3, <1>4, <1>6, <1>10 DEF Packet
    <2>14. g \in Word /\ Cong(g, h.rest + a + b)
      BY <2>2, <2>3
    <2>15. p.proto = "icmp" /\ q.proto = "icmp"
      BY <1>11 DEF SameButMessage
    <2>16. (TransportValid(p) <=> Verifies(s)) /\ (TransportValid(q) <=> Verifies(t))
      BY <2>15 DEF TransportValid
    <2> HIDE DEF a, b, aa, bb, f, g, s, t
    <2>10. Cong(t, s)
      <3>1. /\ a \in Int /\ b \in Int /\ aa \in Int /\ bb \in Int /\ f \in Int
            /\ g \in Int /\ u \in Int /\ v \in Int /\ w \in Int /\ p.tsum \in Int
            /\ p.body \in Int /\ h.csum \in Int /\ WordMax \in Int /\ h.rest \in Int
        BY <2>1, <2>9, <2>14, WordMaxFacts DEF Word, NonZeroWord
      <3>2. PICK i \in Int : u = p.tsum + a - aa + Laps(i)
        BY <2>7 DEF Cong
      <3>3. PICK j \in Int : v = u + b - bb + Laps(j)
        BY <2>7 DEF Cong
      <3>4. PICK k \in Int : f = h.rest + aa + bb + Laps(k)
        BY <2>7 DEF Cong
      <3>5. PICK l \in Int : w = v + h.csum - (WordMax - f) + Laps(l)
        BY <2>8 DEF Cong
      <3>6. PICK m \in Int : g = h.rest + a + b + Laps(m)
        BY <2>14 DEF Cong
      <3>7. /\ Laps(i) + Laps(j) = Laps(i + j) /\ Laps(k) + Laps(l) = Laps(k + l)
            /\ Laps(i) \in Int /\ Laps(j) \in Int /\ Laps(k) \in Int
            /\ Laps(l) \in Int /\ Laps(m) \in Int
            /\ i + j \in Int /\ k + l \in Int
        BY Times
      <3> DEFINE x == i + j
                 y == k + l
                 z == x + y
      <3>8. x \in Int /\ y \in Int /\ z \in Int
        BY <3>7
      <3>9. Laps(x) = Laps(i) + Laps(j) /\ Laps(y) = Laps(k) + Laps(l)
        BY <3>7
      <3> HIDE DEF x, y
      <3>10. Laps(x) + Laps(y) = Laps(z)
        BY <3>8, Times
      <3> HIDE DEF z
      <3>11. Laps(z) - Laps(m) = Laps(z - m) /\ z - m \in Int
        BY <3>8, Times
      <3>12. t = s + Laps(z - m)
        BY <2>4, <2>6, <3>1, <3>2, <3>3, <3>4, <3>5, <3>6, <3>7, <3>9, <3>10, <3>11
      <3> QED BY <3>11, <3>12 DEF Cong
    <2>11. /\ s \in Nat /\ s > 0 /\ s <= 6 * WordMax
           /\ t \in Nat /\ t > 0 /\ t <= 6 * WordMax
      BY <2>4, <2>6, <2>9, <2>14, WordMaxFacts DEF Word, NonZeroWord
    <2>12. Verifies(s) <=> Verifies(t)
      BY <2>10, <2>11, VerifiesSame
    <2> QED
      BY <2>12, <2>15, <2>16 DEF MessageKept
  <1> QED
    BY <1>1, <1>11, <1>12, <1>13

-----------------------------------------------------------------------------
(* The rewrite of one packet.                                                *)

\* rewriteICMPInner on any ICMP message, also one that quotes nothing or other addresses.
LEMMA InnerRewritten ==
    ASSUME NEW p \in Packet, NEW old \in Address, NEW new \in Address,
           p.proto = "icmp"
    PROVE  LET q == rewriteICMPInner(p, old, new)
           IN q \in Packet /\ SameButMessage(p, q) /\ MessageKept(p, q)
  <1>1. CASE p.inner = NoQuote \/ old \notin {p.inner.src, p.inner.dst}
    BY <1>1 DEF rewriteICMPInner, SameButMessage, MessageKept
  <1>2. CASE p.inner # NoQuote /\ old \in {p.inner.src, p.inner.dst}
    BY <1>2, QuoteMoves
  <1> QED BY <1>1, <1>2

\* A computed UDP checksum of zero is sent as all ones, which is the same sum.
LEMMA NonZeroCong ==
    ASSUME NEW c \in Word
    PROVE  NonZero(c) \in Word /\ NonZero(c) # 0 /\ Cong(NonZero(c), c)
  <1>1. CASE c = 0
    <2>1. WordMax = c + Laps(1) /\ 1 \in Int
      BY <1>1, Times, WordMaxFacts
    <2> QED BY <1>1, <2>1, WordMaxFacts DEF NonZero, Cong, Word
  <1>2. CASE c # 0
    BY <1>2, CongRefl DEF NonZero, Word
  <1> QED BY <1>1, <1>2

\* What rewriteAddr does below the IP header, by protocol and fragment.
LEMMA TransportRewritten ==
    ASSUME NEW p \in Packet, NEW old \in Address, NEW new \in Address
    PROVE  LET q == rewriteTransport(p, old, new)
           IN /\ q \in Packet /\ SameButMessage(p, q)
              /\ p.frag = "tail" \/ p.proto = "other" \/ (p.proto # "icmp" /\ ~p.whole)
                    => q = p
              /\ p.frag # "tail" /\ p.proto = "icmp" =>
                    q = rewriteICMPInner(p, old, new)
              /\ p.frag # "tail" /\ p.proto \in {"tcp", "udp"} /\ p.whole =>
                    q = IF p.proto = "udp" /\ p.tsum = 0 THEN p
                        ELSE [p EXCEPT !.tsum = NonZero(updateAddress(p.tsum, old, new))]
  <1>0. /\ p.proto \in {"tcp", "udp", "icmp", "other"} /\ p.whole \in BOOLEAN
        /\ p.tsum \in Word
    BY DEF Packet
  <1> DEFINE q == rewriteTransport(p, old, new)
  <1>1. CASE p.frag = "tail"
    <2>1. q = p
      BY <1>1 DEF rewriteTransport
    <2> QED BY <1>1, <2>1 DEF SameButMessage
  <1>2. CASE p.frag # "tail" /\ p.proto \in {"tcp", "udp"}
    <2>1. q = IF ~p.whole \/ (p.proto = "udp" /\ p.tsum = 0) THEN p
              ELSE [p EXCEPT !.tsum = NonZero(updateAddress(p.tsum, old, new))]
      BY <1>2 DEF rewriteTransport
    <2>2. NonZero(updateAddress(p.tsum, old, new)) \in Word
      BY <1>0, UpdateAddressCong, NonZeroCong
    <2> HIDE DEF q
    <2>3. q \in Packet /\ SameButMessage(p, q)
      BY <2>1, <2>2 DEF Packet, SameButMessage
    <2> QED BY <1>2, <2>1, <2>3 DEF q
  <1>3. CASE p.frag # "tail" /\ p.proto = "icmp"
    <2>1. q = rewriteICMPInner(p, old, new)
      BY <1>3 DEF rewriteTransport
    <2> HIDE DEF q
    <2>2. q \in Packet /\ SameButMessage(p, q)
      BY <1>3, <2>1, InnerRewritten
    <2> QED BY <1>3, <2>1, <2>2 DEF q
  <1>4. CASE p.frag # "tail" /\ p.proto = "other"
    <2>1. q = p
      BY <1>4 DEF rewriteTransport
    <2> QED BY <1>4, <2>1 DEF SameButMessage
  <1> QED BY <1>0, <1>1, <1>2, <1>3, <1>4

\* What a rewrite leaves of a packet, its addresses apart.
SameElse(p, q) ==
    /\ q.rest = p.rest /\ q.proto = p.proto /\ q.port = p.port
    /\ q.frag = p.frag /\ q.whole = p.whole /\ q.body = p.body

\* A packet with one address moved and its header checksum corrected.
Moved(p, m, old, new) ==
    /\ m \in Packet /\ SameElse(p, m)
    /\ m.tsum = p.tsum /\ m.inner = p.inner
    /\ \/ p.src = old /\ m.src = new /\ m.dst = p.dst
       \/ p.dst = old /\ m.dst = new /\ m.src = p.src
    /\ m.csum = updateAddress(p.csum, old, new)

\* rewriteAddr keeps both verdicts of a receiver: on the header and on the message.
LEMMA MovedKept ==
    ASSUME NEW p \in Packet, NEW m, NEW old \in Address, NEW new \in Address,
           Moved(p, m, old, new)
    PROVE  LET q == rewriteTransport(m, old, new)
           IN Kept(p, q)
  <1> DEFINE q == rewriteTransport(m, old, new)
  <1>0. /\ p.src \in Address /\ p.dst \in Address /\ p.rest \in NonZeroWord
        /\ p.csum \in Word /\ p.tsum \in Word /\ p.body \in NonZeroWord
        /\ p.proto \in {"tcp", "udp", "icmp", "other"} /\ p.whole \in BOOLEAN
    BY DEF Packet
  <1>1. m \in Packet
    BY DEF Moved
  <1>2. q \in Packet /\ SameButMessage(m, q)
    BY <1>1, TransportRewritten
  <1>3. PICK o \in Address :
            \/ p.src = old /\ m.src = new /\ m.dst = p.dst /\ o = p.dst
            \/ p.dst = old /\ m.dst = new /\ m.src = p.src /\ o = p.src
    BY <1>0 DEF Moved
  <1>4. /\ AddressSum(o) \in 0 .. 2 * WordMax
        /\ AddressSum(old) \in 0 .. 2 * WordMax
        /\ AddressSum(new) \in 0 .. 2 * WordMax
    BY AddressSums
  <1>5. /\ AddressSum(p.src) + AddressSum(p.dst) = AddressSum(o) + AddressSum(old)
        /\ AddressSum(m.src) + AddressSum(m.dst) = AddressSum(o) + AddressSum(new)
    BY <1>3, <1>4
  <1>6. HeaderValid(p) <=> HeaderValid(q)
    <2> DEFINE x == p.rest + AddressSum(o)
    <2>1. x \in Nat /\ x > 0 /\ x <= 3 * WordMax
      BY <1>0, <1>4, WordMaxFacts DEF NonZeroWord, Word
    <2>2. /\ m.csum \in Word
          /\ Cong(m.csum, p.csum + AddressSum(old) - AddressSum(new))
      BY <1>0, UpdateAddressCong DEF Moved
    <2>3. HeaderSum(p) = x + AddressSum(old)
      BY <1>0, <1>3, <1>4 DEF HeaderSum, NonZeroWord, Word
    <2>4. HeaderSum(q) = x + AddressSum(new) /\ q.csum = m.csum
      BY <1>0, <1>2, <1>3, <1>4 DEF HeaderSum, SameButMessage, Moved, SameElse, NonZeroWord, Word
    <2> HIDE DEF x
    <2>5. Verifies(x + AddressSum(old) + p.csum) <=> Verifies(x + AddressSum(new) + m.csum)
      BY <1>0, <2>1, <2>2, SumKept
    <2> QED BY <2>3, <2>4, <2>5 DEF HeaderValid
  <1>7. ASSUME p.frag # "tail", p.whole, p.proto \in {"tcp", "udp"}
        PROVE  MessageKept(p, q)
    <2>1. m.frag # "tail" /\ m.whole /\ m.proto = p.proto /\ m.tsum = p.tsum /\ m.body = p.body
      BY <1>7 DEF Moved, SameElse
    <2>2. q = IF p.proto = "udp" /\ p.tsum = 0 THEN m
              ELSE [m EXCEPT !.tsum = NonZero(updateAddress(p.tsum, old, new))]
      BY <1>1, <1>7, <2>1, TransportRewritten
    <2>3. q.proto = p.proto /\ q.body = p.body /\ q.src = m.src /\ q.dst = m.dst
      BY <1>2, <2>1 DEF SameButMessage
    <2>4. CASE p.proto = "udp" /\ p.tsum = 0
      BY <2>1, <2>2, <2>4 DEF MessageKept, TransportValid
    <2>5. CASE ~(p.proto = "udp" /\ p.tsum = 0)
      <3> DEFINE u == updateAddress(p.tsum, old, new)
                 d == NonZero(u)
                 x == p.body + AddressSum(o)
      <3>1. u \in Word /\ Cong(u, p.tsum + AddressSum(old) - AddressSum(new))
        BY <1>0, UpdateAddressCong
      <3> HIDE DEF u
      <3>2. d \in Word /\ d # 0 /\ Cong(d, u)
        BY <3>1, NonZeroCong
      <3>3. q.tsum = d
        BY <1>1, <2>2, <2>5 DEF u, Packet
      <3> HIDE DEF d
      <3>4. p.tsum + AddressSum(old) - AddressSum(new) \in Int /\ u \in Int /\ d \in Int
        BY <1>0, <1>4, <3>1, <3>2, WordMaxFacts DEF Word
      <3>5. Cong(d, p.tsum + AddressSum(old) - AddressSum(new))
        BY <3>1, <3>2, <3>4, CongTrans
      <3>6. x \in Nat /\ x > 0 /\ x <= 3 * WordMax
        BY <1>0, <1>4, WordMaxFacts DEF NonZeroWord, Word
      <3>7. /\ AddressSum(p.src) + AddressSum(p.dst) + p.body = x + AddressSum(old)
            /\ AddressSum(m.src) + AddressSum(m.dst) + p.body = x + AddressSum(new)
        BY <1>0, <1>4, <1>5 DEF NonZeroWord, Word
      <3> HIDE DEF x
      <3>8. Verifies(x + AddressSum(old) + p.tsum) <=> Verifies(x + AddressSum(new) + d)
        BY <1>0, <3>2, <3>5, <3>6, SumKept
      <3>9. /\ TransportValid(p) <=> Verifies(x + AddressSum(old) + p.tsum)
            /\ TransportValid(q) <=> Verifies(x + AddressSum(new) + d)
        BY <1>7, <2>3, <2>5, <3>2, <3>3, <3>7 DEF TransportValid
      <3> QED BY <2>5, <3>2, <3>3, <3>8, <3>9 DEF MessageKept
    <2> QED BY <2>4, <2>5
  <1>8. ASSUME p.frag # "tail", p.proto = "icmp"
        PROVE  MessageKept(p, q)
    <2>1. m.frag # "tail" /\ m.proto = "icmp" /\ m.tsum = p.tsum /\ m.body = p.body
          /\ m.inner = p.inner
      BY <1>8 DEF Moved, SameElse
    <2>2. q = rewriteICMPInner(m, old, new)
      BY <1>1, <2>1, TransportRewritten
    <2>3. MessageKept(m, q)
      BY <1>1, <2>1, <2>2, InnerRewritten
    <2>4. TransportValid(p) <=> TransportValid(m)
      BY <1>8, <2>1 DEF TransportValid, QuoteSum
    <2> QED BY <1>8, <2>1, <2>3, <2>4 DEF MessageKept
  <1>9. ASSUME p.proto = "other"
        PROVE  MessageKept(p, q)
    <2>1. q.proto = "other"
      BY <1>2, <1>9 DEF SameButMessage, Moved, SameElse
    <2> QED BY <1>9, <2>1 DEF MessageKept, TransportValid
  <1>10. p.frag # "tail" /\ p.whole => MessageKept(p, q)
    BY <1>0, <1>7, <1>8, <1>9
  <1> QED BY <1>6, <1>10 DEF Kept, MessageKept

\* The quoted header of an error after a rewrite.
QuoteFollows(p, q, old, new) ==
    p.proto = "icmp" /\ p.frag # "tail" /\ p.inner # NoQuote =>
        /\ q.inner # NoQuote
        /\ IF old \in {p.inner.src, p.inner.dst} THEN Quotes(p, q, old, new)
           ELSE q.inner = p.inner

\* rewriteAddr keeps a quoted header true to the rewrite.
LEMMA QuoteRewritten ==
    ASSUME NEW p \in Packet, NEW m, NEW old \in Address, NEW new \in Address,
           Moved(p, m, old, new)
    PROVE  QuoteFollows(p, rewriteTransport(m, old, new), old, new)
  <1> DEFINE q == rewriteTransport(m, old, new)
  <1> SUFFICES ASSUME p.proto = "icmp", p.frag # "tail", p.inner # NoQuote
               PROVE  /\ q.inner # NoQuote
                      /\ IF old \in {p.inner.src, p.inner.dst} THEN Quotes(p, q, old, new)
                         ELSE q.inner = p.inner
    BY DEF QuoteFollows
  <1>1. m \in Packet /\ m.proto = "icmp" /\ m.frag # "tail" /\ m.inner = p.inner
    BY DEF Moved, SameElse
  <1>2. q = rewriteICMPInner(m, old, new)
    BY <1>1, TransportRewritten
  <1>3. CASE old \in {p.inner.src, p.inner.dst}
    <2>1. Quotes(m, q, old, new)
      BY <1>1, <1>2, <1>3, QuoteMoves
    <2>2. q.inner # NoQuote
      BY <2>1, NoQuoteIsNone DEF Quotes
    <2> QED BY <1>1, <1>3, <2>1, <2>2 DEF Quotes
  <1>4. CASE old \notin {p.inner.src, p.inner.dst}
    BY <1>1, <1>2, <1>4 DEF rewriteICMPInner
  <1> QED BY <1>3, <1>4

\* What the other side gets of a packet.
Carried(p, q, old, new) ==
    /\ q \in Packet /\ SameElse(p, q) /\ Kept(p, q) /\ QuoteFollows(p, q, old, new)

\* rewriteSource on a packet whose source is the old address.
LEMMA SourceRewritten ==
    ASSUME NEW p \in Packet, NEW old \in Address, NEW new \in Address, p.src = old
    PROVE  LET q == rewriteSource(p, old, new)
           IN Carried(p, q, old, new) /\ q.src = new /\ q.dst = p.dst
  <1> DEFINE m == [p EXCEPT !.src = new, !.csum = updateAddress(@, old, new)]
             q == rewriteTransport(m, old, new)
  <1>0. p.csum \in Word /\ updateAddress(p.csum, old, new) \in Word
    BY UpdateAddressCong DEF Packet
  <1>1. Moved(p, m, old, new) /\ m.src = new /\ m.dst = p.dst
    BY <1>0 DEF Moved, SameElse, Packet
  <1>2. rewriteSource(p, old, new) = q
    BY DEF rewriteSource
  <1> HIDE DEF m
  <1>3. m \in Packet /\ SameElse(p, m)
    BY <1>1 DEF Moved
  <1>4. q \in Packet /\ SameButMessage(m, q)
    BY <1>3, TransportRewritten
  <1>5. Kept(p, q) /\ QuoteFollows(p, q, old, new)
    BY <1>1, MovedKept, QuoteRewritten
  <1> HIDE DEF q
  <1>6. SameElse(p, q) /\ q.src = new /\ q.dst = p.dst
    BY <1>1, <1>3, <1>4 DEF SameElse, SameButMessage
  <1> QED BY <1>2, <1>4, <1>5, <1>6 DEF Carried

\* rewriteDestination on a packet whose destination is the old address.
LEMMA DestinationRewritten ==
    ASSUME NEW p \in Packet, NEW old \in Address, NEW new \in Address, p.dst = old
    PROVE  LET q == rewriteDestination(p, old, new)
           IN Carried(p, q, old, new) /\ q.src = p.src /\ q.dst = new
  <1> DEFINE m == [p EXCEPT !.dst = new, !.csum = updateAddress(@, old, new)]
             q == rewriteTransport(m, old, new)
  <1>0. p.csum \in Word /\ updateAddress(p.csum, old, new) \in Word
    BY UpdateAddressCong DEF Packet
  <1>1. Moved(p, m, old, new) /\ m.src = p.src /\ m.dst = new
    BY <1>0 DEF Moved, SameElse, Packet
  <1>2. rewriteDestination(p, old, new) = q
    BY DEF rewriteDestination
  <1> HIDE DEF m
  <1>3. m \in Packet /\ SameElse(p, m)
    BY <1>1 DEF Moved
  <1>4. q \in Packet /\ SameButMessage(m, q)
    BY <1>3, TransportRewritten
  <1>5. Kept(p, q) /\ QuoteFollows(p, q, old, new)
    BY <1>1, MovedKept, QuoteRewritten
  <1> HIDE DEF q
  <1>6. SameElse(p, q) /\ q.src = p.src /\ q.dst = new
    BY <1>1, <1>3, <1>4 DEF SameElse, SameButMessage
  <1> QED BY <1>2, <1>4, <1>5, <1>6 DEF Carried

-----------------------------------------------------------------------------
(* Packets and errors on their way.                                          *)

\* The addresses that are configured or not yet assigned are addresses.
LEMMA UnassignedIsAddress == Unassigned \in Address /\ PeerIP \in Address
  BY MappingAssumption, WordMaxFacts DEF Unassigned, Address, Word

\* The packets that peer and campus make are packets.
LEMMA SentIsPacket ==
    ASSUME NEW src \in Address, NEW dst \in Address, NEW ports,
           ports \subseteq Ports \cup {0}, NEW p \in Packets(src, dst, ports)
    PROVE  p \in Packet /\ p.src = src /\ p.dst = dst
  <1>1. PICK piece \in {<<"no", TRUE>>, <<"first", TRUE>>, <<"first", FALSE>>, <<"tail", FALSE>>} :
            p \in [src : {src}, dst : {dst}, rest : Rests, csum : Word,
                   proto : {"tcp", "udp", "icmp", "other"}, port : ports,
                   frag : {piece[1]}, whole : {piece[2]},
                   tsum : Word, body : Bodies, inner : {NoQuote}]
    BY DEF Packets
  <1>2. piece[1] \in {"no", "first", "tail"} /\ piece[2] \in {TRUE, FALSE}
    <2>1. CASE piece = <<"no", TRUE>>
      BY <2>1
    <2>2. CASE piece = <<"first", TRUE>>
      BY <2>2
    <2>3. CASE piece = <<"first", FALSE>>
      BY <2>3
    <2>4. CASE piece = <<"tail", FALSE>>
      BY <2>4
    <2> QED BY <2>1, <2>2, <2>3, <2>4
  <1>3. Rests \subseteq NonZeroWord /\ Bodies \subseteq NonZeroWord
    BY DataPathAssumption DEF NonZeroWord
  <1> QED BY <1>1, <1>2, <1>3 DEF Packet

\* An error about p.
IsError(p, e) ==
    /\ e \in Packet /\ e.src = p.dst /\ e.dst = p.src
    /\ e.proto = "icmp" /\ e.frag # "tail"
    /\ e.inner = NoQuote \/ e.inner = Header(p)

\* An error about p before its checksums are written.
Blank(p, body, frag, quote) ==
    [src |-> p.dst, dst |-> p.src, rest |-> body, csum |-> 0,
     proto |-> "icmp", port |-> 0, frag |-> frag, whole |-> TRUE,
     tsum |-> 0, body |-> body, inner |-> quote]
WithSums(e) == [e EXCEPT !.csum = checksum16(e),
                         !.tsum = Not(Fold(QuoteSum(e) + e.body))]

\* The errors about a packet, by what they are made of.
LEMMA ErrorsAre ==
    ASSUME NEW p
    PROVE  Errors(p) = {WithSums(Blank(p, b, f, q)) :
                            b \in Bodies, f \in {"no", "first"}, q \in {NoQuote, Header(p)}}
  BY DEF Errors, WithSums, Blank

\* An error about a packet is an ICMP packet back to its source that quotes its header or
\* nothing.
LEMMA ErrorIsPacket ==
    ASSUME NEW p \in Packet, NEW e \in Errors(p)
    PROVE  IsError(p, e)
  <1>1. PICK b \in Bodies, f \in {"no", "first"}, q \in {NoQuote, Header(p)} :
            e = WithSums(Blank(p, b, f, q))
    BY ErrorsAre
  <1>2. b \in NonZeroWord
    BY DataPathAssumption DEF NonZeroWord
  <1>3. p.src \in Address /\ p.dst \in Address /\ Header(p) \in QuotedHeader
    BY DEF Packet, Header, QuotedHeader
  <1> DEFINE x == Blank(p, b, f, q)
  <1>4. /\ x \in Packet /\ x.src = p.dst /\ x.dst = p.src /\ x.rest = b /\ x.body = b
        /\ x.proto = "icmp" /\ x.frag = f /\ x.inner = q
    BY <1>2, <1>3, WordMaxFacts DEF Packet, Word, Blank
  <1> HIDE DEF x
  <1>5. checksum16(x) \in Word
    BY <1>2, <1>3, <1>4, ChecksumFacts
  <1>6. Not(Fold(QuoteSum(x) + x.body)) \in Word
    <2>1. QuoteSum(x) + x.body \in Nat /\ QuoteSum(x) + x.body <= 6 * WordMax
      BY <1>2, <1>4, QuoteSums, WordMaxFacts DEF NonZeroWord, Word
    <2>2. Fold(QuoteSum(x) + x.body) \in Word
      BY <2>1, Folded
    <2> QED BY <2>2, WordMaxFacts DEF Not, Word
  <1>7. e = [x EXCEPT !.csum = checksum16(x),
                      !.tsum = Not(Fold(QuoteSum(x) + x.body))]
    BY <1>1 DEF x, WithSums
  <1>8. /\ e \in Packet /\ e.src = x.src /\ e.dst = x.dst /\ e.proto = x.proto
        /\ e.frag = x.frag /\ e.inner = x.inner
    BY <1>4, <1>5, <1>6, <1>7 DEF Packet
  <1> QED BY <1>1, <1>4, <1>8 DEF IsError

\* Uplink lets a packet of the peer through with the tunnel's address as its source.
LEMMA UplinkCarries ==
    ASSUME NEW p \in Packet, NEW public \in Address, Uplink(p, public) # NoPacket
    PROVE  /\ p.src = PeerIP
           /\ Carried(p, Uplink(p, public), PeerIP, public)
           /\ Uplink(p, public).src = public /\ Uplink(p, public).dst = p.dst
  <1>1. p.src = PeerIP /\ Uplink(p, public) = rewriteSource(p, PeerIP, public)
    BY DEF Uplink
  <1> QED BY <1>1, SourceRewritten, UnassignedIsAddress

\* Downlink lets a packet to the tunnel's address through with the peer's address as its
\* destination.
LEMMA DownlinkCarries ==
    ASSUME NEW p \in Packet, NEW public \in Address, Downlink(p, public) # NoPacket
    PROVE  /\ p.dst = public
           /\ Carried(p, Downlink(p, public), public, PeerIP)
           /\ Downlink(p, public).src = p.src /\ Downlink(p, public).dst = PeerIP
  <1>1. p.dst = public /\ Downlink(p, public) = rewriteDestination(p, public, PeerIP)
    BY DEF Downlink
  <1> QED BY <1>1, DestinationRewritten, UnassignedIsAddress

\* Relay.Write passes on what Uplink made.
LEMMA WriteIsUplink ==
    ASSUME NEW p, Write(p) # NoPacket
    PROVE  Write(p) = Uplink(p, local) /\ Uplink(p, local) # NoPacket
  BY DEF Write

\* An error about p that quotes its header is rewritten like p, the other way round.
LEMMA QuoteComesHome ==
    ASSUME NEW p \in Packet, NEW e, IsError(p, e), NEW q, NEW old \in Address,
           NEW new \in Address, QuoteFollows(e, q, old, new),
           e.inner # NoQuote, old \in {p.src, p.dst}
    PROVE  /\ q.inner.src = Replace(p.src, old, new)
           /\ q.inner.dst = Replace(p.dst, old, new)
           /\ q.inner.rest = p.rest
           /\ q.inner \in QuotedHeader
           /\ HeaderValid(q.inner)
  <1>1. e.inner = Header(p) /\ e.inner.src = p.src /\ e.inner.dst = p.dst /\ e.inner.rest = p.rest
    BY DEF IsError, Header
  <1>2. Quotes(e, q, old, new)
    BY <1>1 DEF QuoteFollows, IsError
  <1>3. HeaderValid(q.inner)
    BY <1>2, FreshHeaderValid DEF Quotes, QuotedHeader
  <1> QED BY <1>1, <1>2, <1>3 DEF Quotes

\* ErrorsComeHome, of any packet s, error r about it and outcome h.
CameHome(s, r, h) ==
    h # NoPacket =>
        /\ h.dst = s.src
        /\ r.inner # NoQuote =>
            LET made == IF s.src = PeerIP THEN s ELSE [s EXCEPT !.dst = h.src]
            IN /\ HeaderValid(h.inner)
               /\ h.inner = [Header(made) EXCEPT !.csum = h.inner.csum]

\* A header with the fields of a packet is that packet's header, its checksum apart.
LEMMA QuotesWhatWasMade ==
    ASSUME NEW made \in Packet, NEW h \in QuotedHeader, h.src = made.src,
           h.dst = made.dst, h.rest = made.rest
    PROVE  h = [Header(made) EXCEPT !.csum = h.csum]
  BY DEF Header, QuotedHeader

\* An error of the campus finds the peer, and quotes what the peer wrote.
LEMMA CampusErrorHome ==
    ASSUME NEW s, NEW w, NEW e, NEW h, Underway(s, w), s.src = PeerIP,
           IsError(w, e), local \in Publics, e.dst = local,
           Carried(e, h, local, PeerIP), h.dst = PeerIP
    PROVE  CameHome(s, e, h)
  <1>1. /\ s \in Packet /\ w \in Packet /\ w.src = local /\ w.dst = s.dst
        /\ w.rest = s.rest /\ s.dst \in Remotes
    BY DEF IsError, Underway
  <1>2. s.dst # local /\ local \in Address /\ PeerIP \in Address
    BY <1>1, DataPathAssumption, UnassignedIsAddress
  <1>3. ASSUME e.inner # NoQuote
        PROVE  /\ HeaderValid(h.inner)
               /\ h.inner = [Header(s) EXCEPT !.csum = h.inner.csum]
    <2>1. /\ h.inner.src = Replace(w.src, local, PeerIP)
          /\ h.inner.dst = Replace(w.dst, local, PeerIP)
          /\ h.inner.rest = w.rest /\ h.inner \in QuotedHeader
          /\ HeaderValid(h.inner)
      BY <1>1, <1>2, <1>3, QuoteComesHome DEF Carried
    <2>2. h.inner.src = s.src /\ h.inner.dst = s.dst /\ h.inner.rest = s.rest
      BY <1>1, <1>2, <2>1 DEF Replace
    <2> QED BY <1>1, <2>1, <2>2, QuotesWhatWasMade
  <1> QED BY <1>3 DEF CameHome

\* An error of the peer finds the campus host, and quotes what that host wrote, to the
\* address we have now.
LEMMA PeerErrorHome ==
    ASSUME NEW s, NEW w, NEW e, NEW h, Underway(s, w), s.src # PeerIP,
           IsError(w, e), local \in Publics,
           Carried(e, h, PeerIP, local), h.src = local, h.dst = e.dst
    PROVE  CameHome(s, e, h)
  <1> DEFINE made == [s EXCEPT !.dst = h.src]
  <1>1. /\ s \in Packet /\ w \in Packet /\ w.src = s.src /\ w.dst = PeerIP
        /\ w.rest = s.rest /\ s.src \in Remotes /\ e.dst = w.src
    BY DEF IsError, Underway
  <1>2. local \in Address /\ PeerIP \in Address
    BY DataPathAssumption, UnassignedIsAddress
  <1>4. made \in Packet /\ made.src = s.src /\ made.dst = local /\ made.rest = s.rest
    BY <1>1, <1>2 DEF Packet
  <1> HIDE DEF made
  <1>3. ASSUME e.inner # NoQuote
        PROVE  /\ HeaderValid(h.inner)
               /\ h.inner = [Header(made) EXCEPT !.csum = h.inner.csum]
    <2>1. /\ h.inner.src = Replace(w.src, PeerIP, local)
          /\ h.inner.dst = Replace(w.dst, PeerIP, local)
          /\ h.inner.rest = w.rest /\ h.inner \in QuotedHeader
          /\ HeaderValid(h.inner)
      BY <1>1, <1>2, <1>3, QuoteComesHome DEF Carried
    <2>2. h.inner.src = made.src /\ h.inner.dst = made.dst /\ h.inner.rest = made.rest
      BY <1>1, <1>4, <2>1 DEF Replace
    <2> QED BY <1>4, <2>1, <2>2, QuotesWhatWasMade
  <1> QED BY <1>1, <1>3 DEF CameHome, made

\* Nothing is under way.
LEMMA PathInitially == Init => PathInv
  BY DEF Init, PathInv, ErrorsComeHome

\* Every step keeps the packet under way, and the error about it, consistent with what their
\* senders made.
LEMMA PathStep == PathInv /\ [Next]_vars => PathInv'
  <1> SUFFICES ASSUME PathInv, [Next]_vars PROVE PathInv'
    OBVIOUS
  <1>0. local \in Address
    BY DataPathAssumption, UnassignedIsAddress DEF PathInv
  <1> USE DEF PathInv
  <1>1. ASSUME NEW d \in Docs, prepare(d) PROVE PathInv'
    BY <1>1 DEF prepare, ErrorsComeHome
  <1>2. ASSUME NEW a \in Publics, SetLocalAddr(a) PROVE PathInv'
    BY <1>2 DEF SetLocalAddr, ErrorsComeHome
  <1>3. ASSUME Close PROVE PathInv'
    BY <1>3 DEF Close, Clear, ErrorsComeHome
  <1>4. ASSUME NEW r \in Remotes, NEW p \in Packets(PeerIP, r, Ports), PeerSends(p)
        PROVE PathInv'
    <2>1. p \in Packet /\ p.src = PeerIP /\ p.dst = r
      BY SentIsPacket, UnassignedIsAddress, DataPathAssumption
    <2>2. /\ sent' = p /\ seen' = Uplink(p, local) /\ Uplink(p, local) # NoPacket
          /\ reply = NoPacket /\ home = NoPacket
          /\ UNCHANGED <<local, reply, home>>
      BY <1>4, WriteIsUplink DEF PeerSends
    <2>3. Carried(p, seen', PeerIP, local) /\ seen'.dst = p.dst
      BY <1>0, <2>1, <2>2, UplinkCarries
    <2>4. Underway(p, seen')
      BY <2>1, <2>3 DEF Underway, Carried, SameElse
    <2> QED BY <2>2, <2>4 DEF ErrorsComeHome
  <1>5. ASSUME NEW r \in Remotes, NEW a \in Publics, NEW p \in Packets(r, a, {0}),
               CampusSends(p)
        PROVE PathInv'
    <2>1. p \in Packet /\ p.src = r /\ p.dst = a
      BY SentIsPacket, DataPathAssumption
    <2>2. /\ sent' = p /\ seen' = Downlink(p, local) /\ Downlink(p, local) # NoPacket
          /\ reply = NoPacket /\ home = NoPacket
          /\ UNCHANGED <<local, reply, home>>
      BY <1>5 DEF CampusSends, deliverFrom
    <2>3. /\ Carried(p, seen', local, PeerIP) /\ seen'.dst = PeerIP
          /\ seen'.src = p.src
      BY <1>0, <2>1, <2>2, DownlinkCarries
    <2>4. r # PeerIP
      BY DataPathAssumption
    <2>5. Underway(p, seen')
      BY <2>1, <2>3, <2>4 DEF Underway, Carried, SameElse
    <2> QED BY <2>2, <2>5 DEF ErrorsComeHome
  <1>6. ASSUME NEW e \in Errors(seen), CampusReports(e) PROVE PathInv'
    <2>1. /\ sent # NoPacket /\ sent.src = PeerIP /\ Underway(sent, seen)
          /\ reply' = e /\ home' = Downlink(e, local) /\ Downlink(e, local) # NoPacket
          /\ UNCHANGED <<local, sent, seen>>
      BY <1>6 DEF CampusReports, deliverFrom
    <2>2. seen \in Packet /\ IsError(seen, e) /\ e \in Packet
      BY <2>1, ErrorIsPacket DEF Underway, IsError
    <2>3. /\ e.dst = local /\ Carried(e, home', local, PeerIP) /\ home'.dst = PeerIP
      BY <1>0, <2>1, <2>2, DownlinkCarries
    <2>4. local \in Publics
      BY <2>1 DEF Downlink
    <2>5. CameHome(sent, e, home')
      BY <2>1, <2>2, <2>3, <2>4, CampusErrorHome
    <2>6. ErrorsComeHome'
      BY <2>1, <2>5 DEF ErrorsComeHome, CameHome
    <2>7. Kept(e, home')
      BY <2>3 DEF Carried
    <2> QED BY <2>1, <2>6, <2>7
  <1>7. ASSUME NEW e \in Errors(seen), PeerReports(e) PROVE PathInv'
    <2>1. /\ sent # NoPacket /\ sent.src # PeerIP /\ Underway(sent, seen)
          /\ reply' = e /\ home' = Uplink(e, local) /\ Uplink(e, local) # NoPacket
          /\ UNCHANGED <<local, sent, seen>>
      BY <1>7, WriteIsUplink DEF PeerReports
    <2>2. seen \in Packet /\ IsError(seen, e) /\ e \in Packet
      BY <2>1, ErrorIsPacket DEF Underway, IsError
    <2>3. /\ Carried(e, home', PeerIP, local) /\ home'.src = local
          /\ home'.dst = e.dst
      BY <1>0, <2>1, <2>2, UplinkCarries
    <2>4. local \in Publics
      BY <2>1 DEF Uplink
    <2>5. CameHome(sent, e, home')
      BY <2>1, <2>2, <2>3, <2>4, PeerErrorHome
    <2>6. ErrorsComeHome'
      BY <2>1, <2>5 DEF ErrorsComeHome, CameHome
    <2>7. Kept(e, home')
      BY <2>3 DEF Carried
    <2> QED BY <2>1, <2>6, <2>7
  <1>8. ASSUME Forget PROVE PathInv'
    BY <1>8 DEF Forget, Clear, ErrorsComeHome
  <1>9. ASSUME UNCHANGED vars PROVE PathInv'
    BY <1>9 DEF vars, ErrorsComeHome
  <1> QED
    BY <1>1, <1>2, <1>3, <1>4, <1>5, <1>6, <1>7, <1>8, <1>9 DEF Next

\* So PathInv holds always.
LEMMA PathInvariant == Spec => []PathInv
  BY PathInitially, PathStep, PTL DEF Spec

\* A receiver accepts a rewritten packet exactly if it would have accepted the original:
\* Uplink and Downlink neither break a checksum nor hide damage, for every word size, address
\* and sum.
THEOREM ChecksumsAreKept == Spec => []ChecksumsCarryOver
  <1>1. PathInv => ChecksumsCarryOver
    BY DEF PathInv, ChecksumsCarryOver, Underway
  <1> QED BY <1>1, PathInvariant, PTL

\* Every error comes back to the sender of the packet it is about and quotes the header that
\* sender wrote, whatever address the tunnel has by then.
THEOREM ErrorsReachTheSender == Spec => []ErrorsComeHome
  <1>1. PathInv => ErrorsComeHome
    BY DEF PathInv
  <1> QED BY <1>1, PathInvariant, PTL

-----------------------------------------------------------------------------
(* Sorting: the members of a set in an order.                                *)

\* A set of numbers that is not empty has a least one.
LEMMA LeastNat ==
    ASSUME NEW T, T \subseteq Nat, T # {}
    PROVE  \E x \in T : \A y \in T : x <= y
  <1>1. IsWellFoundedOn(OpToRel(<, Nat), Nat)
    BY NatLessThanWellFounded
  <1> DEFINE R == OpToRel(<, Nat)
  <1>2. \A x \in Nat : \A y \in Nat : y < x => <<y, x>> \in R
    BY Zenon DEF OpToRel
  <1> HIDE DEF R
  <1>3. IsWellFoundedOn(R, Nat)
    BY <1>1 DEF R
  <1>4. PICK x \in T : \A y \in T : ~ (<<y, x>> \in R)
    BY <1>3, WFMin
  <1>5. \A y \in T : ~ (y < x)
    BY <1>2, <1>4
  <1>6. \A y \in T : x <= y
    BY <1>5
  <1> QED BY <1>6

\* That least number is what Min chooses.
LEMMA MinIs ==
    ASSUME NEW T, T \subseteq Nat, T # {}
    PROVE  Min(T) \in T /\ \A y \in T : Min(T) <= y
  BY LeastNat DEF Min

\* R says of any two members of S which comes first.
IsOrder(S, R) ==
    /\ \A x \in S : <<x, x>> \notin R
    /\ \A x, y \in S : x # y => <<x, y>> \in R \/ <<y, x>> \in R
    /\ \A x, y, z \in S : <<x, y>> \in R /\ <<y, z>> \in R => <<x, z>> \in R

\* l lists S in the order R.
Listing(S, R, l) ==
    /\ DOMAIN l = 1 .. Cardinality(S) /\ Cardinality(S) \in Nat
    /\ \A k \in DOMAIN l : l[k] \in S
    /\ \A x \in S : \E k \in DOMAIN l : l[k] = x
    /\ \A j, k \in DOMAIN l : j < k => <<l[j], l[k]>> \in R

\* Enumerate lists a finite set, each member once, in the order it is given.
LEMMA Enumerated ==
    ASSUME NEW S, NEW R, IsFiniteSet(S), IsOrder(S, R)
    PROVE  Listing(S, R, Enumerate(S, R))
  <1> DEFINE n == Cardinality(S)
             Under(x) == {y \in S : <<y, x>> \in R}
             place(x) == 1 + Cardinality(Under(x))
             p == [x \in S |-> place(x)]
             l == Enumerate(S, R)
  <1>1. n \in Nat
    BY FS_CardinalityType
  <1>2. \A x \in S : IsFiniteSet(Under(x)) /\ Cardinality(Under(x)) \in Nat
    <2> TAKE x \in S
    <2>1. Under(x) \subseteq S
      OBVIOUS
    <2> HIDE DEF Under
    <2> QED BY <2>1, FS_Subset, FS_CardinalityType
  <1>3. \A x \in S : Cardinality(Under(x)) < n
    <2> TAKE x \in S
    <2>1. Under(x) \subseteq S /\ x \notin Under(x)
      BY DEF IsOrder
    <2> HIDE DEF Under
    <2> QED BY <1>1, <1>2, <2>1, FS_Subset
  <1>4. \A x, y \in S : <<x, y>> \in R => Cardinality(Under(x)) < Cardinality(Under(y))
    <2> TAKE x, y \in S
    <2> HAVE <<x, y>> \in R
    <2>1. Under(x) \subseteq Under(y) /\ x \in Under(y) /\ x \notin Under(x)
      BY DEF IsOrder
    <2> HIDE DEF Under
    <2> QED BY <1>2, <2>1, FS_Subset
  <1> HIDE DEF Under
  <1>5. \A x \in S : place(x) \in 1 .. n
    BY <1>1, <1>2, <1>3
  <1>6. \A x, y \in S : <<x, y>> \in R => place(x) < place(y)
    BY <1>2, <1>4
  <1>7. l = [k \in 1 .. n |-> CHOOSE x \in S : place(x) = k]
    BY DEF Enumerate, Under
  <1> HIDE DEF place
  <1>8. \A x, y \in S : place(x) = place(y) => x = y
    <2> SUFFICES ASSUME NEW x \in S, NEW y \in S, x # y
                 PROVE  place(x) # place(y)
      OBVIOUS
    <2>1. place(x) \in Int /\ place(y) \in Int
      BY <1>1, <1>5
    <2>2. <<x, y>> \in R \/ <<y, x>> \in R
      BY DEF IsOrder
    <2> QED BY <1>6, <2>1, <2>2
  <1>9. p \in Injection(S, 1 .. n)
    BY <1>5, <1>8 DEF Injection, IsInjective
  <1>10. IsFiniteSet(1 .. n) /\ Cardinality(1 .. n) = n
    BY <1>1, FS_Interval
  <1>11. p \in Surjection(S, 1 .. n)
    <2> HIDE DEF p
    <2> QED BY <1>9, <1>10, FS_Injection
  <1>12. \A k \in 1 .. n : \E x \in S : place(x) = k
    BY <1>11 DEF Surjection
  <1>13. \A k \in 1 .. n : l[k] \in S /\ place(l[k]) = k
    BY <1>7, <1>12
  <1>14. DOMAIN l = 1 .. n
    BY <1>7
  <1> HIDE DEF l, p, n
  <1>15. \A x \in S : l[place(x)] = x /\ place(x) \in 1 .. n
    BY <1>5, <1>8, <1>13
  <1>16. \A j, k \in DOMAIN l : j < k => <<l[j], l[k]>> \in R
    <2> SUFFICES ASSUME NEW j \in 1 .. n, NEW k \in 1 .. n, j < k
                 PROVE  <<l[j], l[k]>> \in R
      BY <1>14
    <2>1. l[j] \in S /\ l[k] \in S /\ place(l[j]) = j /\ place(l[k]) = k
      BY <1>13
    <2>2. l[j] # l[k]
      BY <2>1
    <2>3. <<l[k], l[j]>> \notin R
      BY <1>6, <2>1
    <2> QED BY <2>1, <2>2, <2>3 DEF IsOrder
  <1> QED BY <1>1, <1>13, <1>14, <1>15, <1>16 DEF Listing, l, n

\* A comparison that orders by rank.
IsPreorder(S, less) ==
    /\ \A x \in S : <<x, x>> \notin less
    /\ \A x, y \in S : <<x, y>> \in less => <<y, x>> \notin less
    /\ \A x, y, z \in S : <<x, y>> \in less => <<x, z>> \in less \/ <<z, y>> \in less

\* What slices.SortStableFunc puts first.
Stable(S, less) == {p \in S \X S : p \in less \/ (p[1] < p[2] /\ <<p[2], p[1]>> \notin less)}

\* What comes first in a stable sort: the lesser, and of equals the one that stood first.
LEMMA StablePairs ==
    ASSUME NEW S, NEW less, NEW x \in S, NEW y \in S
    PROVE  <<x, y>> \in Stable(S, less) <=> <<x, y>> \in less \/ (x < y /\ <<y, x>> \notin less)
  BY DEF Stable

\* That leaves no two places undecided if the comparison ranks.
LEMMA StableIsOrder ==
    ASSUME NEW S, S \subseteq Nat, NEW less, IsPreorder(S, less)
    PROVE  IsOrder(S, Stable(S, less))
  <1>1. \A x \in S : <<x, x>> \notin Stable(S, less)
    <2> TAKE x \in S
    <2>1. x \in Nat /\ ~(x < x)
      OBVIOUS
    <2> QED BY <2>1, StablePairs DEF IsPreorder
  <1>2. ASSUME NEW x \in S, NEW y \in S, x # y
        PROVE  <<x, y>> \in Stable(S, less) \/ <<y, x>> \in Stable(S, less)
    <2>1. x < y \/ y < x
      BY <1>2
    <2> QED BY <2>1, StablePairs DEF IsPreorder
  <1>3. ASSUME NEW x \in S, NEW y \in S, NEW z \in S,
               <<x, y>> \in Stable(S, less), <<y, z>> \in Stable(S, less)
        PROVE  <<x, z>> \in Stable(S, less)
    <2>1. <<x, y>> \in less \/ (x < y /\ <<y, x>> \notin less)
      BY <1>3, StablePairs
    <2>2. <<y, z>> \in less \/ (y < z /\ <<z, y>> \notin less)
      BY <1>3, StablePairs
    <2>3. x < y /\ y < z => x < z
      OBVIOUS
    <2>4. <<x, z>> \in less \/ (x < z /\ <<z, x>> \notin less)
      BY <2>1, <2>2, <2>3 DEF IsPreorder
    <2> QED BY <2>4, StablePairs
  <1> QED BY <1>1, <1>2, <1>3 DEF IsOrder

\* slices.SortStableFunc lists the places in that order.
LEMMA Sorted ==
    ASSUME NEW S, S \subseteq Nat, IsFiniteSet(S), NEW less, IsPreorder(S, less)
    PROVE  Listing(S, Stable(S, less), SortStable(S, less))
  <1>1. SortStable(S, less) = Enumerate(S, Stable(S, less))
    BY DEF SortStable, Stable
  <1> QED BY <1>1, StableIsOrder, Enumerated

-----------------------------------------------------------------------------
(* The rules for addresses.                                                  *)

\* The addresses of a document that become IP rules.
IPPlaces(items) == {i \in DOMAIN items : Usable(items[i]) /\ items[i].host.kind = "ip"}

\* The places of a list are finitely many numbers.
LEMMA PlacesFinite ==
    ASSUME NEW s, NEW T, s \in Seq(T), NEW P \in SUBSET DOMAIN s
    PROVE  P \subseteq Nat /\ IsFiniteSet(P) /\ Cardinality(P) \in Nat
  <1>1. P \subseteq 1 .. Len(s) /\ Len(s) \in Nat
    OBVIOUS
  <1>2. IsFiniteSet(1 .. Len(s))
    BY <1>1, FS_Interval
  <1> QED BY <1>1, <1>2, FS_Subset, FS_CardinalityType

\* What IPBefore compares.
IsIPRule(r) == r.prefix.bits \in 0 .. 2 /\ r.prefix.addr \in [1 .. 2 -> Nat]

\* The comparison of parseResourceTable for IP rules ranks them.
LEMMA IPBeforeRanks ==
    ASSUME NEW a, NEW b, NEW c, IsIPRule(a), IsIPRule(b), IsIPRule(c)
    PROVE  /\ ~IPBefore(a, a)
           /\ IPBefore(a, b) => ~IPBefore(b, a)
           /\ IPBefore(a, b) => IPBefore(a, c) \/ IPBefore(c, b)
  <1>1. \A x, y \in [1 .. 2 -> Nat] : x = y <=> x[1] = y[1] /\ x[2] = y[2]
    OBVIOUS
  <1>2. /\ a.prefix.bits \in Int /\ b.prefix.bits \in Int /\ c.prefix.bits \in Int
        /\ a.prefix.addr[1] \in Int /\ b.prefix.addr[1] \in Int /\ c.prefix.addr[1] \in Int
        /\ a.prefix.addr[2] \in Int /\ b.prefix.addr[2] \in Int /\ c.prefix.addr[2] \in Int
    BY DEF IsIPRule
  <1>3. /\ a.prefix.addr = b.prefix.addr <=> a.prefix.addr[1] = b.prefix.addr[1] /\ a.prefix.addr[2] = b.prefix.addr[2]
        /\ b.prefix.addr = a.prefix.addr <=> a.prefix.addr[1] = b.prefix.addr[1] /\ a.prefix.addr[2] = b.prefix.addr[2]
        /\ a.prefix.addr = c.prefix.addr <=> a.prefix.addr[1] = c.prefix.addr[1] /\ a.prefix.addr[2] = c.prefix.addr[2]
        /\ c.prefix.addr = b.prefix.addr <=> c.prefix.addr[1] = b.prefix.addr[1] /\ c.prefix.addr[2] = b.prefix.addr[2]
    BY <1>1 DEF IsIPRule
  <1>4. ~IPBefore(a, a)
    BY <1>2 DEF IPBefore, AddressBefore
  <1>5. IPBefore(a, b) => ~IPBefore(b, a)
    BY <1>2, <1>3 DEF IPBefore, AddressBefore
  <1>6. IPBefore(a, b) => IPBefore(a, c) \/ IPBefore(c, b)
    BY <1>2, <1>3 DEF IPBefore, AddressBefore
  <1> QED BY <1>4, <1>5, <1>6

\* The fields of the rule of an address.
LEMMA IPRuleOfItem ==
    ASSUME NEW it \in Item, it.host.kind = "ip"
    PROVE  /\ it.host \in Hosts4 /\ it.host.bits \in 0 .. 2 /\ it.host.addr \in Nat \X Nat
           /\ IsIPRule(IPRule(it)) /\ IPRule(it).grant = Grant(it)
           /\ IPRule(it).protocol = it.protocol /\ IPRule(it).ports = parsePortRange(it.ports)
           /\ IPRule(it).prefix = Masked(it.host)
  <1>1. it.host \in Hosts4
    BY DEF Item, HostNames
  <1>2. it.host.bits \in 0 .. 2 /\ it.host.addr \in Nat \X Nat
    BY <1>1 DEF Hosts4
  <1>3. Masked(it.host).bits = it.host.bits /\ Masked(it.host).addr \in [1 .. 2 -> Nat]
    BY <1>2 DEF Masked
  <1> QED BY <1>1, <1>2, <1>3 DEF IPRule, IsIPRule

\* The IP rules of a document, by the places they come from.
LEMMA IPRulesListed ==
    ASSUME NEW items \in Seq(Item)
    PROVE  \E list :
              LET found == IPPlaces(items)
                  less == {p \in found \X found : IPBefore(IPRule(items[p[1]]), IPRule(items[p[2]]))}
              IN /\ Listing(found, Stable(found, less), list)
                 /\ DOMAIN ipRules(items) = DOMAIN list
                 /\ \A k \in DOMAIN list : ipRules(items)[k] = IPRule(items[list[k]])
  <1> DEFINE found == IPPlaces(items)
             less == {p \in found \X found : IPBefore(IPRule(items[p[1]]), IPRule(items[p[2]]))}
             rule == [i \in found |-> IPRule(items[i])]
             given == {p \in found \X found : IPBefore(rule[p[1]], rule[p[2]])}
             list == SortStable(found, less)
  <1>1. found \subseteq Nat /\ IsFiniteSet(found)
    <2>1. found \in SUBSET DOMAIN items
      BY DEF IPPlaces
    <2> QED BY <2>1, PlacesFinite
  <1>2. \A i \in found : IsIPRule(IPRule(items[i]))
    BY IPRuleOfItem DEF IPPlaces
  <1> HIDE DEF found
  <1>3. \A x, y \in found : <<x, y>> \in less <=> IPBefore(IPRule(items[x]), IPRule(items[y]))
    OBVIOUS
  <1>4. given = less
    OBVIOUS
  <1> HIDE DEF less
  <1>5. IsPreorder(found, less)
    BY <1>2, <1>3, IPBeforeRanks DEF IsPreorder
  <1>6. Listing(found, Stable(found, less), list)
    BY <1>1, <1>5, Sorted
  <1>7. ipRules(items) = [k \in DOMAIN list |-> rule[list[k]]]
    <2> DEFINE given_list == SortStable(found, given)
    <2>1. ipRules(items) = [k \in DOMAIN given_list |-> rule[given_list[k]]]
      BY DEF ipRules, found, IPPlaces
    <2> QED BY <1>4, <2>1
  <1> HIDE DEF list
  <1>8. \A k \in DOMAIN list : list[k] \in found
    BY <1>6 DEF Listing
  <1>9. /\ DOMAIN ipRules(items) = DOMAIN list
        /\ \A k \in DOMAIN list : ipRules(items)[k] = IPRule(items[list[k]])
    BY <1>7, <1>8
  <1> QED BY <1>6, <1>9 DEF less, found

-----------------------------------------------------------------------------
(* The rule for a destination.                                               *)

\* A port range is a pair of numbers.
LEMMA PairIs ==
    ASSUME NEW p \in Nat \X Nat
    PROVE  /\ p[1] \in Nat /\ p[2] \in Nat /\ p # <<>>
           /\ p = <<0, 0>> <=> p[1] = 0 /\ p[2] = 0
  OBVIOUS

\* parsePortRange: which ranges are refused, and which ports the others contain.
LEMMA PortsParsed ==
    ASSUME NEW p \in Nat \X Nat, NEW port \in 1 .. PortMax
    PROVE  /\ parsePortRange(p) # <<>> <=>
                p = <<0, 0>> \/ (p[1] > 0 /\ p[1] <= p[2] /\ p[2] <= PortMax)
           /\ parsePortRange(p) # <<>> =>
                (InRange(port, parsePortRange(p)) <=>
                    p = <<0, 0>> \/ (p[1] <= port /\ port <= p[2]))
  <1>0. /\ p[1] \in Nat /\ p[2] \in Nat /\ p # <<>>
        /\ p = <<0, 0>> <=> p[1] = 0 /\ p[2] = 0
    BY PairIs
  <1>1. CASE p = <<0, 0>>
    <2>1. parsePortRange(p) = <<1, PortMax>>
      BY <1>1 DEF parsePortRange
    <2>2. InRange(port, <<1, PortMax>>) /\ <<1, PortMax>> # <<>>
      BY DEF InRange
    <2> QED BY <1>0, <1>1, <2>1, <2>2
  <1>2. CASE p # <<0, 0>> /\ p[1] > 0 /\ p[1] <= p[2] /\ p[2] <= PortMax
    <2>1. parsePortRange(p) = p
      BY <1>2 DEF parsePortRange
    <2> QED BY <1>0, <1>2, <2>1 DEF InRange
  <1>3. CASE p # <<0, 0>> /\ ~(p[1] > 0 /\ p[1] <= p[2] /\ p[2] <= PortMax)
    <2>1. parsePortRange(p) = <<>>
      BY <1>3 DEF parsePortRange
    <2> QED BY <1>0, <1>3, <2>1
  <1> QED BY <1>1, <1>2, <1>3

\* An address permits a destination exactly if parsing accepts it and its rule matches.
LEMMA PermitsIs ==
    ASSUME NEW it \in Item, NEW dst, NEW proto \in {"tcp", "udp", "icmp"},
           NEW port \in 1 .. PortMax
    PROVE  Permits(it, dst, proto, port) <=>
               Usable(it) /\ it.host.kind = "ip" /\ IPMatches(IPRule(it), dst, proto, port)
  <1>1. CASE it.host.kind # "ip"
    BY <1>1 DEF Permits
  <1>2. CASE it.host.kind = "ip"
    <2>1. it.ports \in Nat \X Nat
      BY DEF Item
    <2>2. /\ it.host.bits \in 0 .. 2
          /\ IPRule(it).protocol = it.protocol /\ IPRule(it).ports = parsePortRange(it.ports)
          /\ IPRule(it).prefix = Masked(it.host)
      BY <1>2, IPRuleOfItem
    <2>3. Covers(Masked(it.host), dst) <=> \A i \in 1 .. it.host.bits : it.host.addr[i] = dst[i]
      <3>1. /\ Masked(it.host).bits = it.host.bits
            /\ \A i \in 1 .. 2 : Masked(it.host).addr[i] =
                    IF i <= it.host.bits THEN it.host.addr[i] ELSE 0
        BY DEF Masked
      <3>2. \A i \in 1 .. it.host.bits : i \in 1 .. 2 /\ i <= it.host.bits
        BY <2>2
      <3>3. \A i \in 1 .. it.host.bits : Masked(it.host).addr[i] = it.host.addr[i]
        BY <3>1, <3>2
      <3> QED BY <3>1, <3>3 DEF Covers
    <2> DEFINE fits == it.protocol = "all" \/ (it.protocol = proto /\ proto # "icmp")
    <2>4. IPMatches(IPRule(it), dst, proto, port) <=>
            /\ Covers(Masked(it.host), dst)
            /\ it.protocol \in {"all", proto}
            /\ proto = "icmp" \/ InRange(port, parsePortRange(it.ports))
      BY <2>2 DEF IPMatches
    <2>5. Usable(it) <=> /\ it.model = "L3VPN" /\ it.app # ""
                         /\ it.protocol \in {"tcp", "udp", "all"}
                         /\ parsePortRange(it.ports) # <<>>
      BY DEF Usable, Accepted
    <2>6. it.protocol \in {"tcp", "udp", "all"} /\ it.protocol \in {"all", proto} <=> fits
      OBVIOUS
    <2>7. Permits(it, dst, proto, port) <=>
            /\ it.model = "L3VPN" /\ it.app # "" /\ fits
            /\ Covers(Masked(it.host), dst)
            /\ parsePortRange(it.ports) # <<>>
            /\ proto = "icmp" \/ InRange(port, parsePortRange(it.ports))
      BY <1>2, <2>1, <2>3, PortsParsed DEF Permits
    <2> QED BY <1>2, <2>4, <2>5, <2>6, <2>7
  <1> QED BY <1>1, <1>2

\* How well an address fits: the length of its prefix, then a protocol of its own.
IPWeight(it) == 2 * it.host.bits + (IF it.protocol = "all" THEN 0 ELSE 1)

\* It fits better, or as well and was written first.
Outweighs(a, b, i, j) ==
    /\ IPWeight(a) \in Int /\ IPWeight(b) \in Int
    /\ IPWeight(a) > IPWeight(b) \/ (IPWeight(a) = IPWeight(b) /\ i <= j)

\* Of two addresses that permit the same, the one whose rule sorts first weighs more, or as
\* much and was written first.
LEMMA FirstIPRuleIsBest ==
    ASSUME NEW a \in Item, NEW b \in Item, NEW i \in Nat, NEW j \in Nat,
           NEW dst, NEW proto \in {"tcp", "udp", "icmp"}, NEW port,
           Permits(a, dst, proto, port), Permits(b, dst, proto, port),
           \/ IPBefore(IPRule(a), IPRule(b))
           \/ i < j /\ ~IPBefore(IPRule(b), IPRule(a))
    PROVE  Outweighs(a, b, i, j)
  <1>1. a.host.kind = "ip" /\ b.host.kind = "ip"
    BY DEF Permits
  <1>2. /\ a.host.bits \in 0 .. 2 /\ b.host.bits \in 0 .. 2
        /\ IsIPRule(IPRule(a)) /\ IsIPRule(IPRule(b))
        /\ IPRule(a).protocol = a.protocol /\ IPRule(b).protocol = b.protocol
        /\ IPRule(a).prefix = Masked(a.host) /\ IPRule(b).prefix = Masked(b.host)
    BY <1>1, IPRuleOfItem
  <1>3. IPRule(a).prefix.bits = a.host.bits /\ IPRule(b).prefix.bits = b.host.bits
    BY <1>2 DEF Masked
  <1>4. a.host.bits = b.host.bits => IPRule(a).prefix.addr = IPRule(b).prefix.addr
    <2> SUFFICES ASSUME a.host.bits = b.host.bits
                 PROVE  Masked(a.host).addr = Masked(b.host).addr
      BY <1>2
    <2>1. \A k \in 1 .. a.host.bits : a.host.addr[k] = b.host.addr[k]
      BY DEF Permits
    <2>2. \A k \in 1 .. 2 : k <= a.host.bits => a.host.addr[k] = b.host.addr[k]
      BY <1>2, <2>1
    <2> QED BY <2>2 DEF Masked
  <1>5. a.host.bits = b.host.bits =>
            /\ ~AddressBefore(IPRule(a).prefix.addr, IPRule(b).prefix.addr)
            /\ ~AddressBefore(IPRule(b).prefix.addr, IPRule(a).prefix.addr)
    <2>1. IPRule(a).prefix.addr[1] \in Nat /\ IPRule(a).prefix.addr[2] \in Nat
      BY <1>2 DEF IsIPRule
    <2> QED BY <1>4, <2>1 DEF AddressBefore
  <1>6. IPBefore(IPRule(a), IPRule(b)) <=>
            \/ a.host.bits > b.host.bits
            \/ a.host.bits = b.host.bits /\ a.protocol # "all" /\ b.protocol = "all"
    BY <1>2, <1>3, <1>4, <1>5 DEF IPBefore
  <1>7. IPBefore(IPRule(b), IPRule(a)) <=>
            \/ b.host.bits > a.host.bits
            \/ b.host.bits = a.host.bits /\ b.protocol # "all" /\ a.protocol = "all"
    <2>1. b.host.bits = a.host.bits =>
            /\ IPRule(b).prefix.addr = IPRule(a).prefix.addr
            /\ ~AddressBefore(IPRule(b).prefix.addr, IPRule(a).prefix.addr)
      BY <1>4, <1>5
    <2> QED BY <1>2, <1>3, <2>1 DEF IPBefore
  <1> QED BY <1>2, <1>6, <1>7 DEF IPWeight, Outweighs

\* The member that outweighs the others is the one Best chooses.
LEMMA BestIs ==
    ASSUME NEW fit, fit \subseteq Nat, NEW w, \A i \in fit : w[i] \in Int, NEW b \in fit,
           \A j \in fit : w[b] > w[j] \/ (w[b] = w[j] /\ b <= j)
    PROVE  b = CHOOSE i \in fit : \A j \in fit : \/ w[i] > w[j]
                                                 \/ w[i] = w[j] /\ i <= j
  <1> DEFINE best(i) == \A j \in fit : w[i] > w[j] \/ (w[i] = w[j] /\ i <= j)
  <1>1. ASSUME NEW i \in fit, best(i)
        PROVE  i = b
    <2>1. w[i] > w[b] \/ (w[i] = w[b] /\ i <= b)
      BY <1>1
    <2>2. w[b] > w[i] \/ (w[b] = w[i] /\ b <= i)
      BY <1>1
    <2>3. w[i] \in Int /\ w[b] \in Int /\ i \in Nat /\ b \in Nat
      OBVIOUS
    <2> QED BY <2>1, <2>2, <2>3
  <1>2. best(b)
    OBVIOUS
  <1> QED BY <1>1, <1>2

\* The protocols Send lets through.
Protocols == {"tcp", "udp", "icmp"}

\* The addresses of a document that permit a destination.
IPFit(items, dst, proto, port) == {i \in DOMAIN items : Permits(items[i], dst, proto, port)}

\* The grant is that of the heaviest item that fits, the first one of those.
IPRanked(items, fit, grant) ==
    /\ fit = {} => grant = NoGrant
    /\ fit # {} => \E b \in fit :
          /\ grant = Grant(items[b])
          /\ \A j \in fit : Outweighs(items[b], items[j], b, j)

\* matchIP stops at the rule of the heaviest address, the first of those.
LEMMA BestIPRule ==
    ASSUME NEW items \in Seq(Item), NEW t, t.ipRules = ipRules(items),
           NEW dst, NEW proto \in Protocols, NEW port \in 1 .. PortMax,
           NEW fit, fit = IPFit(items, dst, proto, port)
    PROVE  IPRanked(items, fit, matchIP(t, dst, proto, port))
  <1> DEFINE found == IPPlaces(items)
             less == {p \in found \X found : IPBefore(IPRule(items[p[1]]), IPRule(items[p[2]]))}
             rules == ipRules(items)
  <1>1. PICK list : /\ Listing(found, Stable(found, less), list)
                    /\ DOMAIN rules = DOMAIN list
                    /\ \A k \in DOMAIN list : rules[k] = IPRule(items[list[k]])
    BY IPRulesListed
  <1>2. \A x, y \in found : <<x, y>> \in less <=> IPBefore(IPRule(items[x]), IPRule(items[y]))
    OBVIOUS
  <1>3. \A i \in found : items[i] \in Item /\ i \in Nat
    BY DEF IPPlaces
  <1>4. /\ fit \subseteq found
        /\ \A i \in found : (i \in fit <=> IPMatches(IPRule(items[i]), dst, proto, port))
    <2>1. \A i \in DOMAIN items : items[i] \in Item
      OBVIOUS
    <2>2. \A i \in DOMAIN items :
              i \in fit <=> i \in found /\ IPMatches(IPRule(items[i]), dst, proto, port)
      BY <2>1, PermitsIs DEF IPFit, IPPlaces, Protocols
    <2>3. fit \subseteq DOMAIN items /\ found \subseteq DOMAIN items
      BY DEF IPFit, IPPlaces
    <2> QED BY <2>2, <2>3
  <1>5. \A i \in fit : Permits(items[i], dst, proto, port)
    BY DEF IPFit
  <1> HIDE DEF less, found, rules
  <1> DEFINE hits == {k \in DOMAIN rules : IPMatches(rules[k], dst, proto, port)}
  <1>6. matchIP(t, dst, proto, port) =
            IF hits = {} THEN NoGrant ELSE rules[Min(hits)].grant
    BY DEF matchIP, rules
  <1>7. \A k \in DOMAIN list : k \in hits <=> list[k] \in fit
    BY <1>1, <1>4 DEF Listing
  <1>8. hits \subseteq DOMAIN list /\ hits \subseteq Nat
    BY <1>1 DEF Listing
  <1> HIDE DEF hits
  <1>9. hits = {} <=> fit = {}
    BY <1>1, <1>4, <1>7, <1>8 DEF Listing
  <1>10. ASSUME fit # {}
         PROVE  \E b \in fit :
                    /\ matchIP(t, dst, proto, port) = Grant(items[b])
                    /\ \A j \in fit : Outweighs(items[b], items[j], b, j)
    <2> DEFINE m == Min(hits)
               b == list[m]
    <2>1. m \in hits /\ \A k \in hits : m <= k
      BY <1>8, <1>9, <1>10, MinIs
    <2> HIDE DEF m
    <2>2. b \in fit /\ b \in found
      BY <1>4, <1>7, <1>8, <2>1
    <2>3. matchIP(t, dst, proto, port) = IPRule(items[b]).grant
      BY <1>1, <1>6, <1>8, <2>1 DEF m
    <2>4. IPRule(items[b]).grant = Grant(items[b])
      BY DEF IPRule
    <2>5. ASSUME NEW j \in fit
          PROVE  Outweighs(items[b], items[j], b, j)
      <3>1. PICK k \in DOMAIN list : list[k] = j
        BY <1>1, <1>4 DEF Listing
      <3>2. k \in hits /\ m <= k /\ k \in Nat /\ m \in Nat /\ m \in DOMAIN list
        BY <1>7, <1>8, <2>1, <3>1
      <3>3. CASE m = k
        <4>1. items[b] \in Item /\ items[b].host.kind = "ip" /\ b \in Nat
          BY <1>3, <1>5, <2>2 DEF Permits
        <4>2. items[b].host.bits \in 0 .. 2
          BY <4>1, IPRuleOfItem
        <4> QED BY <3>1, <3>3, <4>1, <4>2 DEF Outweighs, IPWeight
      <3>4. CASE m # k
        <4>1. <<b, j>> \in Stable(found, less)
          <5>1. m < k
            BY <3>2, <3>4
          <5> QED BY <1>1, <3>1, <3>2, <5>1 DEF Listing
        <4>2. j \in found
          BY <1>4
        <4>3. <<b, j>> \in less \/ (b < j /\ <<j, b>> \notin less)
          BY <2>2, <4>1, <4>2, StablePairs
        <4>4. \/ IPBefore(IPRule(items[b]), IPRule(items[j]))
              \/ b < j /\ ~IPBefore(IPRule(items[j]), IPRule(items[b]))
          BY <1>2, <2>2, <4>2, <4>3
        <4>5. /\ items[b] \in Item /\ items[j] \in Item /\ b \in Nat /\ j \in Nat
              /\ Permits(items[b], dst, proto, port) /\ Permits(items[j], dst, proto, port)
          BY <1>3, <1>5, <2>2, <4>2
        <4> QED BY <4>4, <4>5, FirstIPRuleIsBest DEF Protocols
      <3> QED BY <3>3, <3>4
    <2> QED BY <2>2, <2>3, <2>4, <2>5
  <1> QED BY <1>6, <1>9, <1>10 DEF IPRanked

-----------------------------------------------------------------------------
(* The search for the parts of a pattern.                                    *)

\* f starts with a, and each value is made from the one before.
Chain(f, n, a, G) ==
    \A i \in 1 .. n : f[i] = IF i = 1 THEN a ELSE G[<<f[i - 1], i>>]

\* A recursive function over 1 .. n exists: Ends is one.
LEMMA Recursion ==
    ASSUME NEW n \in Nat, NEW S, NEW a \in S, NEW G \in [S \X (1 .. n) -> S]
    PROVE  \E f \in [1 .. n -> S] : Chain(f, n, a, G)
  <1> DEFINE Follows(f, m) == Chain(f, m, a, G)
             Bad == {m \in 0 .. n : ~ \E f \in [1 .. m -> S] : Follows(f, m)}
  <1> SUFFICES ASSUME Bad # {} PROVE FALSE
    <2>1. n \notin Bad => \E f \in [1 .. n -> S] : Follows(f, n)
      OBVIOUS
    <2> QED BY <2>1
  <1>0. Bad \subseteq Nat
    OBVIOUS
  <1>1. PICK m \in Bad : \A k \in Bad : m <= k
    <2> HIDE DEF Bad
    <2> QED BY <1>0, LeastNat
  <1>2. m \in 0 .. n /\ ~ \E f \in [1 .. m -> S] : Follows(f, m)
    BY <1>1
  <1>3. m # 0
    <2>1. ASSUME m = 0 PROVE \E f \in [1 .. m -> S] : Follows(f, m)
      <3> DEFINE f == [i \in 1 .. m |-> a]
      <3>1. f \in [1 .. m -> S]
        OBVIOUS
      <3>2. Follows(f, m)
        BY <2>1 DEF Chain
      <3> QED BY <3>1, <3>2
    <2> QED BY <1>2, <2>1
  <1>4. m - 1 \in 0 .. n /\ m - 1 \notin Bad
    <2>1. m - 1 \in 0 .. n /\ m \in Int /\ ~(m <= m - 1)
      BY <1>2, <1>3
    <2> HIDE DEF Bad
    <2> QED BY <1>1, <2>1
  <1>5. PICK f \in [1 .. m - 1 -> S] : Follows(f, m - 1)
    BY <1>4
  <1> HIDE DEF Bad
  <1> DEFINE g == [i \in 1 .. m |-> IF i < m THEN f[i] ELSE IF i = 1 THEN a ELSE G[<<f[m - 1], m>>]]
  <1>6. g \in [1 .. m -> S]
    <2>1. ASSUME NEW i \in 1 .. m
          PROVE  (IF i < m THEN f[i] ELSE IF i = 1 THEN a ELSE G[<<f[m - 1], m>>]) \in S
      <3>1. CASE i < m
        BY <3>1, <1>2, <1>5
      <3>2. CASE ~(i < m) /\ i = 1
        BY <3>2
      <3>3. CASE ~(i < m) /\ i # 1
        <4>1. i = m /\ m - 1 \in 1 .. m - 1 /\ m \in 1 .. n
          BY <1>2, <3>3
        <4>2. f[m - 1] \in S
          BY <1>5, <4>1
        <4>3. <<f[m - 1], m>> \in S \X (1 .. n)
          BY <4>1, <4>2
        <4> QED BY <3>3, <4>1, <4>3
      <3> QED BY <3>1, <3>2, <3>3
    <2> QED BY <2>1
  <1>7. Follows(g, m)
    <2> SUFFICES ASSUME NEW i \in 1 .. m
                 PROVE  g[i] = IF i = 1 THEN a ELSE G[<<g[i - 1], i>>]
      BY DEF Chain
    <2>1. CASE i < m
      <3>1. i \in 1 .. m - 1
        BY <1>2, <2>1
      <3>2. g[i] = f[i] /\ (i # 1 => g[i - 1] = f[i - 1])
        BY <1>2, <2>1, <3>1
      <3> QED BY <1>5, <3>1, <3>2 DEF Chain
    <2>2. CASE i = m
      <3>1. i # 1 => i - 1 \in 1 .. m /\ i - 1 < m
        BY <1>2
      <3>2. i # 1 => g[i - 1] = f[i - 1]
        BY <3>1
      <3>3. g[i] = IF i = 1 THEN a ELSE G[<<f[m - 1], m>>]
        BY <1>2, <2>2
      <3> QED BY <2>2, <3>2, <3>3
    <2> QED BY <1>2, <2>1, <2>2
  <1> HIDE DEF g
  <1> QED BY <1>2, <1>6, <1>7

\* Where a part ends, if it was found.
Place == {Lost} \cup Nat

\* strings.Index finds the first place at or after a given one, or there is none.
LEMMA IndexIs ==
    ASSUME NEW host \in Names, NEW part \in Names, NEW from \in Nat
    PROVE  \/ /\ Index(host, part, from) = Lost
              /\ \A i \in Nat : i >= from => ~Stands(part, host, i)
           \/ /\ Index(host, part, from) \in Nat /\ Index(host, part, from) >= from
              /\ Stands(part, host, Index(host, part, from))
              /\ \A i \in Nat : i >= from /\ Stands(part, host, i) => Index(host, part, from) <= i
  <1> DEFINE at == {i \in from .. Len(host) : Stands(part, host, i)}
  <1>1. Len(host) \in Nat /\ Len(part) \in Nat
    BY DEF Names
  <1>2. \A i \in Nat : i >= from /\ Stands(part, host, i) => i \in at
    BY <1>1 DEF Stands
  <1>3. at \subseteq Nat /\ \A i \in at : i >= from /\ Stands(part, host, i)
    BY <1>1
  <1>4. Index(host, part, from) = IF at = {} THEN Lost ELSE Min(at)
    BY DEF Index
  <1> HIDE DEF at
  <1>5. CASE at = {}
    BY <1>2, <1>4, <1>5
  <1>6. CASE at # {}
    BY <1>2, <1>3, <1>4, <1>6, MinIs
  <1> QED BY <1>5, <1>6

\* The next step of the search and its first one.
Next1(pattern, host, end, i) ==
    IF end = Lost \/ Index(host, pattern[i], end) = Lost THEN Lost
    ELSE Index(host, pattern[i], end) + Len(pattern[i])
First1(pattern, host) == IF Stands(pattern[1], host, 0) THEN Len(pattern[1]) ELSE Lost

\* f is the search for the parts of pattern in host.
Scan(pattern, host, f) ==
    /\ f \in [1 .. Len(pattern) - 1 -> Place]
    /\ \A i \in 1 .. Len(pattern) - 1 :
          f[i] = IF i = 1 THEN First1(pattern, host) ELSE Next1(pattern, host, f[i - 1], i)

\* A step of matches ends at a place of the host or is lost.
LEMMA ScanPlaces ==
    ASSUME NEW host \in Names, NEW pattern \in Seq(Names), pattern # <<>>
    PROVE  /\ First1(pattern, host) \in Place
           /\ \A e \in Place, i \in 1 .. Len(pattern) : Next1(pattern, host, e, i) \in Place
  <1>1. \A i \in 1 .. Len(pattern) : pattern[i] \in Names /\ Len(pattern[i]) \in Nat
    BY DEF Names
  <1>2. First1(pattern, host) \in Place
    <2>1. 1 \in 1 .. Len(pattern)
      OBVIOUS
    <2> QED BY <1>1, <2>1 DEF First1, Place
  <1>3. ASSUME NEW e \in Place, NEW i \in 1 .. Len(pattern)
        PROVE  Next1(pattern, host, e, i) \in Place
    <2>1. CASE e = Lost
      BY <2>1 DEF Next1, Place
    <2>2. CASE e \in Nat
      <3>1. Index(host, pattern[i], e) = Lost \/ Index(host, pattern[i], e) \in Nat
        BY <1>1, <2>2, IndexIs
      <3> QED BY <1>1, <3>1 DEF Next1, Place
    <2> QED BY <2>1, <2>2 DEF Place
  <1> QED BY <1>2, <1>3

\* There is a scan of the parts.
LEMMA ScanExists ==
    ASSUME NEW host \in Names, NEW pattern \in Seq(Names), pattern # <<>>
    PROVE  \E f : Scan(pattern, host, f)
  <1> DEFINE n == Len(pattern) - 1
             G == [x \in Place \X (1 .. n) |-> Next1(pattern, host, x[1], x[2])]
  <1>1. n \in Nat
    OBVIOUS
  <1>3. First1(pattern, host) \in Place
    BY ScanPlaces
  <1>4. \A x \in Place \X (1 .. n) : Next1(pattern, host, x[1], x[2]) \in Place
    <2> TAKE x \in Place \X (1 .. n)
    <2>1. x[1] \in Place /\ x[2] \in 1 .. Len(pattern)
      BY <1>1
    <2> QED BY <2>1, ScanPlaces
  <1>5. G \in [Place \X (1 .. n) -> Place]
    BY <1>4
  <1>6. \A e \in Place : \A i \in 1 .. n : G[<<e, i>>] = Next1(pattern, host, e, i)
    OBVIOUS
  <1> HIDE DEF G, n
  <1>7. PICK f \in [1 .. n -> Place] : Chain(f, n, First1(pattern, host), G)
    BY <1>1, <1>3, <1>5, Recursion
  <1>8. \A i \in 1 .. n : i # 1 => G[<<f[i - 1], i>>] = Next1(pattern, host, f[i - 1], i)
    <2> TAKE i \in 1 .. n
    <2> HAVE i # 1
    <2>1. i - 1 \in 1 .. n
      BY <1>1
    <2> QED BY <1>6, <1>7, <2>1
  <1>9. \A i \in 1 .. n : f[i] = IF i = 1 THEN First1(pattern, host) ELSE Next1(pattern, host, f[i - 1], i)
    BY <1>7, <1>8 DEF Chain
  <1> QED BY <1>7, <1>9 DEF Scan, n

\* The same as an equation, the way Ends is written.
ScanFrom(pattern, host, f) ==
    f = [i \in 1 .. Len(pattern) - 1 |->
            IF i = 1 THEN First1(pattern, host) ELSE Next1(pattern, host, f[i - 1], i)]

\* Ends is that scan.
LEMMA EndsScan ==
    ASSUME NEW host \in Names, NEW pattern \in Seq(Names), pattern # <<>>
    PROVE  Scan(pattern, host, Ends(pattern, host))
  <1>1. Ends(pattern, host) = CHOOSE f : ScanFrom(pattern, host, f)
    BY Zenon DEF Ends, First1, Next1, ScanFrom
  <1>2. PICK f : Scan(pattern, host, f)
    BY ScanExists
  <1>3. ScanFrom(pattern, host, f)
    BY <1>2 DEF Scan, ScanFrom
  <1>4. ScanFrom(pattern, host, Ends(pattern, host))
    BY <1>1, <1>3
  <1> DEFINE f1 == Ends(pattern, host)
             n == Len(pattern) - 1
  <1>5. /\ DOMAIN f1 = 1 .. n
        /\ \A i \in 1 .. n :
              f1[i] = IF i = 1 THEN First1(pattern, host) ELSE Next1(pattern, host, f1[i - 1], i)
    BY <1>4 DEF ScanFrom
  <1>6. n \in Nat /\ f1 = [i \in 1 .. n |-> f1[i]]
    BY <1>4 DEF ScanFrom
  <1>7. \A i \in 1 .. n : f1[i] \in Place
    <2> DEFINE Bad == {i \in 1 .. n : f1[i] \notin Place}
    <2> SUFFICES ASSUME Bad # {} PROVE FALSE
      OBVIOUS
    <2>1. Bad \subseteq Nat
      OBVIOUS
    <2>2. PICK m \in Bad : \A k \in Bad : m <= k
      <3> HIDE DEF Bad
      <3> QED BY <2>1, LeastNat
    <2>3. m \in 1 .. n /\ f1[m] \notin Place
      BY <2>2
    <2>4. m # 1
      BY <1>5, <2>3, ScanPlaces
    <2>5. m - 1 \in 1 .. n /\ ~(m <= m - 1) /\ m \in 1 .. Len(pattern)
      BY <1>6, <2>3, <2>4
    <2>6. f1[m - 1] \in Place
      BY <2>2, <2>5
    <2>7. f1[m] = Next1(pattern, host, f1[m - 1], m)
      BY <1>5, <2>3, <2>4
    <2> QED BY <2>3, <2>5, <2>6, <2>7, ScanPlaces
  <1> QED BY <1>5, <1>6, <1>7 DEF Scan

-----------------------------------------------------------------------------
(* The search and the ways to fill the stars.                                *)

\* A way to fill the stars.
Filling(pattern, host, at) ==
    /\ at \in [1 .. Len(pattern) -> Nat]
    /\ at[1] = 0 /\ at[Len(pattern)] + Len(pattern[Len(pattern)]) = Len(host)
    /\ \A i \in 1 .. Len(pattern) :
          /\ Stands(pattern[i], host, at[i])
          /\ i < Len(pattern) => at[i] + Len(pattern[i]) <= at[i + 1]

\* A pattern is parts, each a name.
LEMMA NamesFacts ==
    ASSUME NEW pattern \in Seq(Names), pattern # <<>>
    PROVE  /\ Len(pattern) \in Nat /\ Len(pattern) >= 1 /\ DOMAIN pattern = 1 .. Len(pattern)
           /\ \A i \in 1 .. Len(pattern) : pattern[i] \in Names /\ Len(pattern[i]) \in Nat
  BY DEF Names

\* Whether a pattern fits, said by a way to fill its stars.
LEMMA FillsIs ==
    ASSUME NEW host \in Names, NEW pattern \in Seq(Names), pattern # <<>>
    PROVE  Fills(pattern, host) <=> \E at : Filling(pattern, host, at)
  <1>0. Len(host) \in Nat
    BY DEF Names
  <1>1. /\ Len(pattern) \in Nat /\ Len(pattern) >= 1 /\ DOMAIN pattern = 1 .. Len(pattern)
        /\ \A i \in 1 .. Len(pattern) : pattern[i] \in Names /\ Len(pattern[i]) \in Nat
    BY NamesFacts
  <1>2. ASSUME Fills(pattern, host) PROVE \E at : Filling(pattern, host, at)
    <2>1. PICK at \in [1 .. Len(pattern) -> 0 .. Len(host)] :
            /\ at[1] = 0 /\ at[Len(pattern)] + Len(pattern[Len(pattern)]) = Len(host)
            /\ \A i \in 1 .. Len(pattern) :
                /\ at[i] + Len(pattern[i]) <= Len(host)
                /\ SubSeq(host, at[i] + 1, at[i] + Len(pattern[i])) = pattern[i]
                /\ i + 1 \in 1 .. Len(pattern) => at[i] + Len(pattern[i]) <= at[i + 1]
      BY <1>1, <1>2 DEF Fills
    <2>2. at \in [1 .. Len(pattern) -> Nat]
      BY <2>1
    <2>3. \A i \in 1 .. Len(pattern) : i < Len(pattern) => i + 1 \in 1 .. Len(pattern)
      BY <1>1
    <2> QED BY <2>1, <2>2, <2>3 DEF Filling, Stands
  <1>3. ASSUME NEW at, Filling(pattern, host, at) PROVE Fills(pattern, host)
    <2>1. \A i \in 1 .. Len(pattern) : at[i] \in 0 .. Len(host)
      BY <1>0, <1>1, <1>3 DEF Filling, Stands
    <2>2. at \in [DOMAIN pattern -> 0 .. Len(host)]
      BY <1>1, <1>3, <2>1 DEF Filling
    <2>3. \A i \in 1 .. Len(pattern) : i + 1 \in 1 .. Len(pattern) => i < Len(pattern)
      BY <1>1
    <2> QED BY <1>1, <1>3, <2>2, <2>3 DEF Fills, Filling, Stands
  <1> QED BY <1>2, <1>3

\* A scan that arrived went through all parts.
LEMMA ScanArrived ==
    ASSUME NEW host \in Names, NEW pattern \in Seq(Names), pattern # <<>>,
           NEW f, Scan(pattern, host, f), Len(pattern) > 1, f[Len(pattern) - 1] # Lost
    PROVE  \A i \in 1 .. Len(pattern) - 1 : f[i] # Lost
  <1> DEFINE n == Len(pattern) - 1
             Gap == {k \in 0 .. n - 1 : f[n - k] = Lost}
  <1>1. n \in Nat /\ n >= 1
    OBVIOUS
  <1>2. Gap = {}
    <2> SUFFICES ASSUME Gap # {} PROVE FALSE
      OBVIOUS
    <2>1. PICK k \in Gap : \A j \in Gap : k <= j
      <3>1. Gap \subseteq Nat
        OBVIOUS
      <3> HIDE DEF Gap
      <3> QED BY <3>1, LeastNat
    <2>2. k \in 0 .. n - 1 /\ f[n - k] = Lost
      BY <2>1
    <2>3. k # 0
      BY <1>1, <2>2
    <2> DEFINE i == n - k
    <2>4. i \in 1 .. n /\ i + 1 \in 1 .. n /\ i + 1 # 1 /\ (i + 1) - 1 = i /\ i + 1 = n - (k - 1)
      BY <1>1, <2>2, <2>3
    <2>5. f[i + 1] = Next1(pattern, host, f[(i + 1) - 1], i + 1)
      BY <2>4 DEF Scan
    <2>6. f[i + 1] = Lost
      BY <2>2, <2>4, <2>5 DEF Next1
    <2>7. k - 1 \in 0 .. n - 1 /\ ~(k <= k - 1)
      BY <2>2, <2>3
    <2>8. k - 1 \in Gap
      BY <2>4, <2>6, <2>7
    <2> HIDE DEF Gap
    <2> QED BY <2>1, <2>7, <2>8
  <1>3. ASSUME NEW i \in 1 .. n PROVE f[i] # Lost
    <2>1. n - i \in 0 .. n - 1 /\ n - (n - i) = i
      BY <1>1
    <2> QED BY <1>2, <2>1
  <1> QED BY <1>3

\* Each of its steps found its part at or after the end of the one before.
LEMMA ScanFinds ==
    ASSUME NEW host \in Names, NEW pattern \in Seq(Names), pattern # <<>>,
           NEW f, Scan(pattern, host, f), NEW i \in 1 .. Len(pattern) - 1, f[i] # Lost
    PROVE  /\ f[i] - Len(pattern[i]) \in Nat
           /\ Stands(pattern[i], host, f[i] - Len(pattern[i]))
           /\ i = 1 => f[i] - Len(pattern[i]) = 0
           /\ i # 1 => f[i - 1] \in Nat /\ f[i - 1] <= f[i] - Len(pattern[i])
  <1>1. /\ pattern[i] \in Names /\ Len(pattern[i]) \in Nat
        /\ i \in 1 .. Len(pattern)
    BY NamesFacts
  <1>2. CASE i = 1
    <2>1. f[i] = Len(pattern[1]) /\ Stands(pattern[1], host, 0)
      BY <1>2 DEF Scan, First1
    <2> QED BY <1>1, <1>2, <2>1
  <1>3. CASE i # 1
    <2> DEFINE e == f[i - 1]
               x == Index(host, pattern[i], e)
    <2>1. e \in Place
      <3>1. i - 1 \in 1 .. Len(pattern) - 1
        BY <1>3
      <3> QED BY <3>1 DEF Scan
    <2>2. f[i] = Next1(pattern, host, e, i)
      BY <1>3 DEF Scan
    <2> HIDE DEF e
    <2>3. e # Lost /\ x # Lost /\ f[i] = x + Len(pattern[i])
      BY <2>2 DEF Next1
    <2>4. e \in Nat
      BY <2>1, <2>3 DEF Place
    <2>5. x \in Nat /\ x >= e /\ Stands(pattern[i], host, x)
      BY <1>1, <2>3, <2>4, IndexIs
    <2>6. f[i] - Len(pattern[i]) = x
      BY <1>1, <2>3, <2>5
    <2> QED BY <1>3, <2>4, <2>5, <2>6 DEF e
  <1> QED BY <1>2, <1>3

\* The scan is never behind a way to fill the stars: taking the first place for each part, it
\* need not go back.
LEMMA ScanIsFirst ==
    ASSUME NEW host \in Names, NEW pattern \in Seq(Names), pattern # <<>>,
           NEW f, Scan(pattern, host, f), NEW at, Filling(pattern, host, at)
    PROVE  \A i \in 1 .. Len(pattern) - 1 : f[i] \in Nat /\ f[i] <= at[i] + Len(pattern[i])
  <1> DEFINE n == Len(pattern) - 1
             Bad == {i \in 1 .. n : ~(f[i] \in Nat /\ f[i] <= at[i] + Len(pattern[i]))}
  <1>0. /\ Len(pattern) \in Nat /\ Len(pattern) >= 1 /\ n \in Nat
        /\ \A i \in 1 .. Len(pattern) : pattern[i] \in Names /\ Len(pattern[i]) \in Nat
    BY NamesFacts
  <1> SUFFICES ASSUME Bad # {} PROVE FALSE
    OBVIOUS
  <1>1. PICK m \in Bad : \A k \in Bad : m <= k
    <2>1. Bad \subseteq Nat
      OBVIOUS
    <2> HIDE DEF Bad
    <2> QED BY <2>1, LeastNat
  <1>2. m \in 1 .. n /\ ~(f[m] \in Nat /\ f[m] <= at[m] + Len(pattern[m]))
    BY <1>1
  <1>3. /\ Stands(pattern[m], host, at[m]) /\ at[m] \in Nat /\ m \in 1 .. Len(pattern)
    <2>1. m \in 1 .. Len(pattern)
      BY <1>0, <1>2
    <2>2. /\ at \in [1 .. Len(pattern) -> Nat]
          /\ \A i \in 1 .. Len(pattern) : Stands(pattern[i], host, at[i])
      BY DEF Filling
    <2> QED BY <2>1, <2>2
  <1>4. m # 1
    <2> SUFFICES ASSUME m = 1 PROVE FALSE
      OBVIOUS
    <2>1. at[1] = 0
      BY DEF Filling
    <2>2. f[1] = Len(pattern[1])
      BY <1>2, <1>3, <2>1 DEF Scan, First1
    <2> QED BY <1>0, <1>2, <1>3, <2>1, <2>2
  <1>5. m - 1 \in 1 .. n /\ ~(m <= m - 1) /\ m - 1 < Len(pattern) /\ (m - 1) + 1 = m
    BY <1>0, <1>2, <1>4
  <1>6. f[m - 1] \in Nat /\ f[m - 1] <= at[m - 1] + Len(pattern[m - 1])
    BY <1>1, <1>5
  <1>7. at[m - 1] + Len(pattern[m - 1]) <= at[m] /\ at[m - 1] \in Nat
    <2>1. m - 1 \in 1 .. Len(pattern)
      BY <1>0, <1>5
    <2>2. at[m - 1] + Len(pattern[m - 1]) <= at[(m - 1) + 1]
      BY <1>5, <2>1 DEF Filling
    <2> QED BY <1>5, <2>1, <2>2 DEF Filling
  <1> DEFINE e == f[m - 1]
             x == Index(host, pattern[m], e)
  <1>8. f[m] = Next1(pattern, host, e, m)
    BY <1>2, <1>4 DEF Scan
  <1>9. e \in Nat /\ e <= at[m] /\ Len(pattern[m - 1]) \in Nat
    <2>1. m - 1 \in 1 .. Len(pattern)
      BY <1>0, <1>5
    <2> QED BY <1>0, <1>3, <1>6, <1>7, <2>1
  <1> HIDE DEF e
  <1>10. x \in Nat /\ x <= at[m]
    <2>1. pattern[m] \in Names
      BY <1>0, <1>3
    <2> QED BY <1>3, <1>9, <2>1, IndexIs
  <1>11. f[m] = x + Len(pattern[m]) /\ Len(pattern[m]) \in Nat
    BY <1>0, <1>3, <1>8, <1>9, <1>10 DEF Next1, Lost
  <1> QED BY <1>2, <1>3, <1>10, <1>11

\* matches says that a host fits a pattern exactly if the stars can be filled.
LEMMA MatchesIsFills ==
    ASSUME NEW host \in Names, NEW pattern \in Seq(Names), pattern # <<>>
    PROVE  matches(pattern, host) <=> Fills(pattern, host)
  <1> DEFINE n == Len(pattern)
             f == Ends(pattern, host)
             last == pattern[n]
  <1>0. /\ n \in Nat /\ n >= 1 /\ Len(host) \in Nat /\ Len(last) \in Nat
        /\ \A i \in 1 .. n : pattern[i] \in Names /\ Len(pattern[i]) \in Nat
    BY NamesFacts DEF Names
  <1>1. CASE n = 1
    <2>1. matches(pattern, host) <=> host = pattern[1]
      BY <1>1 DEF matches
    <2>2. ASSUME host = pattern[1] PROVE Fills(pattern, host)
      <3> DEFINE at == [i \in 1 .. n |-> 0]
      <3>1. SubSeq(host, 0 + 1, 0 + Len(host)) = host
        BY SubSeqFull DEF Names
      <3>2. Stands(pattern[1], host, 0)
        BY <1>0, <2>2, <3>1 DEF Stands
      <3>3. Filling(pattern, host, at)
        BY <1>0, <1>1, <2>2, <3>2 DEF Filling
      <3> QED BY <3>3, FillsIs
    <2>3. ASSUME Fills(pattern, host) PROVE host = pattern[1]
      <3>1. PICK at : Filling(pattern, host, at)
        BY <2>3, FillsIs
      <3>2. Len(pattern[1]) = Len(host) /\ Stands(pattern[1], host, 0)
        BY <1>0, <1>1, <3>1 DEF Filling
      <3>3. SubSeq(host, 1, Len(host)) = host
        BY SubSeqFull DEF Names
      <3>4. SubSeq(host, 0 + 1, 0 + Len(pattern[1])) = pattern[1]
        BY <3>2 DEF Stands
      <3> QED BY <1>0, <3>2, <3>3, <3>4
    <2> QED BY <2>1, <2>2, <2>3
  <1>2. CASE n > 1
    <2>1. Scan(pattern, host, f)
      BY EndsScan
    <2>2. matches(pattern, host) <=>
            /\ f[n - 1] # Lost /\ f[n - 1] + Len(last) <= Len(host)
            /\ Stands(last, host, Len(host) - Len(last))
      BY <1>0, <1>2 DEF matches
    <2> HIDE DEF f
    <2>3. ASSUME matches(pattern, host) PROVE Fills(pattern, host)
      <3> DEFINE at == [i \in 1 .. n |-> IF i = n THEN Len(host) - Len(last) ELSE f[i] - Len(pattern[i])]
      <3>1. \A i \in 1 .. n - 1 : f[i] # Lost
        BY <1>2, <2>1, <2>2, <2>3, ScanArrived
      <3>2. \A i \in 1 .. n - 1 :
              /\ f[i] - Len(pattern[i]) \in Nat
              /\ Stands(pattern[i], host, f[i] - Len(pattern[i]))
              /\ i = 1 => f[i] - Len(pattern[i]) = 0
              /\ i # 1 => f[i - 1] \in Nat /\ f[i - 1] <= f[i] - Len(pattern[i])
        BY <2>1, <3>1, ScanFinds
      <3>3. f[n - 1] \in Nat
        <4>1. n - 1 \in 1 .. n - 1
          BY <1>0, <1>2
        <4>2. f \in [1 .. n - 1 -> Place]
          BY <2>1 DEF Scan
        <4> QED BY <3>1, <4>1, <4>2 DEF Place
      <3>4. Len(host) - Len(last) \in Nat /\ f[n - 1] <= Len(host) - Len(last)
        BY <1>0, <2>2, <2>3, <3>3
      <3>5. at \in [1 .. n -> Nat]
        BY <1>0, <3>2, <3>4
      <3>6. at[1] = 0 /\ at[n] + Len(last) = Len(host)
        BY <1>0, <1>2, <3>2
      <3>7. ASSUME NEW i \in 1 .. n
            PROVE  /\ Stands(pattern[i], host, at[i])
                   /\ i < n => at[i] + Len(pattern[i]) <= at[i + 1]
        <4>1. CASE i = n
          BY <1>0, <2>2, <2>3, <4>1
        <4>2. CASE i # n
          <5>1. i \in 1 .. n - 1 /\ at[i] = f[i] - Len(pattern[i])
            BY <1>0, <4>2
          <5>2. f[i] \in Nat /\ at[i] + Len(pattern[i]) = f[i]
            BY <1>0, <2>1, <3>1, <5>1 DEF Scan, Place
          <5>3. f[i] <= at[i + 1]
            <6>1. CASE i + 1 = n
              <7>1. i = n - 1 /\ at[i + 1] = Len(host) - Len(last)
                BY <1>0, <6>1
              <7> QED BY <3>4, <7>1
            <6>2. CASE i + 1 # n
              <7>1. i + 1 \in 1 .. n - 1 /\ i + 1 # 1 /\ (i + 1) - 1 = i
                BY <1>0, <5>1, <6>2
              <7>2. at[i + 1] = f[i + 1] - Len(pattern[i + 1])
                BY <1>0, <6>2, <7>1
              <7>3. f[(i + 1) - 1] <= f[i + 1] - Len(pattern[i + 1])
                BY <3>2, <7>1
              <7> QED BY <7>1, <7>2, <7>3
            <6> QED BY <6>1, <6>2
          <5> QED BY <3>2, <5>1, <5>2, <5>3
        <4> QED BY <4>1, <4>2
      <3> HIDE DEF at
      <3>8. Filling(pattern, host, at)
        BY <3>5, <3>6, <3>7 DEF Filling
      <3> QED BY <3>8, FillsIs
    <2>4. ASSUME Fills(pattern, host) PROVE matches(pattern, host)
      <3>1. PICK at : Filling(pattern, host, at)
        BY <2>4, FillsIs
      <3>2. n - 1 \in 1 .. n - 1 /\ n - 1 \in 1 .. n /\ n \in 1 .. n /\ (n - 1) + 1 = n
        BY <1>0, <1>2
      <3>3. f[n - 1] \in Nat /\ f[n - 1] <= at[n - 1] + Len(pattern[n - 1])
        BY <2>1, <3>1, <3>2, ScanIsFirst
      <3>4. /\ at[n - 1] + Len(pattern[n - 1]) <= at[n] /\ at[n] \in Nat /\ at[n - 1] \in Nat
            /\ Stands(last, host, at[n]) /\ at[n] + Len(last) = Len(host)
        <4>1. n - 1 < n => at[n - 1] + Len(pattern[n - 1]) <= at[(n - 1) + 1]
          BY <3>1, <3>2 DEF Filling
        <4> QED BY <1>0, <3>1, <3>2, <4>1 DEF Filling
      <3>5. at[n] = Len(host) - Len(last)
        BY <1>0, <3>4
      <3>6. f[n - 1] # Lost
        BY <3>3 DEF Lost
      <3>7. f[n - 1] + Len(last) <= Len(host)
        <4> DEFINE a == at[n - 1]
                   b == at[n]
                   e == f[n - 1]
                   k == Len(pattern[n - 1])
        <4>1. k \in Nat
          BY <1>0, <3>2
        <4>2. e \in Nat /\ e <= a + k /\ a + k <= b /\ a \in Nat /\ b \in Nat /\ b + Len(last) = Len(host)
          BY <3>3, <3>4
        <4>3. Len(last) \in Nat /\ Len(host) \in Nat
          BY <1>0
        <4> HIDE DEF a, b, e, k, n, last
        <4>4. e + Len(last) <= Len(host)
          BY <4>1, <4>2, <4>3
        <4> QED BY <4>4 DEF e
      <3>8. Stands(last, host, Len(host) - Len(last))
        BY <3>4, <3>5
      <3> HIDE DEF n, last
      <3> QED BY <2>2, <3>6, <3>7, <3>8, Zenon
    <2> QED BY <2>3, <2>4
  <1>3. n = 1 \/ n > 1
    <2>1. n \in Int /\ n >= 1
      BY <1>0
    <2> HIDE DEF n
    <2> QED BY <2>1
  <1> QED BY <1>1, <1>2, <1>3

-----------------------------------------------------------------------------
(* The rule for a name.                                                      *)

\* Finitely many finite rows.
LEMMA FamilyFinite ==
    ASSUME NEW I, IsFiniteSet(I), NEW D, \A i \in I : IsFiniteSet(D[i])
    PROVE  IsFiniteSet(UNION {{i} \X D[i] : i \in I})
  <1> DEFINE f == [i \in I |-> {i} \X D[i]]
             T == {{i} \X D[i] : i \in I}
  <1>1. f \in Surjection(I, T)
    BY DEF Surjection
  <1>2. IsFiniteSet(T)
    <2> HIDE DEF f, T
    <2> QED BY <1>1, FS_Surjection
  <1>3. \A i \in I : IsFiniteSet({i} \X D[i])
    <2> TAKE i \in I
    <2>1. IsFiniteSet({i})
      BY FS_Singleton
    <2> QED BY <2>1, FS_Product
  <1>4. \A X \in T : IsFiniteSet(X)
    BY <1>3
  <1> HIDE DEF T
  <1>5. IsFiniteSet(UNION T)
    BY <1>2, <1>4, FS_UNION
  <1> QED BY <1>5 DEF T

\* What DomainBefore compares.
IsPattern(p) ==
    /\ p \in Seq(Names) /\ p # <<>> /\ Stars(p) \in Nat
    /\ Letters(p) \in Nat /\ Letters(p) <= MaxNameBytes

\* A pattern has finitely many stars and letters.
LEMMA PatternsAre ==
    ASSUME NEW pattern \in Patterns
    PROVE  IsPattern(pattern)
  <1>1. /\ pattern \in Seq(Names) /\ pattern # <<>>
        /\ Letters(pattern) + Stars(pattern) <= MaxNameBytes
        /\ Len(pattern) \in Nat /\ Len(pattern) >= 1 /\ DOMAIN pattern = 1 .. Len(pattern)
    BY NamesFacts DEF Patterns
  <1>2. \A i \in DOMAIN pattern : pattern[i] \in Names /\ Len(pattern[i]) \in Nat
    BY <1>1, NamesFacts
  <1> DEFINE D == [i \in DOMAIN pattern |-> DOMAIN pattern[i]]
  <1>3. \A i \in DOMAIN pattern : D[i] = 1 .. Len(pattern[i])
    BY <1>2 DEF Names
  <1>4. \A i \in DOMAIN pattern : IsFiniteSet(D[i])
    BY <1>2, <1>3, FS_Interval
  <1>5. IsFiniteSet(DOMAIN pattern)
    BY <1>1, FS_Interval
  <1>6. LetterPlaces(pattern) = UNION {{i} \X D[i] : i \in DOMAIN pattern}
    BY DEF LetterPlaces
  <1> HIDE DEF D
  <1>7. IsFiniteSet(LetterPlaces(pattern))
    BY <1>4, <1>5, <1>6, FamilyFinite
  <1>8. Letters(pattern) \in Nat
    BY <1>7, FS_CardinalityType DEF Letters
  <1> QED BY <1>1, <1>8 DEF IsPattern, Stars, MaxNameBytes

\* The comparison of parseResourceTable for names ranks them.
LEMMA DomainBeforeRanks ==
    ASSUME NEW a, NEW b, NEW c, IsPattern(a.pattern), IsPattern(b.pattern), IsPattern(c.pattern)
    PROVE  /\ ~DomainBefore(a, a)
           /\ DomainBefore(a, b) => ~DomainBefore(b, a)
           /\ DomainBefore(a, b) => DomainBefore(a, c) \/ DomainBefore(c, b)
  BY DEF IsPattern, DomainBefore

\* The addresses of a document that become name rules.
NamePlaces(items) ==
    {i \in DOMAIN items : Usable(items[i]) /\ items[i].host.kind = "domain" /\ UsableDomain(items[i])}

\* The fields of the rule of a name.
LEMMA NameRuleOfItem ==
    ASSUME NEW it \in Item, it.host.kind = "domain"
    PROVE  /\ IsPattern(DomainRule(it).pattern) /\ DomainRule(it).pattern = it.host.pattern
           /\ DomainRule(it).ports = parsePortRange(it.ports) /\ DomainRule(it).grant = Grant(it)
  <1>1. it.host \in HostNames
    BY DEF Item, Hosts4
  <1>2. it.host.pattern \in Patterns
    BY <1>1 DEF HostNames
  <1> QED BY <1>2, PatternsAre DEF DomainRule

\* The name rules of a document, by the places they come from.
LEMMA NameRulesListed ==
    ASSUME NEW items \in Seq(Item)
    PROVE  \E list :
              LET found == NamePlaces(items)
                  less == {p \in found \X found : DomainBefore(DomainRule(items[p[1]]), DomainRule(items[p[2]]))}
              IN /\ Listing(found, Stable(found, less), list)
                 /\ DOMAIN domainRules(items) = DOMAIN list
                 /\ \A k \in DOMAIN list : domainRules(items)[k] = DomainRule(items[list[k]])
  <1> DEFINE found == NamePlaces(items)
             less == {p \in found \X found : DomainBefore(DomainRule(items[p[1]]), DomainRule(items[p[2]]))}
             rule == [i \in found |-> DomainRule(items[i])]
             given == {p \in found \X found : DomainBefore(rule[p[1]], rule[p[2]])}
             list == SortStable(found, less)
  <1>1. found \subseteq Nat /\ IsFiniteSet(found)
    <2>1. found \in SUBSET DOMAIN items
      BY DEF NamePlaces
    <2> QED BY <2>1, PlacesFinite
  <1>2. \A i \in found : IsPattern(DomainRule(items[i]).pattern)
    BY NameRuleOfItem DEF NamePlaces
  <1> HIDE DEF found
  <1>3. \A x, y \in found : <<x, y>> \in less <=> DomainBefore(DomainRule(items[x]), DomainRule(items[y]))
    OBVIOUS
  <1>4. given = less
    OBVIOUS
  <1> HIDE DEF less
  <1>5. IsPreorder(found, less)
    BY <1>2, <1>3, DomainBeforeRanks DEF IsPreorder
  <1>6. Listing(found, Stable(found, less), list)
    BY <1>1, <1>5, Sorted
  <1>7. domainRules(items) = [k \in DOMAIN list |-> rule[list[k]]]
    <2> DEFINE given_list == SortStable(found, given)
    <2>1. domainRules(items) = [k \in DOMAIN given_list |-> rule[given_list[k]]]
      BY DEF domainRules, found, NamePlaces
    <2> QED BY <1>4, <2>1
  <1> HIDE DEF list
  <1>8. \A k \in DOMAIN list : list[k] \in found
    BY <1>6 DEF Listing
  <1>9. /\ DOMAIN domainRules(items) = DOMAIN list
        /\ \A k \in DOMAIN list : domainRules(items)[k] = DomainRule(items[list[k]])
    BY <1>7, <1>8
  <1> QED BY <1>6, <1>9 DEF less, found

\* The condition the loop of matchTCP tests for one rule.
NameMatches(rule, host, port) == InRange(port, rule.ports) /\ matches(rule.pattern, host)

\* An address permits a host exactly if parsing accepts it and its rule matches.
LEMMA PermitsHostIs ==
    ASSUME NEW it \in Item, NEW host \in Names, NEW port \in 1 .. PortMax
    PROVE  PermitsHost(it, host, port) <=>
               /\ Usable(it) /\ it.host.kind = "domain" /\ UsableDomain(it)
               /\ NameMatches(DomainRule(it), host, port)
  <1>1. CASE it.host.kind # "domain"
    BY <1>1 DEF PermitsHost
  <1>2. CASE it.host.kind = "domain"
    <2> DEFINE open == parsePortRange(it.ports) # <<>>
               inside == \/ it.ports = <<0, 0>>
                         \/ /\ it.ports[1] > 0 /\ it.ports[2] <= PortMax
                            /\ it.ports[1] <= port /\ port <= it.ports[2]
               there == Fills(it.host.pattern, host)
               dials == it.pretend \/ it.ips # {}
    <2>1. it.ports \in Nat \X Nat
      BY DEF Item
    <2>2. /\ it.host.pattern \in Seq(Names) /\ it.host.pattern # <<>>
          /\ DomainRule(it).pattern = it.host.pattern
          /\ DomainRule(it).ports = parsePortRange(it.ports)
      BY <1>2, NameRuleOfItem DEF IsPattern
    <2>3. open => (InRange(port, parsePortRange(it.ports)) <=> inside)
      BY <2>1, PortsParsed
    <2>4. inside => open
      <3>1. open <=> \/ it.ports = <<0, 0>>
                     \/ it.ports[1] > 0 /\ it.ports[1] <= it.ports[2] /\ it.ports[2] <= PortMax
        BY <2>1, PortsParsed
      <3>2. it.ports[1] \in Nat /\ it.ports[2] \in Nat
        BY <2>1, PairIs
      <3> HIDE DEF open
      <3> QED BY <3>1, <3>2
    <2>5. matches(it.host.pattern, host) <=> there
      BY <2>2, MatchesIsFills
    <2>6. NameMatches(DomainRule(it), host, port) <=> InRange(port, parsePortRange(it.ports)) /\ there
      BY <2>2, <2>5 DEF NameMatches
    <2>7. Usable(it) /\ UsableDomain(it) <=>
            /\ it.model = "L3VPN" /\ it.app # "" /\ open
            /\ it.protocol \in {"tcp", "all"} /\ dials
      <3>1. it.protocol \in {"tcp", "udp", "all"} /\ it.protocol # "udp" <=> it.protocol \in {"tcp", "all"}
        OBVIOUS
      <3> QED BY <3>1 DEF Usable, Accepted, UsableDomain
    <2>8. PermitsHost(it, host, port) <=>
            /\ it.model = "L3VPN" /\ it.app # "" /\ it.protocol \in {"tcp", "all"} /\ dials
            /\ inside /\ there
      BY <1>2 DEF PermitsHost
    <2> HIDE DEF open, inside, there, dials
    <2> QED BY <1>2, <2>3, <2>4, <2>6, <2>7, <2>8
  <1> QED BY <1>1, <1>2

\* How well a name fits: no star at all, then the number of letters.
NameWeight(it) == IF Stars(it.host.pattern) = 0 THEN MaxNameBytes + 1
                  ELSE Letters(it.host.pattern)

\* It fits better, or as well and was written first.
NameOutweighs(a, b, i, j) ==
    /\ NameWeight(a) \in Int /\ NameWeight(b) \in Int
    /\ NameWeight(a) > NameWeight(b) \/ (NameWeight(a) = NameWeight(b) /\ i <= j)

\* Of two names, the one whose rule sorts first weighs more, or as much and was written
\* first.
LEMMA FirstNameRuleIsBest ==
    ASSUME NEW a \in Item, NEW b \in Item, NEW i \in Nat, NEW j \in Nat,
           a.host.kind = "domain", b.host.kind = "domain",
           \/ DomainBefore(DomainRule(a), DomainRule(b))
           \/ i < j /\ ~DomainBefore(DomainRule(b), DomainRule(a))
    PROVE  NameOutweighs(a, b, i, j)
  <1>1. /\ IsPattern(a.host.pattern) /\ IsPattern(b.host.pattern)
        /\ DomainRule(a).pattern = a.host.pattern /\ DomainRule(b).pattern = b.host.pattern
    BY NameRuleOfItem
  <1> QED BY <1>1 DEF IsPattern, DomainBefore, NameWeight, NameOutweighs, MaxNameBytes

\* The addresses of a document that permit a host.
NameFit(items, host, port) == {i \in DOMAIN items : PermitsHost(items[i], host, port)}

\* matchTCP stops at the rule of the heaviest name, the first of those.
LEMMA BestNameRule ==
    ASSUME NEW items \in Seq(Item), NEW t, t.domainRules = domainRules(items),
           NEW host \in Names, NEW port \in 1 .. PortMax,
           NEW fit, fit = NameFit(items, host, port)
    PROVE  /\ fit = {} => matchDomain(t, host, port) = NoGrant
           /\ fit # {} => \E b \in fit :
                 /\ matchDomain(t, host, port).grant = Grant(items[b])
                 /\ \A j \in fit : NameOutweighs(items[b], items[j], b, j)
  <1> DEFINE found == NamePlaces(items)
             less == {p \in found \X found : DomainBefore(DomainRule(items[p[1]]), DomainRule(items[p[2]]))}
             rules == domainRules(items)
  <1>1. PICK list : /\ Listing(found, Stable(found, less), list)
                    /\ DOMAIN rules = DOMAIN list
                    /\ \A k \in DOMAIN list : rules[k] = DomainRule(items[list[k]])
    BY NameRulesListed
  <1>2. \A x, y \in found : <<x, y>> \in less <=> DomainBefore(DomainRule(items[x]), DomainRule(items[y]))
    OBVIOUS
  <1>3. \A i \in found : items[i] \in Item /\ i \in Nat /\ items[i].host.kind = "domain"
    BY DEF NamePlaces
  <1>4. /\ fit \subseteq found
        /\ \A i \in found : (i \in fit <=> NameMatches(DomainRule(items[i]), host, port))
    <2>1. \A i \in DOMAIN items : items[i] \in Item
      OBVIOUS
    <2>2. \A i \in DOMAIN items :
              i \in fit <=> i \in found /\ NameMatches(DomainRule(items[i]), host, port)
      BY <2>1, PermitsHostIs DEF NameFit, NamePlaces
    <2>3. fit \subseteq DOMAIN items /\ found \subseteq DOMAIN items
      BY DEF NameFit, NamePlaces
    <2> QED BY <2>2, <2>3
  <1> HIDE DEF less, found, rules
  <1> DEFINE hits == {k \in DOMAIN rules : NameMatches(rules[k], host, port)}
  <1>6. matchDomain(t, host, port) =
            IF hits = {} THEN NoGrant
            ELSE [grant |-> rules[Min(hits)].grant, dialIPs |-> rules[Min(hits)].dialIPs]
    BY DEF matchDomain, rules, NameMatches
  <1>7. \A k \in DOMAIN list : k \in hits <=> list[k] \in fit
    BY <1>1, <1>4 DEF Listing
  <1>8. hits \subseteq DOMAIN list /\ hits \subseteq Nat
    BY <1>1 DEF Listing
  <1> HIDE DEF hits
  <1>9. hits = {} <=> fit = {}
    BY <1>1, <1>4, <1>7, <1>8 DEF Listing
  <1>10. ASSUME fit # {}
         PROVE  \E b \in fit :
                    /\ matchDomain(t, host, port).grant = Grant(items[b])
                    /\ \A j \in fit : NameOutweighs(items[b], items[j], b, j)
    <2> DEFINE m == Min(hits)
               b == list[m]
    <2>1. m \in hits /\ \A k \in hits : m <= k
      BY <1>8, <1>9, <1>10, MinIs
    <2>2. matchDomain(t, host, port).grant = rules[m].grant
      BY <1>6, <1>9, <1>10
    <2> HIDE DEF m
    <2>3. b \in fit /\ b \in found
      BY <1>4, <1>7, <1>8, <2>1
    <2>4. matchDomain(t, host, port).grant = Grant(items[b])
      <3>1. rules[m] = DomainRule(items[b])
        BY <1>1, <1>8, <2>1
      <3> QED BY <2>2, <3>1 DEF DomainRule
    <2>5. ASSUME NEW j \in fit
          PROVE  NameOutweighs(items[b], items[j], b, j)
      <3>1. PICK k \in DOMAIN list : list[k] = j
        BY <1>1, <1>4 DEF Listing
      <3>2. k \in hits /\ m <= k /\ k \in Nat /\ m \in Nat /\ m \in DOMAIN list
        BY <1>7, <1>8, <2>1, <3>1
      <3>3. CASE m = k
        <4>1. items[b] \in Item /\ items[b].host.kind = "domain" /\ b \in Nat
          BY <1>3, <2>3
        <4>2. IsPattern(items[b].host.pattern)
          BY <4>1, NameRuleOfItem
        <4> QED BY <3>1, <3>3, <4>1, <4>2 DEF NameOutweighs, NameWeight, IsPattern, MaxNameBytes
      <3>4. CASE m # k
        <4>1. <<b, j>> \in Stable(found, less)
          <5>1. m < k
            BY <3>2, <3>4
          <5> QED BY <1>1, <3>1, <3>2, <5>1 DEF Listing
        <4>2. j \in found
          BY <1>4
        <4>3. <<b, j>> \in less \/ (b < j /\ <<j, b>> \notin less)
          BY <2>3, <4>1, <4>2, StablePairs
        <4>4. \/ DomainBefore(DomainRule(items[b]), DomainRule(items[j]))
              \/ b < j /\ ~DomainBefore(DomainRule(items[j]), DomainRule(items[b]))
          BY <1>2, <2>3, <4>2, <4>3
        <4>5. /\ items[b] \in Item /\ items[j] \in Item /\ b \in Nat /\ j \in Nat
              /\ items[b].host.kind = "domain" /\ items[j].host.kind = "domain"
          BY <1>3, <2>3, <4>2
        <4> QED BY <4>4, <4>5, FirstNameRuleIsBest
      <3> QED BY <3>3, <3>4
    <2> QED BY <2>3, <2>4, <2>5
  <1> QED BY <1>6, <1>9, <1>10

-----------------------------------------------------------------------------
(* The table of the session.                                                 *)

\* A published table is that of the document of this session: prepare publishes both, Close
\* drops both.
LEMMA TableStep ==
    TableInv /\ [Next]_vars => TableInv'
  <1> SUFFICES ASSUME TableInv, [Next]_vars PROVE TableInv'
    OBVIOUS
  <1>1. ASSUME NEW d \in Docs, prepare(d) PROVE TableInv'
    BY <1>1 DEF prepare, TableInv
  <1>2. CASE Close
    BY <1>2 DEF Close, TableInv
  <1>3. CASE UNCHANGED <<doc, table>>
    BY <1>3 DEF TableInv
  <1>4. ASSUME NEW a \in Publics, SetLocalAddr(a) PROVE TableInv'
    BY <1>3, <1>4 DEF SetLocalAddr
  <1>5. CASE \E r \in Remotes : \E p \in Packets(PeerIP, r, Ports) : PeerSends(p)
    BY <1>3, <1>5 DEF PeerSends
  <1>6. CASE \E r \in Remotes, a \in Publics : \E p \in Packets(r, a, {0}) : CampusSends(p)
    BY <1>3, <1>6 DEF CampusSends
  <1>7. CASE \E e \in Errors(seen) : CampusReports(e)
    BY <1>3, <1>7 DEF CampusReports
  <1>8. CASE \E e \in Errors(seen) : PeerReports(e)
    BY <1>3, <1>8 DEF PeerReports
  <1>9. CASE Forget
    BY <1>3, <1>9 DEF Forget
  <1>10. CASE UNCHANGED vars
    BY <1>3, <1>10 DEF vars
  <1> QED BY <1>1, <1>2, <1>4, <1>5, <1>6, <1>7, <1>8, <1>9, <1>10 DEF Next

\* Its parts.
LEMMA TableIs ==
    ASSUME TableInv, table # NoTable
    PROVE  /\ doc \in Document
           /\ table.ipRules = ipRules(doc.items) /\ table.domainRules = domainRules(doc.items)
           /\ table.nodeGroups = [g \in Range(Groups) |-> nodeGroup(doc.nodes, g)]
           /\ table.majorGroup = doc.major
  BY DataPathAssumption DEF TableInv, parseResourceTable

\* The address that IPWeight prefers, and the name that NameWeight prefers.
BestIP(items, fit) ==
    CHOOSE i \in fit : \A j \in fit :
        \/ IPWeight(items[i]) > IPWeight(items[j])
        \/ IPWeight(items[i]) = IPWeight(items[j]) /\ i <= j

\* The grant matchIP gives is that of the chosen address.
LEMMA IPIsBest ==
    ASSUME NEW items \in Seq(Item), NEW grant, NEW fit, fit \subseteq DOMAIN items,
           IPRanked(items, fit, grant)
    PROVE  grant = IF fit = {} THEN NoGrant ELSE Grant(items[BestIP(items, fit)])
  <1> DEFINE w == [i \in fit |-> IPWeight(items[i])]
  <1>1. fit = {} => grant = NoGrant
    BY DEF IPRanked
  <1>2. ASSUME fit # {}
        PROVE  grant = Grant(items[BestIP(items, fit)])
    <2>1. PICK b \in fit :
            /\ grant = Grant(items[b])
            /\ \A j \in fit : Outweighs(items[b], items[j], b, j)
      BY <1>2 DEF IPRanked
    <2>2. \A i \in fit : w[i] \in Int
      BY <2>1 DEF Outweighs
    <2>3. fit \subseteq Nat
      OBVIOUS
    <2>4. \A i \in fit : w[i] = IPWeight(items[i])
      OBVIOUS
    <2>5. \A j \in fit : w[b] > w[j] \/ (w[b] = w[j] /\ b <= j)
      BY <2>1, <2>4 DEF Outweighs
    <2> HIDE DEF w
    <2>6. b = CHOOSE i \in fit : \A j \in fit : \/ w[i] > w[j]
                                                \/ w[i] = w[j] /\ i <= j
      BY <2>2, <2>3, <2>5, BestIs
    <2>7. (CHOOSE i \in fit : \A j \in fit : \/ w[i] > w[j]
                                             \/ w[i] = w[j] /\ i <= j)
          = BestIP(items, fit)
      BY <2>4 DEF BestIP
    <2> QED BY <2>1, <2>6, <2>7
  <1> QED BY <1>1, <1>2

BestName(items, fit) ==
    CHOOSE i \in fit : \A j \in fit :
        \/ NameWeight(items[i]) > NameWeight(items[j])
        \/ NameWeight(items[i]) = NameWeight(items[j]) /\ i <= j

\* The grant matchTCP gives is that of the chosen name.
LEMMA NameIsBest ==
    ASSUME NEW items \in Seq(Item), NEW t, t.domainRules = domainRules(items),
           NEW host \in Names, NEW port \in 1 .. PortMax,
           NEW fit, fit = {i \in DOMAIN items : PermitsHost(items[i], host, port)}
    PROVE  IF fit = {} THEN matchDomain(t, host, port) = NoGrant
           ELSE matchDomain(t, host, port).grant =
                  Grant(items[BestName(items, fit)])
  <1> DEFINE w == [i \in fit |-> NameWeight(items[i])]
  <1>0. fit = NameFit(items, host, port)
    BY DEF NameFit
  <1>1. fit = {} => matchDomain(t, host, port) = NoGrant
    BY <1>0, BestNameRule
  <1>2. ASSUME fit # {}
        PROVE  matchDomain(t, host, port).grant =
                  Grant(items[BestName(items, fit)])
    <2>1. PICK b \in fit :
            /\ matchDomain(t, host, port).grant = Grant(items[b])
            /\ \A j \in fit : NameOutweighs(items[b], items[j], b, j)
      BY <1>0, <1>2, BestNameRule
    <2>2. \A i \in fit : w[i] \in Int
      BY <2>1 DEF NameOutweighs
    <2>3. fit \subseteq Nat
      OBVIOUS
    <2>4. \A i \in fit : w[i] = NameWeight(items[i])
      OBVIOUS
    <2>7. \A j \in fit : w[b] > w[j] \/ (w[b] = w[j] /\ b <= j)
      BY <2>1, <2>4 DEF NameOutweighs
    <2> HIDE DEF w
    <2>5. b = CHOOSE i \in fit : \A j \in fit : \/ w[i] > w[j]
                                                \/ w[i] = w[j] /\ i <= j
      BY <2>2, <2>3, <2>7, BestIs
    <2>6. (CHOOSE i \in fit : \A j \in fit : \/ w[i] > w[j]
                                             \/ w[i] = w[j] /\ i <= j)
          = BestName(items, fit)
      BY <2>4 DEF BestName
    <2> QED BY <2>1, <2>5, <2>6
  <1> QED BY <1>1, <1>2

\* A table that is its document's grants what the best address grants.
LEMMA MatchHolds ==
    ASSUME TableInv
    PROVE  MatchIsBestRule
  <1> SUFFICES ASSUME table # NoTable PROVE MatchIsBestRule
    BY DEF MatchIsBestRule
  <1> DEFINE items == doc.items
             ip(i) == 2 * items[i].host.bits + (IF items[i].protocol = "all" THEN 0 ELSE 1)
             name(i) == IF Stars(items[i].host.pattern) = 0 THEN MaxNameBytes + 1
                        ELSE Letters(items[i].host.pattern)
  <1>1. items \in Seq(Item) /\ table.ipRules = ipRules(items) /\ table.domainRules = domainRules(items)
    BY TableIs DEF Document
  <1>2. ASSUME NEW dst \in Remotes, NEW proto \in {"tcp", "udp", "icmp"}, NEW port \in Ports
        PROVE  LET fit == {i \in DOMAIN items : Permits(items[i], dst, proto, port)}
               IN matchIP(table, dst, proto, port) =
                        IF fit = {} THEN NoGrant ELSE Grant(items[Best(fit, ip)])
    <2> DEFINE fit == {i \in DOMAIN items : Permits(items[i], dst, proto, port)}
    <2>1. port \in 1 .. PortMax /\ proto \in Protocols
      BY DataPathAssumption DEF Protocols
    <2> DEFINE best == Best(fit, ip)
    <2>2. best = BestIP(items, fit)
      BY DEF Best, BestIP, IPWeight
    <2>3. fit = IPFit(items, dst, proto, port) /\ fit \subseteq DOMAIN items
      BY DEF IPFit
    <2> HIDE DEF items, fit, best
    <2>4. IPRanked(items, fit, matchIP(table, dst, proto, port))
      BY <1>1, <2>1, <2>3, BestIPRule, Zenon
    <2>5. matchIP(table, dst, proto, port) = IF fit = {} THEN NoGrant ELSE Grant(items[best])
      BY <1>1, <2>2, <2>3, <2>4, IPIsBest, Zenon
    <2> QED BY <2>5 DEF fit, best
  <1>3. ASSUME NEW host \in Hosts, NEW port \in Ports
        PROVE  LET fit == {i \in DOMAIN items : PermitsHost(items[i], host, port)}
                   got == matchDomain(table, host, port)
               IN IF fit = {} THEN got = NoGrant
                  ELSE got.grant = Grant(items[Best(fit, name)])
    <2> DEFINE fit == {i \in DOMAIN items : PermitsHost(items[i], host, port)}
    <2>1. port \in 1 .. PortMax /\ host \in Names
      BY DataPathAssumption
    <2> DEFINE best == Best(fit, name)
    <2>2. best = BestName(items, fit)
      BY DEF Best, BestName, NameWeight
    <2>3. fit = {i \in DOMAIN items : PermitsHost(items[i], host, port)}
      OBVIOUS
    <2> HIDE DEF items, fit, best
    <2>4. IF fit = {} THEN matchDomain(table, host, port) = NoGrant
          ELSE matchDomain(table, host, port).grant = Grant(items[best])
      BY <1>1, <2>1, <2>2, <2>3, NameIsBest
    <2> QED BY <2>4 DEF fit, best
  <1> QED BY <1>2, <1>3 DEF MatchIsBestRule

\* For every document, destination, protocol, port and name: the sorted rules, scanned for
\* the first match, grant what the best fitting address of the document grants, and nothing
\* if none fits.
THEOREM BestRuleDecides == Spec => []MatchIsBestRule
  <1>1. Init => TableInv
    BY DEF Init, TableInv
  <1>2. Spec => []TableInv
    BY <1>1, TableStep, PTL DEF Spec
  <1>3. TableInv => MatchIsBestRule
    BY MatchHolds
  <1> QED BY <1>2, <1>3, PTL

-----------------------------------------------------------------------------
(* The nodes of a group.                                                     *)

\* A finite set in order has a first member.
LEMMA FirstOf ==
    ASSUME NEW S, NEW R, IsFiniteSet(S), IsOrder(S, R), NEW T, T \subseteq S, T # {}
    PROVE  \E x \in T : \A y \in T : y # x => <<x, y>> \in R
  <1>1. IsFiniteSet(T)
    BY FS_Subset
  <1>2. IsOrder(T, R)
    BY DEF IsOrder
  <1> DEFINE l == Enumerate(T, R)
  <1>3. Listing(T, R, l)
    BY <1>1, <1>2, Enumerated
  <1> HIDE DEF l
  <1>4. PICK x \in T : TRUE
    OBVIOUS
  <1>5. PICK k \in DOMAIN l : l[k] = x
    BY <1>3 DEF Listing
  <1>6. 1 \in DOMAIN l /\ DOMAIN l \subseteq Nat /\ \A j \in DOMAIN l : j = 1 \/ 1 < j
    BY <1>3, <1>5 DEF Listing
  <1>7. l[1] \in T
    BY <1>3, <1>6 DEF Listing
  <1>8. ASSUME NEW y \in T, y # l[1] PROVE <<l[1], y>> \in R
    <2>1. PICK j \in DOMAIN l : l[j] = y
      BY <1>3 DEF Listing
    <2>2. 1 < j
      BY <1>6, <1>8, <2>1
    <2> QED BY <1>3, <1>6, <2>1, <2>2 DEF Listing
  <1> QED BY <1>7, <1>8

\* l lists the values of at, each where it is met first.
FirstMet(at, before, l) ==
    /\ \E n \in Nat : DOMAIN l = 1 .. n
    /\ \A k \in DOMAIN l : \E x \in DOMAIN at : l[k] = at[x]
    /\ \A x \in DOMAIN at : \E k \in DOMAIN l : l[k] = at[x]
    /\ \A j, k \in DOMAIN l : j < k =>
          /\ l[j] # l[k]
          /\ \A y \in DOMAIN at : at[y] = l[k] =>
                \E x \in DOMAIN at : at[x] = l[j] /\ <<x, y>> \in before

\* The loops that skip addresses they have seen list each address once, where it is met
\* first.
LEMMA OnceIs ==
    ASSUME NEW at, NEW before, IsFiniteSet(DOMAIN at), IsOrder(DOMAIN at, before)
    PROVE  FirstMet(at, before, Once(at, before))
  <1> DEFINE S == DOMAIN at
             first == {x \in S : \A y \in S : <<y, x>> \in before => at[y] # at[x]}
             list == Enumerate(first, before)
             l == Once(at, before)
  <1>1. IsFiniteSet(first)
    BY FS_Subset
  <1>2. IsOrder(first, before)
    BY DEF IsOrder
  <1>3. l = [k \in DOMAIN list |-> at[list[k]]]
    BY DEF Once
  <1>4. \A x \in first : x \in S /\ \A y \in S : <<y, x>> \in before => at[y] # at[x]
    OBVIOUS
  <1>5. ASSUME NEW x \in S PROVE \E z \in first : at[z] = at[x]
    <2> DEFINE T == {y \in S : at[y] = at[x]}
    <2>1. T \subseteq S /\ T # {}
      OBVIOUS
    <2>2. PICK z \in T : \A y \in T : y # z => <<z, y>> \in before
      <3> HIDE DEF T
      <3> QED BY <2>1, FirstOf
    <2>3. \A y \in S : <<y, z>> \in before => at[y] # at[z]
      <3> SUFFICES ASSUME NEW y \in S, <<y, z>> \in before, at[y] = at[z] PROVE FALSE
        OBVIOUS
      <3>1. y \in T /\ z \in S
        OBVIOUS
      <3>2. y # z
        BY <3>1 DEF IsOrder
      <3>3. <<z, y>> \in before
        BY <2>2, <3>1, <3>2
      <3>4. <<z, z>> \in before
        BY <3>1, <3>3 DEF IsOrder
      <3> QED BY <3>1, <3>4 DEF IsOrder
    <2> QED BY <2>2, <2>3
  <1> HIDE DEF first
  <1>6. Listing(first, before, list)
    BY <1>1, <1>2, Enumerated
  <1> HIDE DEF list, l
  <1>7. DOMAIN l = DOMAIN list /\ \A k \in DOMAIN list : l[k] = at[list[k]]
    BY <1>3
  <1>8. \E n \in Nat : DOMAIN l = 1 .. n
    BY <1>6, <1>7 DEF Listing
  <1>9. \A k \in DOMAIN l : \E x \in S : l[k] = at[x]
    BY <1>4, <1>6, <1>7 DEF Listing
  <1>10. \A x \in S : \E k \in DOMAIN l : l[k] = at[x]
    <2> TAKE x \in S
    <2>1. PICK z \in first : at[z] = at[x]
      BY <1>5
    <2>2. PICK k \in DOMAIN list : list[k] = z
      BY <1>6 DEF Listing
    <2> QED BY <1>7, <2>1, <2>2
  <1>11. ASSUME NEW j \in DOMAIN l, NEW k \in DOMAIN l, j < k
         PROVE  /\ l[j] # l[k]
                /\ \A y \in S : at[y] = l[k] => \E x \in S : at[x] = l[j] /\ <<x, y>> \in before
    <2>1. /\ list[j] \in first /\ list[k] \in first /\ <<list[j], list[k]>> \in before
          /\ l[j] = at[list[j]] /\ l[k] = at[list[k]]
      BY <1>6, <1>7, <1>11 DEF Listing
    <2>2. list[j] \in S /\ list[k] \in S
      BY <1>4, <2>1
    <2>3. l[j] # l[k]
      BY <1>4, <2>1, <2>2
    <2>4. ASSUME NEW y \in S, at[y] = l[k] PROVE <<list[j], y>> \in before
      <3>1. <<y, list[k]>> \notin before
        BY <1>4, <2>1, <2>4
      <3>2. y = list[k] \/ <<list[k], y>> \in before
        BY <2>2, <3>1 DEF IsOrder
      <3> QED BY <2>1, <2>2, <3>2 DEF IsOrder
    <2> QED BY <2>1, <2>2, <2>3, <2>4
  <1> QED BY <1>8, <1>9, <1>10, <1>11 DEF FirstMet, l

\* The usable nodes of a group.
Ours(nodes, group) ==
    {n \in DOMAIN nodes : nodes[n].group = group /\ UsableNode(nodes[n])}

\* Whether a usable node, or a WAN node, of the group has the address.
InGroup(nodes, group, addr) == \E n \in Ours(nodes, group) : NodeAddress(nodes[n]) = addr
WanIn(nodes, group, addr) ==
    \E n \in Ours(nodes, group) : NodeAddress(nodes[n]) = addr /\ nodes[n].type = "wan"

\* l lists the addresses of a group's nodes, those with a WAN node first.
GroupList(nodes, group, l) ==
    /\ \E n \in Nat : DOMAIN l = 1 .. n
    /\ \A k \in DOMAIN l : InGroup(nodes, group, l[k])
    /\ \A addr : InGroup(nodes, group, addr) => \E k \in DOMAIN l : l[k] = addr
    /\ \A j, k \in DOMAIN l : j < k /\ WanIn(nodes, group, l[k]) => WanIn(nodes, group, l[j])

\* nodeGroup lists the addresses of the group's nodes, those with a WAN node first.
LEMMA GroupIs ==
    ASSUME NEW nodes \in Seq(Node), NEW group
    PROVE  GroupList(nodes, group, nodeGroup(nodes, group))
  <1> DEFINE ours == Ours(nodes, group)
             less == {p \in ours \X ours : WanBefore(nodes[p[1]], nodes[p[2]])}
             sorted == SortStable(ours, less)
             at == [k \in DOMAIN sorted |-> NodeAddress(nodes[sorted[k]])]
             up == Ascending(DOMAIN sorted)
             l == nodeGroup(nodes, group)
  <1>1. ours \subseteq Nat /\ IsFiniteSet(ours)
    <2>1. ours \in SUBSET DOMAIN nodes
      BY DEF Ours
    <2> QED BY <2>1, PlacesFinite
  <1>2. l = Once(at, up)
    BY DEF nodeGroup, Ours
  <1> HIDE DEF ours, l
  <1>3. \A x, y \in ours : <<x, y>> \in less <=> nodes[x].type = "wan" /\ nodes[y].type # "wan"
    BY DEF WanBefore
  <1>4. IsPreorder(ours, less)
    <2> HIDE DEF less
    <2> QED BY <1>3 DEF IsPreorder
  <1> HIDE DEF less
  <1>5. Listing(ours, Stable(ours, less), sorted)
    BY <1>1, <1>4, Sorted
  <1> HIDE DEF sorted
  <1>6. DOMAIN at = DOMAIN sorted /\ \A k \in DOMAIN sorted : at[k] = NodeAddress(nodes[sorted[k]])
    OBVIOUS
  <1>7. IsFiniteSet(DOMAIN sorted) /\ DOMAIN sorted \subseteq Nat
    BY <1>5, FS_Interval DEF Listing
  <1>8. \A x, y \in DOMAIN sorted : <<x, y>> \in up <=> x < y
    BY DEF Ascending
  <1> HIDE DEF at, up
  <1>9. IsOrder(DOMAIN sorted, up)
    BY <1>7, <1>8 DEF IsOrder
  <1>10. FirstMet(at, up, l)
    BY <1>2, <1>6, <1>7, <1>9, OnceIs
  <1>11. \A k \in DOMAIN sorted : sorted[k] \in ours
    BY <1>5 DEF Listing
  <1>12. \A k \in DOMAIN l : InGroup(nodes, group, l[k])
    BY <1>6, <1>10, <1>11 DEF FirstMet, InGroup, ours
  <1>13. ASSUME NEW addr, InGroup(nodes, group, addr) PROVE \E k \in DOMAIN l : l[k] = addr
    <2>1. PICK n \in ours : NodeAddress(nodes[n]) = addr
      BY <1>13 DEF InGroup, ours
    <2>2. PICK i \in DOMAIN sorted : sorted[i] = n
      BY <1>5 DEF Listing
    <2>3. i \in DOMAIN at /\ at[i] = addr
      BY <1>6, <2>1, <2>2
    <2> QED BY <1>10, <2>3 DEF FirstMet
  <1>14. ASSUME NEW j \in DOMAIN l, NEW k \in DOMAIN l, j < k, WanIn(nodes, group, l[k])
         PROVE  WanIn(nodes, group, l[j])
    <2>1. PICK n \in ours : NodeAddress(nodes[n]) = l[k] /\ nodes[n].type = "wan"
      BY <1>14 DEF WanIn, ours
    <2>2. PICK y \in DOMAIN sorted : sorted[y] = n
      BY <1>5 DEF Listing
    <2>3. y \in DOMAIN at /\ at[y] = l[k]
      BY <1>6, <2>1, <2>2
    <2>4. PICK x \in DOMAIN at : at[x] = l[j] /\ <<x, y>> \in up
      BY <1>10, <1>14, <2>3 DEF FirstMet
    <2>5. x \in DOMAIN sorted /\ x < y /\ sorted[x] \in ours
      BY <1>6, <1>8, <1>11, <2>2, <2>4
    <2>6. <<sorted[x], n>> \in Stable(ours, less)
      BY <1>5, <2>2, <2>5 DEF Listing
    <2>7. <<sorted[x], n>> \in less \/ <<n, sorted[x]>> \notin less
      BY <2>5, <2>6, StablePairs
    <2>8. nodes[sorted[x]].type = "wan"
      BY <1>3, <2>1, <2>5, <2>7
    <2>9. NodeAddress(nodes[sorted[x]]) = l[j]
      BY <1>6, <2>4, <2>5
    <2> QED BY <2>5, <2>8, <2>9 DEF WanIn, ours
  <1>15. \E n \in Nat : DOMAIN l = 1 .. n
    BY <1>10 DEF FirstMet
  <1> QED BY <1>12, <1>13, <1>14, <1>15 DEF GroupList, l

-----------------------------------------------------------------------------
(* The candidates.                                                           *)

\* Which of two entries of the groups' lists is met first.
Before(p, q) == p[1] < q[1] \/ (p[1] = q[1] /\ p[2] < q[2])

\* The loops of candidateNodes go through the groups, and in each through its list.
LEMMA SpotsOrdered ==
    ASSUME NEW S, \A p \in S : p[1] \in Int /\ p[2] \in Int,
           \A p, q \in S : p[1] = q[1] /\ p[2] = q[2] => p = q,
           NEW before, \A p, q \in S : <<p, q>> \in before <=> Before(p, q)
    PROVE  IsOrder(S, before)
  <1>1. \A p \in S : <<p, p>> \notin before
    BY DEF Before
  <1>2. \A p, q \in S : p # q => <<p, q>> \in before \/ <<q, p>> \in before
    BY DEF Before
  <1>3. \A p, q, r \in S : <<p, q>> \in before /\ <<q, r>> \in before => <<p, r>> \in before
    BY DEF Before
  <1> QED BY <1>1, <1>2, <1>3 DEF IsOrder

\* The groups in the order they are tried.
Tried(t, preferred) == <<preferred, t.majorGroup>> \o Groups

\* The list of the group that is tried at place g.
Listed(t, preferred, g) ==
    IF Tried(t, preferred)[g] \in Range(Groups)
    THEN t.nodeGroups[Tried(t, preferred)[g]] ELSE <<>>

\* An entry of a list: the place of its group and its place in the list.
Spot(t, preferred, x) == x[1] \in DOMAIN Tried(t, preferred) /\ x[2] \in DOMAIN Listed(t, preferred, x[1])

\* The groups candidateNodes tries: the preferred, the major one, and all.
LEMMA TriedIs ==
    ASSUME NEW t, NEW preferred
    PROVE  /\ DOMAIN Tried(t, preferred) = 1 .. Len(Groups) + 2
           /\ Len(Tried(t, preferred)) = Len(Groups) + 2 /\ Len(Groups) \in Nat
           /\ \A g \in Range(Groups) : \E i \in DOMAIN Tried(t, preferred) : Tried(t, preferred)[i] = g
  <1>1. Groups \in Seq(STRING) /\ Len(Groups) \in Nat /\ DOMAIN Groups = 1 .. Len(Groups)
    BY ResourcesAssumption
  <1> DEFINE two == <<preferred, t.majorGroup>>
             S == STRING \cup {preferred, t.majorGroup}
  <1>2. two \in Seq(S) /\ Len(two) = 2 /\ Groups \in Seq(S)
    BY <1>1
  <1> HIDE DEF two, S
  <1>3. /\ two \o Groups \in Seq(S) /\ Len(two \o Groups) = Len(Groups) + 2
        /\ \A i \in 1 .. Len(Groups) + 2 :
              (two \o Groups)[i] = IF i <= 2 THEN two[i] ELSE Groups[i - 2]
    <2>1. /\ two \o Groups \in Seq(S) /\ Len(two \o Groups) = Len(two) + Len(Groups)
          /\ \A i \in 1 .. Len(two) + Len(Groups) :
                (two \o Groups)[i] = IF i <= Len(two) THEN two[i] ELSE Groups[i - Len(two)]
      BY <1>2, ConcatProperties
    <2>2. Len(two) + Len(Groups) = Len(Groups) + 2
      BY <1>1, <1>2
    <2> QED BY <1>2, <2>1, <2>2
  <1>4. DOMAIN (two \o Groups) = 1 .. Len(Groups) + 2
    BY <1>3
  <1>5. \A g \in Range(Groups) : \E i \in 1 .. Len(Groups) + 2 : (two \o Groups)[i] = g
    <2> TAKE g \in Range(Groups)
    <2>1. PICK k \in 1 .. Len(Groups) : Groups[k] = g
      BY <1>1 DEF Range
    <2>2. k + 2 \in 1 .. Len(Groups) + 2 /\ ~(k + 2 <= 2) /\ (k + 2) - 2 = k
      BY <1>1
    <2>3. (two \o Groups)[k + 2] = g
      BY <1>3, <2>1, <2>2
    <2> QED BY <2>2, <2>3
  <1>6. Tried(t, preferred) = two \o Groups
    BY DEF Tried, two
  <1> QED BY <1>1, <1>3, <1>4, <1>5, <1>6

\* What the candidates are, by the lists of the groups.
Candidates(t, preferred, l) ==
    /\ \E n \in Nat : DOMAIN l = 1 .. n
    /\ \A k \in DOMAIN l : \E x : Spot(t, preferred, x) /\ l[k] = Listed(t, preferred, x[1])[x[2]]
    /\ \A g \in DOMAIN Tried(t, preferred) : \A m \in DOMAIN Listed(t, preferred, g) :
          \E k \in DOMAIN l : l[k] = Listed(t, preferred, g)[m]
    /\ \A j, k \in DOMAIN l : j < k =>
          /\ l[j] # l[k]
          /\ \A g \in DOMAIN Tried(t, preferred) : \A m \in DOMAIN Listed(t, preferred, g) :
                Listed(t, preferred, g)[m] = l[k] =>
                   \E x : /\ Spot(t, preferred, x) /\ Listed(t, preferred, x[1])[x[2]] = l[j]
                          /\ Before(x, <<g, m>>)

\* What candidateNodes gives, by the lists of the groups.
LEMMA CandidatesAre ==
    ASSUME NEW t, NEW preferred,
           \A g \in Range(Groups) : \E n \in Nat : DOMAIN t.nodeGroups[g] = 1 .. n
    PROVE  Candidates(t, preferred, candidateNodes(t, preferred))
  <1> DEFINE order == Tried(t, preferred)
             nodes(g) == Listed(t, preferred, g)
             D == [g \in DOMAIN order |-> DOMAIN nodes(g)]
             spots == UNION {{g} \X D[g] : g \in DOMAIN order}
             at == [x \in spots |-> nodes(x[1])[x[2]]]
             before == {p \in spots \X spots : \/ p[1][1] < p[2][1]
                                               \/ p[1][1] = p[2][1] /\ p[1][2] < p[2][2]}
             l == candidateNodes(t, preferred)
  <1>1. l = Once(at, before)
    <2>1. spots = UNION {{g} \X DOMAIN nodes(g) : g \in DOMAIN order}
      OBVIOUS
    <2> DEFINE given == UNION {{g} \X DOMAIN nodes(g) : g \in DOMAIN order}
    <2>2. l = Once([x \in given |-> nodes(x[1])[x[2]]],
                   {p \in given \X given : \/ p[1][1] < p[2][1]
                                           \/ p[1][1] = p[2][1] /\ p[1][2] < p[2][2]})
      BY Zenon DEF candidateNodes, Tried, Listed
    <2> QED BY <2>1, <2>2
  <1>2. DOMAIN order \subseteq Nat /\ IsFiniteSet(DOMAIN order)
    <2>1. DOMAIN order = 1 .. Len(Groups) + 2 /\ Len(Groups) \in Nat
      BY TriedIs
    <2> HIDE DEF order
    <2> QED BY <2>1, FS_Interval
  <1>3. \A g \in DOMAIN order : D[g] \subseteq Nat /\ IsFiniteSet(D[g])
    <2> TAKE g \in DOMAIN order
    <2>1. \E n \in Nat : DOMAIN nodes(g) = 1 .. n
      <3>1. CASE order[g] \in Range(Groups)
        BY <3>1 DEF Listed
      <3>2. CASE order[g] \notin Range(Groups)
        <4>1. nodes(g) = <<>>
          BY <3>2 DEF Listed
        <4>2. DOMAIN <<>> = 1 .. 0
          OBVIOUS
        <4> QED BY <4>1, <4>2
      <3> QED BY <3>1, <3>2
    <2>2. D[g] = DOMAIN nodes(g)
      OBVIOUS
    <2> HIDE DEF nodes, D
    <2> QED BY <2>1, <2>2, FS_Interval
  <1>4. \A x : Spot(t, preferred, x) => <<x[1], x[2]>> \in spots
    BY DEF Spot
  <1>5. \A x \in spots : /\ x[1] \in DOMAIN order /\ x[2] \in D[x[1]] /\ x = <<x[1], x[2]>>
                         /\ Spot(t, preferred, x)
    BY DEF Spot
  <1>6. \A g \in DOMAIN order : \A m \in DOMAIN nodes(g) : <<g, m>> \in spots
    OBVIOUS
  <1>7. DOMAIN at = spots /\ \A x \in spots : at[x] = nodes(x[1])[x[2]]
    OBVIOUS
  <1>8. \A p, q \in spots : <<p, q>> \in before <=> Before(p, q)
    <2> HIDE DEF spots
    <2> QED BY DEF Before
  <1>9. IsFiniteSet(spots)
    <2> HIDE DEF order, D
    <2> QED BY <1>2, <1>3, FamilyFinite
  <1> HIDE DEF spots, at, before, l
  <1>10. IsOrder(spots, before)
    <2>1. \A p \in spots : p[1] \in Int /\ p[2] \in Int
      <3> HIDE DEF order, D
      <3> QED BY <1>2, <1>3, <1>5
    <2>2. \A p, q \in spots : p[1] = q[1] /\ p[2] = q[2] => p = q
      BY <1>5
    <2> QED BY <1>8, <2>1, <2>2, SpotsOrdered
  <1>11. FirstMet(at, before, l)
    BY <1>1, <1>7, <1>9, <1>10, OnceIs
  <1> HIDE DEF order, nodes, D
  <1>12. \E n \in Nat : DOMAIN l = 1 .. n
    BY <1>11 DEF FirstMet
  <1>13. \A k \in DOMAIN l : \E x : Spot(t, preferred, x) /\ l[k] = nodes(x[1])[x[2]]
    BY <1>5, <1>7, <1>11 DEF FirstMet
  <1>14. ASSUME NEW g \in DOMAIN order, NEW m \in DOMAIN nodes(g)
         PROVE  <<g, m>> \in spots /\ at[<<g, m>>] = nodes(g)[m]
    BY <1>6, <1>7, <1>14
  <1>15. \A g \in DOMAIN order : \A m \in DOMAIN nodes(g) : \E k \in DOMAIN l : l[k] = nodes(g)[m]
    <2> TAKE g \in DOMAIN order
    <2> TAKE m \in DOMAIN nodes(g)
    <2>1. PICK y \in spots : y = <<g, m>> /\ at[y] = nodes(g)[m]
      BY <1>14
    <2>2. \E k \in DOMAIN l : l[k] = at[y]
      BY <1>7, <1>11 DEF FirstMet
    <2> QED BY <2>1, <2>2
  <1>16. ASSUME NEW j \in DOMAIN l, NEW k \in DOMAIN l, j < k
         PROVE  /\ l[j] # l[k]
                /\ \A g \in DOMAIN order : \A m \in DOMAIN nodes(g) :
                      nodes(g)[m] = l[k] =>
                        \E x : /\ Spot(t, preferred, x) /\ nodes(x[1])[x[2]] = l[j]
                               /\ Before(x, <<g, m>>)
    <2>1. /\ l[j] # l[k]
          /\ \A y \in DOMAIN at : at[y] = l[k] => \E x \in DOMAIN at : at[x] = l[j] /\ <<x, y>> \in before
      BY <1>11, <1>16, Zenon DEF FirstMet
    <2>0. DOMAIN at = spots
      BY <1>7
    <2>2. ASSUME NEW g \in DOMAIN order, NEW m \in DOMAIN nodes(g), nodes(g)[m] = l[k]
          PROVE  \E x : /\ Spot(t, preferred, x) /\ nodes(x[1])[x[2]] = l[j]
                        /\ Before(x, <<g, m>>)
      <3>1. PICK y \in spots : y = <<g, m>> /\ at[y] = l[k]
        BY <1>14, <2>2
      <3>2. PICK x \in spots : at[x] = l[j] /\ <<x, y>> \in before
        BY <2>0, <2>1, <3>1
      <3>3. Spot(t, preferred, x) /\ nodes(x[1])[x[2]] = l[j]
        BY <1>5, <1>7, <3>2
      <3>4. Before(x, y)
        BY <1>8, <3>2
      <3> QED BY <3>1, <3>3, <3>4
    <2> QED BY <2>1, <2>2
  <1> QED BY <1>12, <1>13, <1>15, <1>16 DEF Candidates, l, order, nodes

-----------------------------------------------------------------------------
(* The places of a node.                                                     *)

\* The nodes that are WAN or LAN.
UsableNodes(nodes) == {i \in DOMAIN nodes : UsableNode(nodes[i])}

\* The places of an address in the order of groups, WAN before LAN in each.
PlacesOf(nodes, order, addr) ==
    {p \in 2 .. 2 * Len(order) + 1 : \E i \in UsableNodes(nodes) :
        /\ NodeAddress(nodes[i]) = addr
        /\ order[p \div 2] = nodes[i].group
        /\ (p % 2 = 0) <=> (nodes[i].type = "wan")}

\* Two places for each group: even for WAN, odd for LAN.
LEMMA Halves ==
    ASSUME NEW n \in Nat
    PROVE  /\ \A p \in 2 .. 2 * n + 1 :
                /\ p \div 2 \in 1 .. n
                /\ p = 2 * (p \div 2) \/ p = 2 * (p \div 2) + 1
                /\ p % 2 = 0 <=> p = 2 * (p \div 2)
           /\ \A g \in 1 .. n : /\ 2 * g \in 2 .. 2 * n + 1 /\ 2 * g + 1 \in 2 .. 2 * n + 1
                                /\ (2 * g) \div 2 = g /\ (2 * g) % 2 = 0
                                /\ (2 * g + 1) \div 2 = g /\ (2 * g + 1) % 2 # 0
  OBVIOUS

\* A node gives its address a place in its group.
LEMMA PlaceOfNode ==
    ASSUME NEW nodes \in Seq(Node), NEW order, Len(order) \in Nat,
           NEW g \in 1 .. Len(order), NEW addr
    PROVE  /\ WanIn(nodes, order[g], addr) => 2 * g \in PlacesOf(nodes, order, addr)
           /\ InGroup(nodes, order[g], addr) =>
                \E q \in PlacesOf(nodes, order, addr) : q = 2 * g \/ q = 2 * g + 1
  <1>1. /\ 2 * g \in 2 .. 2 * Len(order) + 1 /\ 2 * g + 1 \in 2 .. 2 * Len(order) + 1
        /\ (2 * g) \div 2 = g /\ (2 * g) % 2 = 0
        /\ (2 * g + 1) \div 2 = g /\ (2 * g + 1) % 2 # 0
    BY Halves
  <1> DEFINE even == 2 * g
             odd == 2 * g + 1
  <1>2. /\ even \in 2 .. 2 * Len(order) + 1 /\ even \div 2 = g /\ even % 2 = 0
        /\ odd \in 2 .. 2 * Len(order) + 1 /\ odd \div 2 = g /\ odd % 2 # 0
    BY <1>1
  <1> HIDE DEF even, odd
  <1>3. ASSUME NEW n \in Ours(nodes, order[g]), NodeAddress(nodes[n]) = addr
        PROVE  IF nodes[n].type = "wan" THEN even \in PlacesOf(nodes, order, addr)
               ELSE odd \in PlacesOf(nodes, order, addr)
    <2>1. n \in UsableNodes(nodes) /\ nodes[n].group = order[g]
      BY DEF Ours, UsableNodes
    <2> QED BY <1>2, <1>3, <2>1 DEF PlacesOf
  <1>4. WanIn(nodes, order[g], addr) => even \in PlacesOf(nodes, order, addr)
    BY <1>3 DEF WanIn
  <1>5. InGroup(nodes, order[g], addr) => \E q \in PlacesOf(nodes, order, addr) : q = even \/ q = odd
    BY <1>3 DEF InGroup
  <1> QED BY <1>4, <1>5 DEF even, odd

\* A place is of a node of its group.
LEMMA NodeOfPlace ==
    ASSUME NEW nodes \in Seq(Node), NEW order, Len(order) \in Nat, NEW addr,
           NEW p \in PlacesOf(nodes, order, addr)
    PROVE  \E g \in 1 .. Len(order) :
              /\ order[g] \in Range(Groups)
              /\ \/ p = 2 * g /\ WanIn(nodes, order[g], addr)
                 \/ p = 2 * g + 1
              /\ InGroup(nodes, order[g], addr)
  <1>1. PICK i \in UsableNodes(nodes) :
            /\ NodeAddress(nodes[i]) = addr /\ order[p \div 2] = nodes[i].group
            /\ (p % 2 = 0) <=> (nodes[i].type = "wan")
    BY DEF PlacesOf
  <1> DEFINE g == p \div 2
  <1>2. /\ g \in 1 .. Len(order) /\ (p = 2 * g \/ p = 2 * g + 1)
        /\ p % 2 = 0 <=> p = 2 * g
    <2>1. p \in 2 .. 2 * Len(order) + 1
      BY DEF PlacesOf
    <2> QED BY <2>1, Halves
  <1>3. order[g] = nodes[i].group
    BY <1>1
  <1> HIDE DEF g
  <1>4. i \in Ours(nodes, order[g]) /\ nodes[i] \in Node
    BY <1>3 DEF UsableNodes, Ours
  <1>5. order[g] \in Range(Groups)
    BY <1>3, <1>4 DEF Node
  <1>6. InGroup(nodes, order[g], addr)
    BY <1>1, <1>4 DEF InGroup
  <1>7. p = 2 * g => WanIn(nodes, order[g], addr)
    BY <1>1, <1>2, <1>4 DEF WanIn
  <1> QED BY <1>2, <1>5, <1>6, <1>7

\* The table's lists are those of the document.
Grouped(t, nodes) ==
    \A g \in Range(Groups) : GroupList(nodes, g, t.nodeGroups[g])

\* The list of a group that is tried holds the nodes of that group.
LEMMA ListedIs ==
    ASSUME NEW t, NEW nodes \in Seq(Node), Grouped(t, nodes), NEW preferred,
           NEW g \in DOMAIN Tried(t, preferred)
    PROVE  /\ \A m \in DOMAIN Listed(t, preferred, g) :
                /\ Tried(t, preferred)[g] \in Range(Groups)
                /\ InGroup(nodes, Tried(t, preferred)[g], Listed(t, preferred, g)[m])
           /\ Tried(t, preferred)[g] \in Range(Groups) =>
                GroupList(nodes, Tried(t, preferred)[g], Listed(t, preferred, g))
  <1>1. CASE Tried(t, preferred)[g] \in Range(Groups)
    BY <1>1 DEF Listed, Grouped, GroupList
  <1>2. CASE Tried(t, preferred)[g] \notin Range(Groups)
    <2>1. Listed(t, preferred, g) = <<>> /\ DOMAIN <<>> = {}
      BY <1>2 DEF Listed
    <2> QED BY <1>2, <2>1
  <1> QED BY <1>1, <1>2

\* Of two candidates the first has a place that is not behind any of the other's.
LEMMA BetterPlace ==
    ASSUME NEW t, NEW nodes \in Seq(Node), Grouped(t, nodes), NEW preferred,
           NEW l, Candidates(t, preferred, l),
           NEW j \in DOMAIN l, NEW k \in DOMAIN l, j < k,
           NEW p \in PlacesOf(nodes, Tried(t, preferred), l[k])
    PROVE  \E q \in PlacesOf(nodes, Tried(t, preferred), l[j]) : q <= p
  <1> DEFINE order == Tried(t, preferred)
             list(g) == Listed(t, preferred, g)
  <1>0. Len(order) \in Nat /\ DOMAIN order = 1 .. Len(order)
    BY TriedIs
  <1>1. PICK g \in 1 .. Len(order) :
            /\ order[g] \in Range(Groups)
            /\ \/ p = 2 * g /\ WanIn(nodes, order[g], l[k])
               \/ p = 2 * g + 1
            /\ InGroup(nodes, order[g], l[k])
    BY <1>0, NodeOfPlace
  <1>2. GroupList(nodes, order[g], list(g))
    BY <1>0, <1>1, ListedIs
  <1>3. PICK m \in DOMAIN list(g) : list(g)[m] = l[k]
    BY <1>1, <1>2 DEF GroupList
  <1>4. PICK x : /\ Spot(t, preferred, x) /\ list(x[1])[x[2]] = l[j]
                 /\ Before(x, <<g, m>>)
    BY <1>0, <1>3 DEF Candidates
  <1> DEFINE h == x[1]
             i == x[2]
  <1>5. /\ h \in 1 .. Len(order) /\ i \in DOMAIN list(h) /\ list(h)[i] = l[j]
        /\ h < g \/ (h = g /\ i < m)
    BY <1>0, <1>4 DEF Spot, Before
  <1> HIDE DEF h, i
  <1>6. InGroup(nodes, order[h], l[j])
    BY <1>0, <1>5, ListedIs
  <1>7. CASE h < g
    <2>1. PICK q \in PlacesOf(nodes, order, l[j]) : q = 2 * h \/ q = 2 * h + 1
      BY <1>0, <1>5, <1>6, PlaceOfNode
    <2>2. q <= p
      BY <1>1, <1>5, <1>7, <2>1
    <2> QED BY <2>2
  <1>8. CASE h = g /\ i < m
    <2>1. CASE p = 2 * g /\ WanIn(nodes, order[g], l[k])
      <3>1. WanIn(nodes, order[g], l[j])
        BY <1>2, <1>3, <1>5, <1>8, <2>1 DEF GroupList
      <3>2. 2 * g \in PlacesOf(nodes, order, l[j])
        BY <1>0, <3>1, PlaceOfNode
      <3> QED BY <2>1, <3>2
    <2>2. CASE p = 2 * g + 1
      <3>1. PICK q \in PlacesOf(nodes, order, l[j]) : q = 2 * g \/ q = 2 * g + 1
        BY <1>0, <1>6, <1>8, PlaceOfNode
      <3>2. q <= p
        BY <2>2, <3>1
      <3> QED BY <3>2
    <2> QED BY <1>1, <2>1, <2>2
  <1> QED BY <1>5, <1>7, <1>8

\* Every candidate is the address of a usable node and has a place.
LEMMA HasPlace ==
    ASSUME NEW t, NEW nodes \in Seq(Node), Grouped(t, nodes), NEW preferred,
           NEW l, Candidates(t, preferred, l), NEW k \in DOMAIN l
    PROVE  /\ PlacesOf(nodes, Tried(t, preferred), l[k]) # {}
           /\ \E i \in UsableNodes(nodes) : l[k] = NodeAddress(nodes[i])
  <1>0. Len(Tried(t, preferred)) \in Nat /\ DOMAIN Tried(t, preferred) = 1 .. Len(Tried(t, preferred))
    BY TriedIs
  <1>1. PICK x : Spot(t, preferred, x) /\ l[k] = Listed(t, preferred, x[1])[x[2]]
    BY DEF Candidates
  <1>2. x[1] \in 1 .. Len(Tried(t, preferred)) /\ x[2] \in DOMAIN Listed(t, preferred, x[1])
    BY <1>0, <1>1 DEF Spot
  <1>3. InGroup(nodes, Tried(t, preferred)[x[1]], l[k])
    BY <1>0, <1>1, <1>2, ListedIs
  <1>4. PlacesOf(nodes, Tried(t, preferred), l[k]) # {}
    BY <1>0, <1>2, <1>3, PlaceOfNode
  <1>5. \E i \in UsableNodes(nodes) : l[k] = NodeAddress(nodes[i])
    BY <1>3 DEF InGroup, Ours, UsableNodes
  <1> QED BY <1>4, <1>5

\* Every usable node is a candidate.
LEMMA IsCandidate ==
    ASSUME NEW t, NEW nodes \in Seq(Node), Grouped(t, nodes), NEW preferred,
           NEW l, Candidates(t, preferred, l), NEW i \in UsableNodes(nodes)
    PROVE  \E k \in DOMAIN l : l[k] = NodeAddress(nodes[i])
  <1>1. i \in DOMAIN nodes /\ nodes[i].group \in Range(Groups) /\ UsableNode(nodes[i])
    <2>1. i \in DOMAIN nodes /\ nodes[i] \in Node /\ UsableNode(nodes[i])
      BY DEF UsableNodes
    <2> QED BY <2>1 DEF Node
  <1>2. PICK g \in DOMAIN Tried(t, preferred) : Tried(t, preferred)[g] = nodes[i].group
    <2>1. \A group \in Range(Groups) :
            \E g \in DOMAIN Tried(t, preferred) : Tried(t, preferred)[g] = group
      BY TriedIs
    <2> QED BY <1>1, <2>1
  <1>3. InGroup(nodes, nodes[i].group, NodeAddress(nodes[i]))
    BY <1>1 DEF InGroup, Ours
  <1>4. GroupList(nodes, nodes[i].group, Listed(t, preferred, g))
    BY <1>1, <1>2, ListedIs
  <1>5. PICK m \in DOMAIN Listed(t, preferred, g) : Listed(t, preferred, g)[m] = NodeAddress(nodes[i])
    BY <1>3, <1>4 DEF GroupList
  <1> QED BY <1>5 DEF Candidates

\* A table that is its document's lists the nodes in their order.
LEMMA OrderHolds ==
    ASSUME TableInv
    PROVE  NodesInOrder
  <1> SUFFICES ASSUME table # NoTable, NEW preferred \in Range(Groups)
               PROVE
        LET order == <<preferred, table.majorGroup>> \o Groups
            usable == {i \in DOMAIN doc.nodes : UsableNode(doc.nodes[i])}
            places(addr) ==
                {p \in 2 .. 2 * Len(order) + 1 : \E i \in usable :
                    /\ NodeAddress(doc.nodes[i]) = addr
                    /\ order[p \div 2] = doc.nodes[i].group
                    /\ (p % 2 = 0) <=> (doc.nodes[i].type = "wan")}
            list == candidateNodes(table, preferred)
        IN /\ Range(list) = {NodeAddress(doc.nodes[i]) : i \in usable}
           /\ \A i, j \in DOMAIN list : i < j =>
                list[i] # list[j] /\ Min(places(list[i])) <= Min(places(list[j]))
    BY DEF NodesInOrder
  <1> DEFINE nodes == doc.nodes
             l == candidateNodes(table, preferred)
             order == Tried(table, preferred)
  <1>1. nodes \in Seq(Node) /\ table.nodeGroups = [g \in Range(Groups) |-> nodeGroup(nodes, g)]
    BY TableIs DEF Document
  <1> HIDE DEF nodes
  <1>2. Grouped(table, nodes)
    BY <1>1, GroupIs DEF Grouped
  <1>3. Candidates(table, preferred, l)
    <2>1. \A g \in Range(Groups) : \E n \in Nat : DOMAIN table.nodeGroups[g] = 1 .. n
      BY <1>2 DEF Grouped, GroupList
    <2> HIDE DEF l
    <2> QED BY <2>1, CandidatesAre DEF l
  <1> HIDE DEF l, order
  <1>4. Range(l) = {NodeAddress(nodes[i]) : i \in UsableNodes(nodes)}
    <2>1. \A k \in DOMAIN l : \E i \in UsableNodes(nodes) : l[k] = NodeAddress(nodes[i])
      BY <1>1, <1>2, <1>3, HasPlace
    <2>2. \A i \in UsableNodes(nodes) : \E k \in DOMAIN l : l[k] = NodeAddress(nodes[i])
      BY <1>1, <1>2, <1>3, IsCandidate
    <2> QED BY <2>1, <2>2 DEF Range
  <1>5. ASSUME NEW j \in DOMAIN l, NEW k \in DOMAIN l, j < k
        PROVE  /\ l[j] # l[k]
               /\ Min(PlacesOf(nodes, order, l[j])) <= Min(PlacesOf(nodes, order, l[k]))
    <2>1. l[j] # l[k]
      BY <1>3, <1>5 DEF Candidates
    <2> DEFINE A == PlacesOf(nodes, order, l[j])
               B == PlacesOf(nodes, order, l[k])
    <2>2. A # {} /\ B # {}
      BY <1>1, <1>2, <1>3, HasPlace DEF order
    <2>3. A \subseteq Nat /\ B \subseteq Nat
      <3>1. Len(order) \in Nat
        BY TriedIs DEF order
      <3> QED BY <3>1 DEF PlacesOf
    <2>4. \A p \in B : \E q \in A : q <= p
      BY <1>1, <1>2, <1>3, <1>5, BetterPlace DEF order
    <2> HIDE DEF A, B
    <2>5. Min(A) <= Min(B)
      <3>1. Min(A) \in A /\ Min(B) \in B /\ \A q \in A : Min(A) <= q
        BY <2>2, <2>3, MinIs
      <3>2. PICK q \in A : q <= Min(B)
        BY <2>4, <3>1
      <3>3. Min(A) <= q /\ q \in Nat /\ Min(A) \in Nat /\ Min(B) \in Nat
        BY <2>3, <3>1
      <3> QED BY <3>2, <3>3
    <2> QED BY <2>1, <2>5 DEF A, B
  <1> QED BY <1>4, <1>5 DEF nodes, l, order, Tried, UsableNodes, PlacesOf

\* For every document and preferred group, candidateNodes lists each usable node once, in the
\* order of its best place.
THEOREM NodesAreInOrder == Spec => []NodesInOrder
  <1>1. Init => TableInv
    BY DEF Init, TableInv
  <1>2. Spec => []TableInv
    BY <1>1, TableStep, PTL DEF Spec
  <1>3. TableInv => NodesInOrder
    BY OrderHolds
  <1> QED BY <1>2, <1>3, PTL
=============================================================================
