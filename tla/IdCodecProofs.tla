---------------------------- MODULE IdCodecProofs ----------------------------
(***************************************************************************)
(* Every id survives its codec, whatever bytes follow it on the wire.      *)
(* So any ids, as many as one likes, are read off a string as they were    *)
(* written.  What makes that inductive is that the string can be cut where *)
(* each id that is not read yet begins (Suffixes): a round trip of the id  *)
(* in front leaves the next suffix.                                        *)
(***************************************************************************)
EXTENDS IdWire, SequenceTheorems, TLAPS

LEMMA SmallMod ==
  ASSUME NEW m \in Nat \ {0}, NEW n \in Int, 0 <= n, n < m
  PROVE  n % m = n
OBVIOUS

LEMMA SplitBytes ==
  ASSUME NEW v \in Int
  PROVE  v = (v % 256) + 256 * (v \div 256) /\ v % 256 \in 0..255 /\ v \div 256 \in Int
OBVIOUS

LEMMA TailOfHeader ==
  ASSUME NEW b \in Byte, NEW s \in Seq(Byte)
  PROVE  Tail(<<b>> \o s) = s /\ (<<b>> \o s)[1] = b
<1> DEFINE t == Tail(<<b>> \o s)
<1>1. /\ <<b>> \o s \in Seq(Byte) /\ Len(<<b>> \o s) = 1 + Len(s)
      /\ \A i \in 1..1 + Len(s) :
           (<<b>> \o s)[i] = IF i <= 1 THEN <<b>>[i] ELSE s[i - 1]
  BY ConcatProperties
<1>2. t \in Seq(Byte) /\ Len(t) = Len(s) /\ \A i \in 1..Len(s) : t[i] = s[i]
  BY <1>1
<1>3. t = s
  BY <1>2, SeqEqual
<1> QED
  BY <1>1, <1>3

\* The default codec reads back every id of its range from the front of a byte
\* string, and its encoding is as long as size() says (field_codec_id.cpp:32,
\* :49, :68).
THEOREM DefaultIdRoundTrip ==
  ASSUME NEW id \in Nat, id <= TWO_BYTE_MAX_ID, NEW rest \in Seq(Byte)
  PROVE  /\ default_encode(id) \in Seq(Byte)
         /\ Len(default_encode(id)) = default_size(id)
         /\ default_decode(default_encode(id) \o rest) = id
<1>1. CASE id <= ONE_BYTE_MAX_ID
  <2> DEFINE b == 2 * id
  <2>1. b \in 0..254 /\ b % 256 = b /\ b % 2 = 0 /\ b \div 2 = id
    BY <1>1 DEF ONE_BYTE_MAX_ID
  <2>2. default_encode(id) = <<b>>
    BY <1>1, <2>1 DEF default_encode
  <2>3. (<<b>> \o rest)[1] = b
    BY <2>1
  <2>4. default_decode(<<b>> \o rest) = id
    BY <2>1, <2>3 DEF default_decode
  <2> QED
    BY <1>1, <2>1, <2>2, <2>4 DEF default_size, Byte
<1>2. CASE ~(id <= ONE_BYTE_MAX_ID)
  <2>0. id \in Int /\ 0 <= id /\ id < 32768
    BY DEF TWO_BYTE_MAX_ID
  <2> DEFINE v == 2 * id + 1
             lo == v % 256
             hi == v \div 256
  <2>1. (2 * id) % 65536 = 2 * id
    BY <2>0, SmallMod
  <2>2. v \in Int /\ 0 <= v /\ v < 65536
    BY <2>0
  <2>3. v = lo + 256 * hi /\ lo \in 0..255 /\ hi \in Int
    BY <2>2, SplitBytes
  <2>4. hi \in 0..255
    BY <2>2, <2>3
  <2>5. lo = 2 * (id - 128 * hi) + 1 /\ id - 128 * hi \in Int
    BY <2>3
  <2>6. lo % 2 = 1
    BY <2>3, <2>5
  <2>7. v \div 2 = id
    BY <2>2
  <2>8. lo \in Byte /\ hi \in Byte /\ lo % 2 = 1 /\ (lo + 256 * hi) \div 2 = id
    BY <2>3, <2>4, <2>6, <2>7 DEF Byte
  <2>9. default_encode(id) = <<lo, hi>>
    BY <1>2, <2>1 DEF default_encode
  <2> HIDE DEF lo, hi
  <2>10. (<<lo, hi>> \o rest)[1] = lo /\ (<<lo, hi>> \o rest)[2] = hi
    BY <2>8
  <2>11. default_decode(<<lo, hi>> \o rest) = id
    BY <2>8, <2>10 DEF default_decode
  <2> QED
    BY <1>2, <2>8, <2>9, <2>11 DEF default_size
<1> QED
  BY <1>1, <1>2

\* So does the codec of the CCL library: DCCL ids behind the byte 32, CCL ids
\* in any other byte (ccl_compatibility.h:49, :64, :85).
THEOREM CclIdRoundTrip ==
  ASSUME NEW id \in Nat, id_carried(CclName, id), NEW rest \in Seq(Byte)
  PROVE  /\ ccl_encode(id) \in Seq(Byte)
         /\ Len(ccl_encode(id)) = ccl_size(id)
         /\ ccl_decode(ccl_encode(id) \o rest) = id
<1>1. CASE is_ccl_id(id)
  <2> DEFINE b == id % 65536
  <2>1. b \in Byte \ {DCCL_CCL_HEADER}
    BY <1>1 DEF id_carried
  <2>2. b % 256 = b /\ id = CCL_DCCL_ID_PREFIX + b
    BY <1>1, <2>1 DEF is_ccl_id, CCL_DCCL_ID_PREFIX, Byte
  <2>3. ccl_encode(id) = <<b>>
    BY <1>1, <2>2 DEF ccl_encode
  <2> HIDE DEF b
  <2>4. (<<b>> \o rest)[1] = b
    BY <2>1
  <2>5. ccl_decode(<<b>> \o rest) = id
    BY <2>1, <2>2, <2>4 DEF ccl_decode
  <2> QED
    BY <1>1, <2>1, <2>3, <2>5 DEF ccl_size
<1>2. CASE ~is_ccl_id(id)
  <2> DEFINE e == default_encode(id)
             h == << DCCL_CCL_HEADER >>
  <2>1. id <= TWO_BYTE_MAX_ID
    BY <1>2 DEF id_carried, id_accepts, ccl_accepts, default_accepts
  <2>2. /\ e \in Seq(Byte) /\ Len(e) = default_size(id)
        /\ default_decode(e \o rest) = id
    BY <2>1, DefaultIdRoundTrip
  <2>3. DCCL_CCL_HEADER \in Byte /\ h \in Seq(Byte) /\ Len(h) = 1
    BY DEF DCCL_CCL_HEADER, Byte
  <2>4. ccl_encode(id) = h \o e
    BY <1>2 DEF ccl_encode
  <2>5. Tail((h \o e) \o rest) = e \o rest /\ ((h \o e) \o rest)[1] = DCCL_CCL_HEADER
    <3>1. (h \o e) \o rest = h \o (e \o rest) /\ e \o rest \in Seq(Byte)
      BY <2>2, <2>3, ConcatAssociative, ConcatProperties
    <3> QED
      BY <2>3, <3>1, TailOfHeader
  <2>6. h \o e \in Seq(Byte) /\ Len(h \o e) = 1 + default_size(id)
    BY <2>2, <2>3, ConcatProperties
  <2> HIDE DEF e, h
  <2>7. ccl_decode((h \o e) \o rest) = id
    BY <2>2, <2>5 DEF ccl_decode
  <2>8. ccl_size(id) = 1 + default_size(id)
    BY <1>2 DEF ccl_size
  <2> QED
    BY <2>4, <2>7, <2>8, <2>6
<1> QED
  BY <1>1, <1>2

\* The two by the name Codec knows them under.
COROLLARY IdRoundTrip ==
  ASSUME NEW name \in IdNames, NEW id \in Nat, id_carried(name, id), NEW rest \in Seq(Byte)
  PROVE  /\ id_encode(name, id) \in Seq(Byte)
         /\ Len(id_encode(name, id)) = id_size(name, id)
         /\ id_decode(name, id_encode(name, id) \o rest) = id
<1>1. CASE name = CclName
  BY <1>1, CclIdRoundTrip DEF id_encode, id_size, id_decode
<1>2. CASE name # CclName
  <2>1. id <= TWO_BYTE_MAX_ID
    BY <1>2 DEF id_carried, id_accepts, default_accepts
  <2> QED
    BY <1>2, <2>1, DefaultIdRoundTrip DEF id_encode, id_size, id_decode
<1> QED
  BY <1>1, <1>2

-----------------------------------------------------------------------------
(* Ids behind one another *)

\* suffix[i] is the string from behind the i-th of the ids, of which r are read.
Suffixes(suffix, n, ids, r, string) ==
  /\ suffix[r] = string
  /\ suffix[Len(ids)] = << >>
  /\ \A i \in r..Len(ids) - 1 : suffix[i] = id_encode(n, ids[i + 1]) \o suffix[i + 1]

WireTypes ==
  /\ wire_codec \in IdNames
  /\ ids_written \in Seq(Nat) /\ \A i \in 1..Len(ids_written) : id_carried(wire_codec, ids_written[i])
  /\ ids_read \in Seq(Nat)
  /\ wire \in Seq(Byte)

WireInv ==
  /\ WireTypes
  /\ Len(ids_read) <= Len(ids_written)
  /\ \A i \in 1..Len(ids_read) : ids_read[i] = ids_written[i]
  /\ \E suffix \in [Len(ids_read)..Len(ids_written) -> Seq(Byte)] :
        Suffixes(suffix, wire_codec, ids_written, Len(ids_read), wire)

\* size() is never 0.
LEMMA SizePositive == \A n, id : id_size(n, id) \in Nat \ {0}
BY DEF id_size, ccl_size, default_size

\* What is behind the first bytes of a string.
LEMMA BehindFront ==
  ASSUME NEW s \in Seq(Byte), NEW rest \in Seq(Byte)
  PROVE  SubSeq(s \o rest, Len(s) + 1, Len(s \o rest)) = rest
<1> DEFINE all == s \o rest
           part == SubSeq(all, Len(s) + 1, Len(all))
<1>1. /\ all \in Seq(Byte) /\ Len(all) = Len(s) + Len(rest)
      /\ \A i \in 1..Len(s) + Len(rest) :
           all[i] = IF i <= Len(s) THEN s[i] ELSE rest[i - Len(s)]
  BY ConcatProperties
<1>2. Len(s) \in Nat /\ Len(rest) \in Nat
  OBVIOUS
<1> HIDE DEF all
<1>3. part \in Seq(Byte) /\ Len(part) = Len(rest)
  BY <1>1, <1>2
<1>4. \A i \in 1..Len(rest) : part[i] = rest[i]
  BY <1>1, <1>2
<1>5. part = rest
  BY <1>3, <1>4, SeqEqual
<1> QED
  BY <1>5 DEF all

\* Strings are appended in either grouping.
LEMMA ThreeStrings ==
  ASSUME NEW s \in Seq(Byte), NEW t \in Seq(Byte), NEW u \in Seq(Byte)
  PROVE  (s \o t) \o u = s \o (t \o u)
BY ConcatAssociative

\* The string begins with the next id to read.
LEMMA FirstSuffix ==
  ASSUME NEW suffix, Suffixes(suffix, wire_codec, ids_written, Len(ids_read), wire),
         Len(ids_read) \in Nat, Len(ids_written) \in Nat, Len(ids_read) < Len(ids_written)
  PROVE  wire = id_encode(wire_codec, ids_written[Len(ids_read) + 1]) \o suffix[Len(ids_read) + 1]
<1>1. Len(ids_read) \in Len(ids_read)..Len(ids_written) - 1
  OBVIOUS
<1> QED
  BY <1>1 DEF Suffixes

LEMMA InitWire == WireInit => WireInv
<1> SUFFICES ASSUME WireInit PROVE WireInv
  OBVIOUS
<1>1. WireTypes /\ Len(ids_read) = 0 /\ Len(ids_written) = 0
  BY DEF WireInit, WireTypes
<1> DEFINE suffix == [i \in 0..0 |-> << >>]
<1>2. suffix \in [Len(ids_read)..Len(ids_written) -> Seq(Byte)] /\ Suffixes(suffix, wire_codec, ids_written, Len(ids_read), wire)
  BY <1>1 DEF WireInit, Suffixes
<1> QED
  BY <1>1, <1>2 DEF WireInv

\* An id that is appended lengthens every suffix.
LEMMA WriteWire ==
  ASSUME WireInv, NEW id \in SomeIds, WriteId(id)
  PROVE  WireInv'
<1>1. id \in Nat /\ id_carried(wire_codec, id)
  BY IdWireAssumption DEF WriteId
<1> DEFINE e == id_encode(wire_codec, id)
           r == Len(ids_read)
           w == Len(ids_written)
<1>2. e \in Seq(Byte)
  <2>1. << >> \in Seq(Byte)
    OBVIOUS
  <2> QED
    BY <1>1, <2>1, IdRoundTrip DEF WireInv, WireTypes
<1>3. r \in Nat /\ w \in Nat /\ r <= w
  BY DEF WireInv, WireTypes
<1>4. /\ ids_written' = Append(ids_written, id) /\ wire' = wire \o e
      /\ wire_codec' = wire_codec /\ ids_read' = ids_read
  BY DEF WriteId
<1>5. /\ ids_written' \in Seq(Nat) /\ Len(ids_written') = w + 1
      /\ \A i \in 1..w : ids_written'[i] = ids_written[i]
      /\ ids_written'[w + 1] = id
  BY <1>1, <1>4 DEF WireInv, WireTypes
<1>6. WireTypes'
  <2>1. wire' \in Seq(Byte)
    BY <1>2, <1>4, ConcatProperties DEF WireInv, WireTypes
  <2>2. \A i \in 1..Len(ids_written') : id_carried(wire_codec, ids_written'[i])
    <3> SUFFICES ASSUME NEW i \in 1..w + 1 PROVE id_carried(wire_codec, ids_written'[i])
      BY <1>4, <1>5
    <3>1. i \in 1..w \/ i = w + 1
      BY <1>3
    <3>2. \A j \in 1..w : id_carried(wire_codec, ids_written[j])
      BY DEF WireInv, WireTypes
    <3> QED
      BY <1>1, <1>5, <3>1, <3>2
  <2> QED
    BY <1>4, <1>5, <2>1, <2>2 DEF WireInv, WireTypes
<1>7. Len(ids_read') <= Len(ids_written') /\ \A i \in 1..Len(ids_read') : ids_read'[i] = ids_written'[i]
  <2>1. \A i \in 1..r : ids_read[i] = ids_written[i] /\ i \in 1..w
    BY <1>3 DEF WireInv
  <2>2. r <= w + 1
    BY <1>3
  <2> QED
    BY <1>4, <1>5, <2>1, <2>2
<1>8. PICK suffix \in [r..w -> Seq(Byte)] : Suffixes(suffix, wire_codec, ids_written, Len(ids_read), wire)
  BY DEF WireInv
<1> DEFINE longer == [i \in r..w + 1 |-> IF i <= w THEN suffix[i] \o e ELSE << >>]
<1> HIDE DEF e
<1>9. longer \in [r..w + 1 -> Seq(Byte)]
  <2>1. ASSUME NEW i \in r..w + 1 PROVE (IF i <= w THEN suffix[i] \o e ELSE << >>) \in Seq(Byte)
    <3>1. CASE i <= w
      <4>1. suffix[i] \in Seq(Byte)
        BY <1>3, <1>8, <3>1
      <4> QED
        BY <1>2, <3>1, <4>1, ConcatProperties
    <3>2. CASE ~(i <= w)
      BY <3>2
    <3> QED
      BY <3>1, <3>2
  <2> QED
    BY <2>1
<1>10. longer[r] = wire'
  BY <1>3, <1>4, <1>8 DEF Suffixes
<1>11. longer[w + 1] = << >>
  BY <1>3
<1>12. ASSUME NEW i \in r..w
       PROVE  longer[i] = id_encode(wire_codec, ids_written'[i + 1]) \o longer[i + 1]
  <2>1. CASE i = w
    <3>1. longer[i] = << >> \o e
      <4>1. suffix[i] = << >>
        BY <1>8, <2>1 DEF Suffixes
      <4>2. longer[i] = suffix[i] \o e
        BY <1>3, <2>1
      <4> QED
        BY <4>1, <4>2
    <3>2. << >> \o e = e /\ e \o << >> = e
      BY <1>2, ConcatEmptySeq
    <3>3. longer[i + 1] = << >> /\ ids_written'[i + 1] = id
      BY <1>5, <1>11, <2>1
    <3> QED
      BY <3>1, <3>2, <3>3 DEF e
  <2>2. CASE i # w
    <3> DEFINE x == id_encode(wire_codec, ids_written[i + 1])
    <3>1. i \in r..w - 1 /\ i + 1 \in r..w /\ i + 1 \in 1..w
      BY <1>3, <2>2
    <3>2. suffix[i] = x \o suffix[i + 1] /\ suffix[i + 1] \in Seq(Byte)
      BY <1>8, <3>1 DEF Suffixes
    <3>3. x \in Seq(Byte)
      <4>1. ids_written[i + 1] \in Nat /\ id_carried(wire_codec, ids_written[i + 1])
        BY <3>1 DEF WireInv, WireTypes
      <4> QED
        BY <3>2, <4>1, IdRoundTrip DEF WireInv, WireTypes
    <3> HIDE DEF x
    <3>4. (x \o suffix[i + 1]) \o e = x \o (suffix[i + 1] \o e)
      <4> DEFINE y == suffix[i + 1]
      <4>1. y \in Seq(Byte)
        BY <3>2
      <4> HIDE DEF y
      <4>2. (x \o y) \o e = x \o (y \o e)
        BY <1>2, <3>3, <4>1, ThreeStrings
      <4> QED
        BY <4>2 DEF y
    <3>5. longer[i] = suffix[i] \o e /\ longer[i + 1] = suffix[i + 1] \o e
      BY <1>3, <3>1
    <3>6. ids_written'[i + 1] = ids_written[i + 1]
      BY <1>5, <3>1
    <3> QED
      BY <3>2, <3>4, <3>5, <3>6 DEF x
  <2> QED
    BY <2>1, <2>2
<1> HIDE DEF longer
<1>13. Suffixes(longer, wire_codec', ids_written', Len(ids_read'), wire')
  <2>1. Len(ids_read') = r /\ Len(ids_written') = w + 1 /\ r..Len(ids_written') - 1 = r..w
    BY <1>3, <1>4, <1>5
  <2>2. \A i \in r..w : longer[i] = id_encode(wire_codec', ids_written'[i + 1]) \o longer[i + 1]
    BY <1>4, <1>12
  <2>3. longer[Len(ids_read')] = wire' /\ longer[Len(ids_written')] = << >>
    BY <1>10, <1>11, <2>1
  <2> QED
    BY <2>1, <2>2, <2>3 DEF Suffixes
<1>14. longer \in [Len(ids_read')..Len(ids_written') -> Seq(Byte)]
  BY <1>4, <1>5, <1>9
<1> QED
  BY <1>6, <1>7, <1>13, <1>14 DEF WireInv

\* The id in front is the next one written, and what is left is its suffix.
LEMMA ReadWire ==
  ASSUME WireInv, ReadId
  PROVE  WireInv'
<1> DEFINE r == Len(ids_read)
           w == Len(ids_written)
<1>1. r \in Nat /\ w \in Nat /\ r <= w
  BY DEF WireInv, WireTypes
<1>2. PICK suffix \in [r..w -> Seq(Byte)] : Suffixes(suffix, wire_codec, ids_written, Len(ids_read), wire)
  BY DEF WireInv
<1>3. r < w
  <2>1. wire # << >>
    BY DEF ReadId, id_min_size, WireInv, WireTypes
  <2> QED
    BY <1>1, <1>2, <2>1 DEF Suffixes
<1> DEFINE id == ids_written[r + 1]
           e == id_encode(wire_codec, id)
           rest == suffix[r + 1]
<1>4. id \in Nat /\ id_carried(wire_codec, id) /\ rest \in Seq(Byte)
  BY <1>1, <1>2, <1>3 DEF WireInv, WireTypes
<1>5. wire = e \o rest
  BY <1>1, <1>2, <1>3, FirstSuffix
<1> HIDE DEF rest, id
<1>6. e \in Seq(Byte) /\ Len(e) = id_size(wire_codec, id) /\ id_decode(wire_codec, e \o rest) = id
  BY <1>4, IdRoundTrip DEF WireInv, WireTypes
<1> HIDE DEF e
<1>7. ids_read' = Append(ids_read, id) /\ wire' = rest /\ ids_written' = ids_written /\ wire_codec' = wire_codec
  BY <1>4, <1>5, <1>6, BehindFront DEF ReadId
<1>8. ids_read' \in Seq(Nat) /\ Len(ids_read') = r + 1
      /\ \A i \in 1..r : ids_read'[i] = ids_read[i]
      /\ ids_read'[r + 1] = id
  BY <1>4, <1>7 DEF WireInv, WireTypes
<1>9. \A i \in 1..Len(ids_read') : ids_read'[i] = ids_written'[i]
  <2> SUFFICES ASSUME NEW i \in 1..r + 1 PROVE ids_read'[i] = ids_written[i]
    BY <1>7, <1>8
  <2>1. \A j \in 1..r : ids_read[j] = ids_written[j]
    BY DEF WireInv
  <2>2. i \in 1..r \/ i = r + 1
    BY <1>1
  <2> QED
    BY <1>8, <2>1, <2>2 DEF id
<1>10. WireTypes'
  BY <1>4, <1>7, <1>8 DEF WireInv, WireTypes
<1> DEFINE shorter == [i \in r + 1..w |-> suffix[i]]
<1>11. shorter \in [r + 1..w -> Seq(Byte)]
  BY <1>1, <1>2
<1>12. shorter[r + 1] = rest /\ shorter[w] = << >>
  BY <1>1, <1>2, <1>3 DEF rest, Suffixes
<1>13. \A i \in r + 1..w - 1 : shorter[i] = id_encode(wire_codec, ids_written[i + 1]) \o shorter[i + 1]
  <2> TAKE i \in r + 1..w - 1
  <2>1. i \in r..w - 1 /\ i \in r + 1..w /\ i + 1 \in r + 1..w
    BY <1>1
  <2> QED
    BY <1>2, <2>1 DEF Suffixes
<1> HIDE DEF shorter
<1>14. Suffixes(shorter, wire_codec', ids_written', Len(ids_read'), wire')
  <2>1. Len(ids_read') = r + 1 /\ Len(ids_written') = w
    BY <1>7, <1>8
  <2>2. \A i \in Len(ids_read')..Len(ids_written') - 1 :
          shorter[i] = id_encode(wire_codec', ids_written'[i + 1]) \o shorter[i + 1]
    BY <1>7, <1>13, <2>1
  <2>3. shorter[Len(ids_read')] = wire' /\ shorter[Len(ids_written')] = << >>
    BY <1>7, <1>12, <2>1
  <2> QED
    BY <2>2, <2>3 DEF Suffixes
<1>15. shorter \in [Len(ids_read')..Len(ids_written') -> Seq(Byte)] /\ Len(ids_read') <= Len(ids_written')
  BY <1>1, <1>3, <1>7, <1>8, <1>11
<1> QED
  BY <1>9, <1>10, <1>14, <1>15 DEF WireInv

LEMMA WireInvariant == WireSpec => []WireInv
<1>1. WireInv /\ UNCHANGED wire_vars => WireInv'
  <2> SUFFICES ASSUME WireInv, UNCHANGED wire_vars PROVE WireInv'
    OBVIOUS
  <2> USE DEF wire_vars
  <2>1. WireTypes'
    BY DEF WireInv, WireTypes
  <2>2. PICK suffix \in [Len(ids_read)..Len(ids_written) -> Seq(Byte)] :
        Suffixes(suffix, wire_codec, ids_written, Len(ids_read), wire)
    BY DEF WireInv
  <2>3. Suffixes(suffix, wire_codec', ids_written', Len(ids_read'), wire')
    BY <2>2 DEF Suffixes
  <2> QED
    BY <2>1, <2>2, <2>3 DEF WireInv
<1>2. WireInv /\ [WireNext]_wire_vars => WireInv'
  BY <1>1, WriteWire, ReadWire DEF WireNext
<1> QED
  BY <1>2, InitWire, PTL DEF WireSpec

\* Any ids that the codec carries, any number of them, are read in the order
\* they were written (field_codec_id.cpp:49, ccl_compatibility.h:64).
THEOREM IdsReadInOrder == WireSpec => []ReadInOrder
<1>1. WireInv => ReadInOrder
  <2> SUFFICES ASSUME WireInv PROVE ReadInOrder
    OBVIOUS
  <2> DEFINE r == Len(ids_read)
             front == SubSeq(ids_written, 1, r)
  <2>1. r \in Nat /\ r <= Len(ids_written)
    BY DEF WireInv, WireTypes
  <2>2. front \in Seq(Nat) /\ Len(front) = r /\ \A i \in 1..r : front[i] = ids_written[i]
    BY <2>1 DEF WireInv, WireTypes
  <2>3. ids_read = front
    BY <2>2, SeqEqual DEF WireInv, WireTypes
  <2> QED
    BY <2>1, <2>3 DEF ReadInOrder
<1> QED
  BY <1>1, WireInvariant, PTL

\* The string is empty when all were read and not before: size() is what
\* decode() takes (codec.h:536).
THEOREM SizesAreConsumption == WireSpec => []SizeIsConsumption
<1>1. WireInv => SizeIsConsumption
  <2> SUFFICES ASSUME WireInv PROVE SizeIsConsumption
    OBVIOUS
  <2> DEFINE r == Len(ids_read)
             w == Len(ids_written)
  <2>1. r \in Nat /\ w \in Nat /\ r <= w
    BY DEF WireInv, WireTypes
  <2>2. PICK suffix \in [r..w -> Seq(Byte)] : Suffixes(suffix, wire_codec, ids_written, Len(ids_read), wire)
    BY DEF WireInv
  <2>3. CASE r = w
    BY <2>2, <2>3 DEF Suffixes, SizeIsConsumption
  <2>4. CASE r < w
    <3> DEFINE id == ids_written[r + 1]
               e == id_encode(wire_codec, id)
               rest == suffix[r + 1]
    <3>1. id \in Nat /\ id_carried(wire_codec, id) /\ rest \in Seq(Byte)
      BY <2>1, <2>2, <2>4 DEF WireInv, WireTypes
    <3>2. wire = e \o rest
      BY <2>1, <2>2, <2>4, FirstSuffix
    <3>3. e \in Seq(Byte) /\ Len(e) = id_size(wire_codec, id)
      BY <3>1, IdRoundTrip DEF WireInv, WireTypes
    <3> HIDE DEF e, rest
    <3>4. Len(wire) = id_size(wire_codec, id) + Len(rest)
      BY <3>1, <3>2, <3>3, ConcatProperties
    <3>5. Len(wire) > 0
      BY <3>1, <3>4, SizePositive
    <3> QED
      BY <2>1, <2>4, <3>5 DEF SizeIsConsumption, WireInv, WireTypes
  <2> QED
    BY <2>1, <2>3, <2>4
<1> QED
  BY <1>1, WireInvariant, PTL
=============================================================================
