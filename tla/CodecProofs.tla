----------------------------- MODULE CodecProofs -----------------------------
(***************************************************************************)
(* What holds of the registry of a Codec for any message types, any ids    *)
(* and libraries, and any sequence of calls.  LoadedMessagesFit is         *)
(* inductive given the types: load() establishes it for the id it inserts, *)
(* and the only calls that change the id codec empty the registry.         *)
(*                                                                         *)
(* And what holds of two of them and the string between: frames lie end to *)
(* end on it, and the receiver's string begins with the next, so that the  *)
(* link implements MessageStream.                                          *)
(***************************************************************************)
EXTENDS Link, IdCodecProofs

LEMMA OptTypes ==
  ASSUME NEW d \in Desc
  PROVE  /\ Opt[d] \in OptType /\ Opt[d].id \in Ids
         /\ Opt[d].head \in Nat /\ Opt[d].body \in Nat /\ Opt[d].max_bytes \in Nat
BY CodecAssumption DEF OptType

\* The id codec gives back the hard-coded id it was given.
LEMMA HardId ==
  ASSUME TypeOK, NEW o \in Objects, NEW d \in Desc, id_usable(o, Opt[d].id)
  PROVE  hard_id(o, d) = Opt[d].id
<1> DEFINE name == id_codec[o]
           id == Opt[d].id
<1>1. name \in IdNames /\ id \in Ids /\ id \in Nat
  BY OptTypes, CodecAssumption DEF TypeOK
<1>2. id_carried(name, id)
  BY <1>1, IdsCarried DEF id_usable
<1>3. << >> \in Seq(Byte)
  OBVIOUS
<1>4. /\ id_encode(name, id) \in Seq(Byte)
      /\ id_decode(name, id_encode(name, id) \o << >>) = id
  BY <1>1, <1>2, <1>3, IdRoundTrip
<1>5. id_encode(name, id) \o << >> = id_encode(name, id)
  BY <1>4
<1> QED
  BY <1>4, <1>5 DEF hard_id

\* The id that a call of load() or encode() settles on is one the id codec
\* accepts.
LEMMA UsableId ==
  ASSUME TypeOK, NEW o \in Objects, NEW d \in Desc, NEW u \in AnyId,
         default_id_usable(o, d, u)
  PROVE  dccl_id(o, d, u) \in Ids /\ id_accepts(id_codec[o], dccl_id(o, d, u))
<1>1. CASE u < 0
  BY <1>1, HardId, OptTypes DEF default_id_usable, dccl_id, id_usable
<1>2. CASE ~(u < 0)
  <2>1. u \in UserIds
    BY <1>2 DEF AnyId
  <2> QED
    BY <1>2, <2>1, CodecAssumption DEF default_id_usable, dccl_id, id_usable
<1> QED
  BY <1>1, <1>2

-----------------------------------------------------------------------------
(* Types *)

LEMMA LoadTypes ==
  ASSUME TypeOK, NEW o \in Objects, NEW d \in Desc, NEW u, DoLoad(o, d, u)
  PROVE  id2desc' \in [Objects -> [Ids -> Desc \cup {NoDesc}]]
BY DEF TypeOK, DoLoad

LEMMA WithoutType ==
  ASSUME TypeOK, NEW o \in Objects, NEW ds
  PROVE  [id2desc EXCEPT ![o] = without(@, ds)] \in [Objects -> [Ids -> Desc \cup {NoDesc}]]
<1>1. without(id2desc[o], ds) \in [Ids -> Desc \cup {NoDesc}]
  BY DEF TypeOK, without
<1> QED
  BY <1>1 DEF TypeOK

LEMMA NothingType == Nothing \in [Ids -> Desc \cup {NoDesc}]
BY DEF Nothing

LEMMA InitTypeOK == Init => TypeOK
BY NothingType, CodecAssumption DEF Init, TypeOK, IdNames

LEMMA NextTypeOK == TypeOK /\ [Next]_vars => TypeOK'
<1> SUFFICES ASSUME TypeOK, [Next]_vars PROVE TypeOK'
  OBVIOUS
<1> USE DEF registry, settings
<1>1. ASSUME NEW o \in Objects, NEW d \in Desc, UnloadDesc(o, d) PROVE TypeOK'
  BY <1>1, WithoutType DEF UnloadDesc, TypeOK
<1>2. ASSUME NEW o \in Objects, NEW d \in Desc, NEW u \in AnyId, Load(o, d, u) PROVE TypeOK'
  BY <1>2, LoadTypes DEF Load, TypeOK
<1>3. ASSUME NEW o \in Objects, NEW id \in Ids, UnloadId(o, id) PROVE TypeOK'
  BY <1>3 DEF UnloadId, TypeOK
<1>4. ASSUME NEW o \in Objects, UnloadAll(o) PROVE TypeOK'
  BY <1>4, NothingType DEF UnloadAll, TypeOK
<1>5. ASSUME NEW o \in Objects, NEW name \in IdNames, SetIdCodec(o, name) PROVE TypeOK'
  BY <1>5, NothingType DEF SetIdCodec, switch_id_codec, TypeOK
<1>6. ASSUME NEW o \in Objects, NEW mode \in BOOLEAN, SetStrict(o, mode) PROVE TypeOK'
  BY <1>6 DEF SetStrict, TypeOK
<1>7. ASSUME NEW o \in Objects, NEW k \in Keys, NEW s \in SkipSets,
             SetCryptoPassphrase(o, k, s)
      PROVE  TypeOK'
  <2>1. [key |-> k, skip |-> s] \in [key: Keys \cup {NoKey}, skip: SUBSET Ids]
    BY CodecAssumption
  <2> QED
    BY <1>7, <2>1 DEF SetCryptoPassphrase, TypeOK
<1>8. ASSUME NEW o \in Objects, NEW name \in Codecs, AddCodec(o, name) PROVE TypeOK'
  BY <1>8 DEF AddCodec, TypeOK
<1>9. ASSUME NEW o \in Objects, NEW name \in Codecs, RemoveCodec(o, name) PROVE TypeOK'
  BY <1>9 DEF RemoveCodec, TypeOK
<1>10. ASSUME NEW o \in Objects, NEW l \in Libraries, LoadLibrary(o, l) PROVE TypeOK'
  <2>1. /\ Lib[l].codecs \subseteq Codecs /\ Lib[l].loads \in Seq(Desc)
        /\ Lib[l].id_codec \in IdNames \cup {NoCodec}
    BY CodecAssumption DEF LibType
  <2>2. codecs' \in [Objects -> SUBSET Codecs] /\ loading' \in [Objects -> Seq(Desc)]
    BY <1>10, <2>1 DEF LoadLibrary, TypeOK
  <2>3. /\ id2desc' \in [Objects -> [Ids -> Desc \cup {NoDesc}]]
        /\ id_codec' \in [Objects -> IdNames]
    <3>1. CASE Lib[l].id_codec \in {NoCodec, id_codec[o]}
      BY <1>10, <3>1 DEF LoadLibrary, TypeOK
    <3>2. CASE Lib[l].id_codec \notin {NoCodec, id_codec[o]}
      <4>1. switch_id_codec(o, Lib[l].id_codec) /\ Lib[l].id_codec \in IdNames
        BY <1>10, <2>1, <3>2 DEF LoadLibrary
      <4> QED
        BY <4>1, NothingType DEF switch_id_codec, TypeOK
    <3> QED
      BY <3>1, <3>2
  <2> QED
    BY <1>10, <2>2, <2>3 DEF LoadLibrary, TypeOK
<1>11. ASSUME NEW o \in Objects, NEW l \in Libraries, UnloadLibrary(o, l) PROVE TypeOK'
  BY <1>11, WithoutType DEF UnloadLibrary, TypeOK
<1>12. ASSUME NEW o \in Objects, LoadLibraryMessage(o) PROVE TypeOK'
  <2>1. Head(loading[o]) \in Desc /\ Tail(loading[o]) \in Seq(Desc) /\ << >> \in Seq(Desc)
    BY <1>12 DEF LoadLibraryMessage, TypeOK
  <2>2. id2desc' \in [Objects -> [Ids -> Desc \cup {NoDesc}]]
    BY <1>12, <2>1, LoadTypes DEF LoadLibraryMessage
  <2>3. loading' \in [Objects -> Seq(Desc)]
    BY <1>12, <2>1 DEF LoadLibraryMessage, TypeOK
  <2> QED
    BY <1>12, <2>2, <2>3 DEF LoadLibraryMessage, TypeOK
<1>13. ASSUME NEW o \in Objects, NEW m \in Messages, NEW h \in BOOLEAN, NEW u \in AnyId,
              Encode(o, m, h, u)
       PROVE  TypeOK'
  BY <1>13 DEF Encode, TypeOK
<1>14. CASE UNCHANGED vars
  BY <1>14 DEF vars, TypeOK
<1> QED
  BY <1>1, <1>2, <1>3, <1>4, <1>5, <1>6, <1>7, <1>8, <1>9, <1>10, <1>11, <1>12, <1>13,
     <1>14 DEF Next, Configure

\* The registry maps ids to types, the id codec is one of the library's, the
\* manager holds names of codecs.
THEOREM CodecTypeCorrect == Spec => []TypeOK
BY InitTypeOK, NextTypeOK, PTL DEF Spec

-----------------------------------------------------------------------------
(* Every loaded message fits under the id codec in use. *)

\* The conjunct of LoadedMessagesFit for one entry of the registry.
Fits(o, d, id) ==
  /\ Opt[d].has_max_bytes /\ Opt[d].has_codec_version /\ Opt[d].valid
  /\ id_accepts(id_codec[o], id)
  /\ byte_size(o, d, id) <= Opt[d].max_bytes

LEMMA FitsDef ==
  LoadedMessagesFit <=>
    \A o \in Objects, d \in Desc, id \in Ids : id2desc[o][id] = d => Fits(o, d, id)
BY CodecAssumption DEF LoadedMessagesFit, loaded, Fits

\* An entry of the new registry that the old one had, under the same id codec.
LEMMA FewerFit ==
  ASSUME LoadedMessagesFit, UNCHANGED id_codec,
         \A o \in Objects, d \in Desc, id \in Ids :
           id2desc'[o][id] = d => id2desc[o][id] = d
  PROVE  LoadedMessagesFit'
BY FitsDef DEF LoadedMessagesFit, loaded, byte_size, head_bytes

LEMMA LoadFits ==
  ASSUME TypeOK, LoadedMessagesFit, UNCHANGED id_codec,
         NEW o \in Objects, NEW d \in Desc, NEW u \in AnyId, DoLoad(o, d, u)
  PROVE  LoadedMessagesFit'
<1>1. CASE ~load_accepts(o, d, u)
  BY <1>1, FewerFit DEF DoLoad
<1>2. CASE load_accepts(o, d, u)
  <2> DEFINE i == dccl_id(o, d, u)
  <2>1. i \in Ids /\ Fits(o, d, i)
    <3>1. default_id_usable(o, d, u) /\ (u < 0 => Opt[d].has_id)
      BY <1>2 DEF load_accepts
    <3> QED
      BY <1>2, <3>1, UsableId DEF load_accepts, Fits
  <2>2. id2desc' = [id2desc EXCEPT ![o][i] = d]
    BY <1>2 DEF DoLoad
  <2> HIDE DEF i
  <2>3. ASSUME NEW p \in Objects, NEW e \in Desc, NEW id \in Ids, id2desc'[p][id] = e
        PROVE  Fits(p, e, id)
    <3>1. CASE p = o /\ id = i
      BY <2>1, <2>2, <2>3, <3>1 DEF TypeOK
    <3>2. CASE ~(p = o /\ id = i)
      <4>1. id2desc[p][id] = e
        BY <2>1, <2>2, <2>3, <3>2 DEF TypeOK
      <4> QED
        BY <4>1, FitsDef
    <3> QED
      BY <3>1, <3>2
  <2> QED
    BY <2>3 DEF LoadedMessagesFit, loaded, Fits, byte_size, head_bytes
<1> QED
  BY <1>1, <1>2

\* set_id_codec() and load_library() leave nothing of what was loaded under
\* another id codec.
LEMMA SwitchFits ==
  ASSUME TypeOK, LoadedMessagesFit, NEW o \in Objects, NEW name \in IdNames,
         switch_id_codec(o, name)
  PROVE  LoadedMessagesFit'
<1> SUFFICES ASSUME NEW p \in Objects, NEW d \in Desc, NEW id \in Ids,
                    id2desc'[p][id] = d
             PROVE  Fits(p, d, id) /\ id_codec'[p] = id_codec[p]
  BY DEF LoadedMessagesFit, loaded, Fits, byte_size, head_bytes
<1>1. p # o
  BY CodecAssumption DEF switch_id_codec, Nothing, TypeOK
<1>2. id2desc[p][id] = d /\ id_codec'[p] = id_codec[p]
  BY <1>1 DEF switch_id_codec, TypeOK
<1> QED
  BY <1>2, FitsDef

LEMMA InitFits == Init => LoadedMessagesFit
BY CodecAssumption DEF Init, Nothing, LoadedMessagesFit, loaded

LEMMA WithoutFits ==
  ASSUME TypeOK, LoadedMessagesFit, UNCHANGED id_codec, NEW o \in Objects, NEW ds,
         id2desc' = [id2desc EXCEPT ![o] = without(@, ds)]
  PROVE  LoadedMessagesFit'
<1> SUFFICES ASSUME NEW p \in Objects, NEW d \in Desc, NEW id \in Ids,
                    id2desc'[p][id] = d
             PROVE  id2desc[p][id] = d
  BY FewerFit
<1>1. CASE p = o
  BY <1>1, CodecAssumption DEF without, TypeOK
<1>2. CASE p # o
  BY <1>2 DEF TypeOK
<1> QED
  BY <1>1, <1>2

LEMMA NextFits == TypeOK /\ LoadedMessagesFit /\ [Next]_vars => LoadedMessagesFit'
<1> SUFFICES ASSUME TypeOK, LoadedMessagesFit, [Next]_vars PROVE LoadedMessagesFit'
  OBVIOUS
<1> USE DEF registry, settings
<1>1. ASSUME NEW o \in Objects, NEW d \in Desc, UnloadDesc(o, d) PROVE LoadedMessagesFit'
  BY <1>1, WithoutFits DEF UnloadDesc
<1>2. ASSUME NEW o \in Objects, NEW d \in Desc, NEW u \in AnyId, Load(o, d, u)
      PROVE  LoadedMessagesFit'
  BY <1>2, LoadFits DEF Load
<1>3. ASSUME NEW o \in Objects, NEW i \in Ids, UnloadId(o, i) PROVE LoadedMessagesFit'
  BY <1>3, FewerFit, CodecAssumption DEF UnloadId, TypeOK
<1>4. ASSUME NEW o \in Objects, UnloadAll(o) PROVE LoadedMessagesFit'
  BY <1>4, FewerFit, CodecAssumption DEF UnloadAll, Nothing, TypeOK
<1>5. ASSUME NEW o \in Objects, NEW name \in IdNames, SetIdCodec(o, name)
      PROVE  LoadedMessagesFit'
  BY <1>5, SwitchFits DEF SetIdCodec
<1>6. ASSUME NEW o \in Objects, NEW l \in Libraries, LoadLibrary(o, l)
      PROVE  LoadedMessagesFit'
  <2>1. Lib[l].id_codec \in IdNames \cup {NoCodec}
    BY CodecAssumption DEF LibType
  <2>2. CASE Lib[l].id_codec \in {NoCodec, id_codec[o]}
    BY <1>6, <2>2, FewerFit DEF LoadLibrary
  <2>3. CASE Lib[l].id_codec \notin {NoCodec, id_codec[o]}
    BY <1>6, <2>1, <2>3, SwitchFits DEF LoadLibrary
  <2> QED
    BY <2>2, <2>3
<1>7. ASSUME NEW o \in Objects, LoadLibraryMessage(o) PROVE LoadedMessagesFit'
  <2>1. Head(loading[o]) \in Desc /\ -1 \in AnyId
    BY <1>7 DEF LoadLibraryMessage, TypeOK, AnyId
  <2> QED
    BY <1>7, <2>1, LoadFits DEF LoadLibraryMessage
<1>8. ASSUME NEW o \in Objects, NEW l \in Libraries, UnloadLibrary(o, l)
      PROVE  LoadedMessagesFit'
  BY <1>8, WithoutFits DEF UnloadLibrary
<1>9. ASSUME NEW o \in Objects,
             \/ \E mode \in BOOLEAN : SetStrict(o, mode)
             \/ \E k \in Keys, s \in SkipSets : SetCryptoPassphrase(o, k, s)
             \/ \E name \in Codecs : AddCodec(o, name) \/ RemoveCodec(o, name)
             \/ \E m \in Messages, h \in BOOLEAN, u \in AnyId : Encode(o, m, h, u)
      PROVE  LoadedMessagesFit'
  <2>1. UNCHANGED <<id2desc, id_codec>>
    BY <1>9 DEF SetStrict, SetCryptoPassphrase, AddCodec, RemoveCodec, Encode
  <2> QED
    BY <2>1, FewerFit
<1>10. CASE UNCHANGED vars
  BY <1>10, FewerFit DEF vars
<1> QED
  BY <1>1, <1>2, <1>3, <1>4, <1>5, <1>6, <1>7, <1>8, <1>9, <1>10 DEF Next, Configure

\* For any message types, ids, libraries and sequence of calls: what is in the
\* registry fits its max_bytes under the id codec in use (codec.cpp:414, :772).
THEOREM LoadedMessagesAlwaysFit == Spec => []LoadedMessagesFit
BY InitTypeOK, NextTypeOK, InitFits, NextFits, PTL DEF Spec

-----------------------------------------------------------------------------
(* What encode() appends fits. *)

\* ceil_bits2bytes() is monotone.
LEMMA CeilMonotone ==
  ASSUME NEW x \in Nat, NEW y \in Nat, x <= y
  PROVE  /\ ceil_bits2bytes(x) \in Nat /\ ceil_bits2bytes(y) \in Nat
         /\ ceil_bits2bytes(x) <= ceil_bits2bytes(y)
BY DEF ceil_bits2bytes

\* The size of an id is a number of bytes.
LEMMA HeadBytes ==
  ASSUME NEW o \in Objects, NEW d \in Desc, NEW id \in Ids
  PROVE  head_bytes(o, d, id) \in Nat
<1>1. id_size(id_codec[o], id) \in Nat
  BY DEF id_size, default_size, ccl_size
<1> QED
  BY <1>1, OptTypes DEF head_bytes, ceil_bits2bytes

LEMMA EncodeFits ==
  ASSUME TypeOK, LoadedMessagesFit, NEW o \in Objects, NEW m \in Messages,
         NEW h \in BOOLEAN, NEW u \in AnyId, encode_accepts(o, m, h, u),
         loaded(o, Info[m].desc, dccl_id(o, Info[m].desc, u))
  PROVE  encoded(o, m, h, u).size <= Opt[Info[m].desc].max_bytes
<1> DEFINE d == Info[m].desc
           id == dccl_id(o, d, u)
<1>1. d \in Desc /\ Info[m].body \in Nat /\ Info[m].body <= Opt[d].body
  BY CodecAssumption DEF InfoType
<1>2. id \in Ids /\ head_bytes(o, d, id) \in Nat
  BY <1>1, UsableId, HeadBytes DEF encode_accepts
<1>3. byte_size(o, d, id) <= Opt[d].max_bytes
  BY <1>1, <1>2 DEF LoadedMessagesFit
<1>4. /\ ceil_bits2bytes(Info[m].body) \in Nat /\ ceil_bits2bytes(Opt[d].body) \in Nat
      /\ ceil_bits2bytes(Info[m].body) <= ceil_bits2bytes(Opt[d].body)
  BY <1>1, OptTypes, CeilMonotone
<1>5. encoded(o, m, h, u).size
        = head_bytes(o, d, id) + IF h THEN 0 ELSE ceil_bits2bytes(Info[m].body)
  BY DEF encoded
<1> HIDE DEF d, id
<1>6. encoded(o, m, h, u).size <= byte_size(o, d, id)
  BY <1>2, <1>4, <1>5 DEF byte_size
<1>7. byte_size(o, d, id) \in Nat /\ encoded(o, m, h, u).size \in Nat /\ Opt[d].max_bytes \in Nat
  BY <1>1, <1>2, <1>4, <1>5, OptTypes DEF byte_size
<1> QED
  BY <1>3, <1>6, <1>7 DEF d

LEMMA NextEncodedFits ==
  ASSUME TypeOK, LoadedMessagesFit, EncodedFits, [Next]_vars
  PROVE  EncodedFits'
<1> USE DEF registry, settings
<1>1. ASSUME NEW o \in Objects, NEW m \in Messages, NEW h \in BOOLEAN, NEW u \in AnyId,
             Encode(o, m, h, u)
      PROVE  EncodedFits'
  <2>1. CASE encode_accepts(o, m, h, u)
    <3>1. /\ last'.object = o /\ last'.bytes = encoded(o, m, h, u)
          /\ UNCHANGED id2desc
      BY <1>1, <2>1 DEF Encode
    <3>2. last'.bytes.msg = m /\ last'.bytes.id = dccl_id(o, Info[m].desc, u)
      BY <3>1 DEF encoded
    <3> QED
      BY <2>1, <3>1, <3>2, EncodeFits DEF EncodedFits, loaded
  <2>2. CASE ~encode_accepts(o, m, h, u)
    <3>1. last'.ok = FALSE
      BY <1>1, <2>2 DEF Encode
    <3> QED
      BY <3>1 DEF EncodedFits
  <2> QED
    BY <2>1, <2>2
<1>2. ASSUME NEW o \in Objects, Configure(o) PROVE EncodedFits'
  <2>1. PICK call, ok : call # "encode" /\ Return(call, ok)
    <3>1. CASE \E d \in Desc : UnloadDesc(o, d) \/ \E u \in AnyId : Load(o, d, u)
      BY <3>1 DEF UnloadDesc, Load
    <3>2. CASE UnloadAll(o) \/ \E id \in Ids : UnloadId(o, id)
      BY <3>2 DEF UnloadAll, UnloadId
    <3>3. CASE \E name \in IdNames : SetIdCodec(o, name)
      BY <3>3 DEF SetIdCodec
    <3>4. CASE \/ \E mode \in BOOLEAN : SetStrict(o, mode)
               \/ \E k \in Keys, s \in SkipSets : SetCryptoPassphrase(o, k, s)
      BY <3>4 DEF SetStrict, SetCryptoPassphrase
    <3>5. CASE \E name \in Codecs : AddCodec(o, name) \/ RemoveCodec(o, name)
      BY <3>5 DEF AddCodec, RemoveCodec
    <3>6. CASE \/ \E l \in Libraries : LoadLibrary(o, l) \/ UnloadLibrary(o, l)
               \/ LoadLibraryMessage(o)
      BY <3>6 DEF LoadLibrary, UnloadLibrary, LoadLibraryMessage
    <3> QED
      BY <1>2, <3>1, <3>2, <3>3, <3>4, <3>5, <3>6 DEF Configure
  <2> QED
    BY <2>1 DEF Return, EncodedFits
<1>3. CASE UNCHANGED vars
  BY <1>3 DEF vars, EncodedFits, loaded
<1> QED
  BY <1>1, <1>2, <1>3 DEF Next

\* For any sequence of calls: what encode() returns for a type loaded under its
\* id is within the max_bytes the type declares (codec.cpp:414, codec.cpp:355).
THEOREM EncodedAlwaysFits == Spec => []EncodedFits
<1>1. Init => EncodedFits
  BY DEF Init, EncodedFits
<1>2. TypeOK /\ LoadedMessagesFit /\ EncodedFits /\ [Next]_vars => EncodedFits'
  BY NextEncodedFits
<1> QED
  BY <1>1, <1>2, CodecTypeCorrect, LoadedMessagesAlwaysFit, PTL DEF Spec

-----------------------------------------------------------------------------
(* Calls that throw *)

\* For any sequence of calls: a call that throws, other than set_id_codec(),
\* leaves the registry, the id codec and the manager as they were.
THEOREM FailuresKeepRegistry == Spec => FailureKeepsRegistry
<1> DEFINE Kept == ~last'.ok /\ last'.call # "set_id_codec" => UNCHANGED registry
<1>1. [Next]_vars => [Kept]_vars
  <2> SUFFICES ASSUME Next PROVE Kept
    OBVIOUS
  <2>1. ASSUME NEW o \in Objects, NEW d \in Desc, NEW u \in AnyId, Load(o, d, u) PROVE Kept
    BY <2>1 DEF Load, DoLoad, Return, registry
  <2>2. ASSUME NEW o \in Objects, LoadLibraryMessage(o) PROVE Kept
    BY <2>2 DEF LoadLibraryMessage, DoLoad, Return, registry
  <2>3. ASSUME NEW o \in Objects, NEW name \in IdNames, SetIdCodec(o, name) PROVE Kept
    BY <2>3 DEF SetIdCodec, Return
  <2>4. ASSUME NEW o \in Objects, NEW m \in Messages, NEW h \in BOOLEAN, NEW u \in AnyId,
               Encode(o, m, h, u)
        PROVE  Kept
    BY <2>4 DEF Encode, registry
  <2>5. ASSUME NEW o \in Objects,
               \/ \E d \in Desc : UnloadDesc(o, d)
               \/ \E id \in Ids : UnloadId(o, id)
               \/ UnloadAll(o)
               \/ \E mode \in BOOLEAN : SetStrict(o, mode)
               \/ \E k \in Keys, s \in SkipSets : SetCryptoPassphrase(o, k, s)
               \/ \E name \in Codecs : AddCodec(o, name) \/ RemoveCodec(o, name)
               \/ \E l \in Libraries : LoadLibrary(o, l) \/ UnloadLibrary(o, l)
        PROVE  Kept
    <3>1. PICK call : Return(call, TRUE)
      <4>1. CASE \/ UnloadAll(o) \/ \E id \in Ids : UnloadId(o, id)
                 \/ \E d \in Desc : UnloadDesc(o, d)
        BY <4>1 DEF UnloadDesc, UnloadId, UnloadAll
      <4>2. CASE \/ \E mode \in BOOLEAN : SetStrict(o, mode)
                 \/ \E k \in Keys, s \in SkipSets : SetCryptoPassphrase(o, k, s)
        BY <4>2 DEF SetStrict, SetCryptoPassphrase
      <4>3. CASE \E name \in Codecs : AddCodec(o, name) \/ RemoveCodec(o, name)
        BY <4>3 DEF AddCodec, RemoveCodec
      <4>4. CASE \E l \in Libraries : LoadLibrary(o, l) \/ UnloadLibrary(o, l)
        BY <4>4 DEF LoadLibrary, UnloadLibrary
      <4> QED
        BY <2>5, <4>1, <4>2, <4>3, <4>4
    <3> QED
      BY <3>1 DEF Return
  <2> QED
    BY <2>1, <2>2, <2>3, <2>4, <2>5 DEF Next, Configure
<1> QED
  BY <1>1, PTL DEF Spec, FailureKeepsRegistry
-----------------------------------------------------------------------------
(* Two Codecs and the string between them.                                 *)
(*                                                                         *)
(* LinkInv is inductive: the frames in the string are whole and adjacent,  *)
(* each as long as the id codec, the id and the body of its message make   *)
(* it, and as long as the configurations agreed the receiver is at the     *)
(* first byte of the frame behind the last one it received.                *)

Frame == [start: Nat, size: Nat,
          bytes: [id: Ids, msg: Messages, header_only: BOOLEAN, idc: IdNames,
                  key: Keys \cup {NoKey}, size: Nat]]

\* A frame is as long as its head and its body.
Whole(f) ==
  f.size = ceil_bits2bytes(Opt[desc_of(f)].head + 8 * id_size(f.bytes.idc, f.bytes.id))
             + ceil_bits2bytes(Info[f.bytes.msg].body)

LinkTypeOK ==
  /\ sent \in Seq(Frame)
  /\ erased \in Nat
  /\ received \in Seq(Messages \cup {Garbage})
  /\ mismatched \in BOOLEAN

FramesAdjacent ==
  /\ \A i \in 1..Len(sent) : Whole(sent[i]) /\ sent[i].size > 0
  /\ \A i \in 1..Len(sent) :
       sent[i].start + sent[i].size = IF i < Len(sent) THEN sent[i + 1].start ELSE Appended
  /\ \A i, j \in 1..Len(sent) : i < j => sent[i].start < sent[j].start
  /\ sent # << >> => sent[1].start = 0

ReceivedInOrder ==
  ~mismatched =>
    /\ Len(received) <= Len(sent)
    /\ \A i \in 1..Len(received) : received[i] = sent[i].bytes.msg

LinkInv ==
  /\ TypeOK /\ LinkTypeOK
  /\ FramesAdjacent /\ ReceivedInOrder /\ NextFrameInFront

\* All the bytes that were ever appended.
LEMMA AppendedType ==
  ASSUME LinkTypeOK
  PROVE  /\ Appended \in Nat
         /\ \A i \in 1..Len(sent) : sent[i] \in Frame /\ sent[i].start \in Nat /\ sent[i].size \in Nat
<1>1. sent \in Seq(Frame) /\ Len(sent) \in Nat
  BY DEF LinkTypeOK
<1>2. ASSUME NEW i \in 1..Len(sent)
      PROVE  sent[i] \in Frame /\ sent[i].start \in Nat /\ sent[i].size \in Nat
  <2>1. sent[i] \in Frame
    BY <1>1, ElementOfSeq
  <2> QED
    BY <2>1 DEF Frame
<1>3. Appended \in Nat
  <2>1. sent # << >> => Len(sent) \in 1..Len(sent)
    BY <1>1
  <2> QED
    BY <1>2, <2>1 DEF Appended
<1> QED
  BY <1>2, <1>3

\* What is said of the types and the ids of a frame.
LEMMA FrameFacts ==
  ASSUME NEW f \in Frame
  PROVE  /\ desc_of(f) \in Desc /\ f.bytes.msg \in Messages
         /\ f.bytes.id \in Ids /\ f.bytes.idc \in IdNames
         /\ Info[f.bytes.msg].body \in Nat
         /\ Opt[desc_of(f)].head \in Nat
         /\ id_size(f.bytes.idc, f.bytes.id) \in 1..3
<1>1. f.bytes.msg \in Messages /\ f.bytes.id \in Ids /\ f.bytes.idc \in IdNames
  BY DEF Frame
<1>2. desc_of(f) \in Desc /\ Info[f.bytes.msg].body \in Nat
  BY <1>1, CodecAssumption DEF desc_of, InfoType
<1>3. id_size(f.bytes.idc, f.bytes.id) \in 1..3
  BY DEF id_size, default_size, ccl_size
<1> QED
  BY <1>1, <1>2, <1>3, OptTypes

\* What encode() appends is a whole frame that starts where the last one ends.
LEMMA SentFrame ==
  ASSUME TypeOK, LinkTypeOK, NEW m \in Messages, NEW u \in AnyId, Send(m, u)
  PROVE  /\ UNCHANGED <<registry, settings, loading, erased, received, mismatched>>
         /\ \/ UNCHANGED sent
            \/ \E f \in Frame : /\ sent' = Append(sent, f) /\ f.bytes.msg = m
                                /\ Whole(f) /\ f.size > 0 /\ f.start = Appended
<1>1. UNCHANGED <<registry, settings, loading, erased, received, mismatched>>
  BY DEF Send, Encode
<1>2. CASE ~encode_accepts(tx, m, FALSE, u)
  BY <1>1, <1>2 DEF Send, Encode
<1>3. CASE encode_accepts(tx, m, FALSE, u)
  <2> DEFINE b == encoded(tx, m, FALSE, u)
             d == Info[m].desc
             i == dccl_id(tx, d, u)
             f == [start |-> Appended, size |-> b.size, bytes |-> b]
  <2>1. last'.ok /\ last'.bytes = b
    BY <1>3 DEF Send, Encode
  <2>2. sent' = Append(sent, f)
    BY <2>1 DEF Send
  <2>3. tx \in Objects /\ d \in Desc /\ Info[m].body \in Nat
    BY LinkAssumption, CodecAssumption DEF InfoType
  <2>4. i \in Ids /\ id_codec[tx] \in IdNames
    BY <1>3, <2>3, UsableId DEF encode_accepts, TypeOK
  <2>5. key_for(tx, i) \in Keys \cup {NoKey}
    BY <2>3 DEF key_for, TypeOK
  <2>6. /\ b.msg = m /\ b.id = i /\ b.idc = id_codec[tx] /\ b.header_only = FALSE
        /\ b.key = key_for(tx, i)
        /\ b.size = head_bytes(tx, d, i) + ceil_bits2bytes(Info[m].body)
        /\ b = [id |-> b.id, msg |-> b.msg, header_only |-> b.header_only, idc |-> b.idc,
                key |-> b.key, size |-> b.size]
    BY DEF encoded
  <2>7. id_size(id_codec[tx], i) \in 1..3 /\ Opt[d].head \in Nat
    BY <2>3, OptTypes DEF id_size, default_size, ccl_size
  <2>8. head_bytes(tx, d, i) \in Nat \ {0} /\ ceil_bits2bytes(Info[m].body) \in Nat
    BY <2>3, <2>7 DEF head_bytes, ceil_bits2bytes
  <2> HIDE DEF b, i
  <2>9. b \in [id: Ids, msg: Messages, header_only: BOOLEAN, idc: IdNames,
               key: Keys \cup {NoKey}, size: Nat]
    <3>1. b.id \in Ids /\ b.msg \in Messages /\ b.header_only \in BOOLEAN /\ b.idc \in IdNames
      BY <2>4, <2>6
    <3>2. b.key \in Keys \cup {NoKey}
      BY <2>5, <2>6
    <3>3. b.size \in Nat
      BY <2>6, <2>8
    <3> QED
      BY <2>6, <3>1, <3>2, <3>3
  <2>10. f \in Frame
    BY <2>6, <2>8, <2>9, AppendedType DEF Frame
  <2>11. Whole(f) /\ f.size > 0
    BY <2>6, <2>8 DEF Whole, desc_of, head_bytes
  <2> QED
    BY <1>1, <2>2, <2>6, <2>10, <2>11
<1> QED
  BY <1>2, <1>3

\* While the configurations agree, bytes that wait begin with the frame behind
\* the last one received, and no other frame begins there.
LEMMA NextInFront ==
  ASSUME LinkInv, ~mismatched, erased < Appended
  PROVE  /\ Len(received) + 1 \in 1..Len(sent)
         /\ \A i \in 1..Len(sent) : AtFront(sent[i]) <=> i = Len(received) + 1
<1> DEFINE n == Len(received) + 1
<1>1. Len(received) \in Nat /\ Len(sent) \in Nat /\ Len(received) <= Len(sent)
  BY DEF LinkInv, LinkTypeOK, ReceivedInOrder
<1>2. n \in 1..Len(sent) /\ sent[n].start = erased
  BY <1>1, AppendedType DEF LinkInv, NextFrameInFront
<1>3. ASSUME NEW i \in 1..Len(sent), sent[i].start = erased PROVE i = n
  <2>1. sent[i].start \in Nat /\ sent[n].start \in Nat
    BY <1>2, AppendedType DEF LinkInv
  <2>2. ~(i < n) /\ ~(n < i)
    BY <1>2, <1>3, <2>1 DEF LinkInv, FramesAdjacent
  <2> QED
    BY <1>1, <1>2, <2>2
<1> QED
  BY <1>2, <1>3 DEF AtFront

\* Of all that waits behind s, what is left when h bytes and z bits are used.
LEMMA BytesBehind ==
  ASSUME NEW all \in Nat, NEW s \in Nat, NEW h \in Nat, NEW z \in Nat
  PROVE  all - (8 * (all - s - h) - z) \div 8 = s + h + (z + 7) \div 8
OBVIOUS

\* Where the receiver is when it has decoded the frame in front: behind it.
LEMMA BehindFrame ==
  ASSUME LinkInv, NEW i \in 1..Len(sent), ReadsId(sent[i])
  PROVE  /\ actual_end(remaining_after(sent[i])) = sent[i].start + sent[i].size
         /\ HardIdAsLong => size_of(sent[i]) = sent[i].size
         /\ erased = sent[i].start
         /\ sent[i].start + sent[i].size <= Appended
<1> DEFINE f == sent[i]
           head == head_bytes(rx, desc_of(f), f.bytes.id)
           body == Info[f.bytes.msg].body
<1>1. f \in Frame /\ f.start \in Nat /\ f.size \in Nat /\ Appended \in Nat
  BY AppendedType DEF LinkInv
<1>2. body \in Nat /\ Opt[desc_of(f)].head \in Nat /\ id_size(f.bytes.idc, f.bytes.id) \in 1..3
  BY <1>1, FrameFacts
<1>3. id_codec[rx] = f.bytes.idc /\ erased = f.start
  BY DEF ReadsId, AtFront
<1>4. head \in Nat /\ f.size = head + ceil_bits2bytes(body)
  <2>1. head = ceil_bits2bytes(Opt[desc_of(f)].head + 8 * id_size(f.bytes.idc, f.bytes.id))
    BY <1>3 DEF head_bytes
  <2>2. f.size = head + ceil_bits2bytes(body)
    BY <2>1 DEF LinkInv, FramesAdjacent, Whole
  <2> QED
    BY <1>2, <2>1, <2>2 DEF ceil_bits2bytes
<1>5. f.start + f.size <= Appended
  <2>1. CASE i < Len(sent)
    <3>1. Len(sent) \in Nat /\ i + 1 \in 1..Len(sent) /\ Len(sent) \in 1..Len(sent)
      BY <2>1 DEF LinkInv, LinkTypeOK
    <3>2. f.start + f.size = sent[i + 1].start
      BY <2>1 DEF LinkInv, FramesAdjacent
    <3>3. sent[i + 1].start <= sent[Len(sent)].start
      BY <3>1, AppendedType DEF LinkInv, FramesAdjacent
    <3>4. Appended = sent[Len(sent)].start + sent[Len(sent)].size
      BY <3>1 DEF Appended
    <3> QED
      BY <3>1, <3>2, <3>3, <3>4, AppendedType DEF LinkInv
  <2>2. CASE ~(i < Len(sent))
    BY <1>1, <2>2 DEF LinkInv, FramesAdjacent
  <2> QED
    BY <2>1, <2>2
<1>6. actual_end(remaining_after(f)) = f.start + f.size
  <2>1. remaining_after(f) = 8 * (Appended - f.start - head) - body
    BY <1>3 DEF remaining_after
  <2> HIDE DEF f, head, body
  <2>3. actual_end(remaining_after(f)) = Appended - (8 * (Appended - f.start - head) - body) \div 8
    BY <2>1 DEF actual_end
  <2>4. ceil_bits2bytes(body) = (body + 7) \div 8
    BY DEF ceil_bits2bytes
  <2>5. actual_end(remaining_after(f)) = f.start + head + (body + 7) \div 8
    <3>1. PICK all \in Nat, s \in Nat, h \in Nat, z \in Nat :
            all = Appended /\ s = f.start /\ h = head /\ z = body
      BY <1>1, <1>2, <1>4
    <3>2. all - (8 * (all - s - h) - z) \div 8 = s + h + (z + 7) \div 8
      BY BytesBehind
    <3> QED
      BY <2>3, <3>1, <3>2
  <2> QED
    BY <1>1, <1>2, <1>4, <2>4, <2>5
<1>7. HardIdAsLong => size_of(f) = f.size
  BY <1>3, <1>4 DEF HardIdAsLong, size_of, head_bytes
<1> QED
  BY <1>3, <1>5, <1>6, <1>7

\* What a call of decode() may do: throw; deliver the next message and strip its
\* frame; or, when the configurations do not agree, anything.
DeliversNext ==
  /\ Len(received) < Len(sent)
  /\ received' = Append(received, sent[Len(received) + 1].bytes.msg)
  /\ erased' = sent[Len(received) + 1].start + sent[Len(received) + 1].size
  /\ mismatched' = mismatched

DeliversAnything ==
  /\ mismatched'
  /\ \E m \in Messages \cup {Garbage} : received' = Append(received, m)
  /\ erased' \in Nat

LEMMA Misdecoded ==
  ASSUME LinkInv, Misdecode, erased < Appended
  PROVE  UNCHANGED sent /\ (UNCHANGED link \/ DeliversAnything)
<1>1. CASE DecodeThrows
  BY <1>1 DEF DecodeThrows, link
<1>2. ASSUME \E end \in erased + 1..Appended : Deliver(Garbage, end),
             mismatched' = (mismatched \/ \E i \in 1..Len(sent) : AtFront(sent[i])),
             UNCHANGED sent
      PROVE  DeliversAnything
  <2>1. erased' \in Nat /\ received' = Append(received, Garbage)
    BY <1>2, AppendedType DEF Deliver, LinkInv, LinkTypeOK
  <2>2. mismatched'
    BY <1>2, NextInFront
  <2> QED
    BY <2>1, <2>2 DEF DeliversAnything
<1> QED
  BY <1>1, <1>2 DEF Misdecode

LEMMA DecodeSteps ==
  ASSUME LinkInv, DecodeNew \/ (HardIdAsLong /\ \E d \in Desc : DecodeInto(d))
  PROVE  /\ UNCHANGED <<registry, settings, loading, sent>>
         /\ UNCHANGED link \/ (~mismatched /\ DeliversNext) \/ DeliversAnything
<1>1. UNCHANGED <<registry, settings, loading>> /\ erased < Appended
  BY DEF DecodeNew, DecodeInto
<1>2. ASSUME NEW i \in 1..Len(sent), ReadsId(sent[i]),
             Deliver(sent[i].bytes.msg, sent[i].start + sent[i].size),
             UNCHANGED <<sent, mismatched>>
      PROVE  UNCHANGED sent /\ ((~mismatched /\ DeliversNext) \/ DeliversAnything)
  <2>1. CASE ~mismatched
    <3>1. i = Len(received) + 1 /\ Len(received) < Len(sent)
      BY <1>1, <1>2, <2>1, NextInFront DEF ReadsId, LinkInv, LinkTypeOK
    <3> QED
      BY <1>2, <2>1, <3>1 DEF DeliversNext, Deliver
  <2>2. CASE mismatched
    <3>1. sent[i].bytes.msg \in Messages /\ sent[i].start + sent[i].size \in Nat
      BY AppendedType, FrameFacts DEF LinkInv
    <3> QED
      BY <1>2, <2>2, <3>1 DEF DeliversAnything, Deliver
  <2> QED
    BY <1>2, <2>1, <2>2
<1>3. ASSUME Misdecode
      PROVE  UNCHANGED sent /\ (UNCHANGED link \/ DeliversAnything)
  BY <1>1, <1>3, Misdecoded
<1>4. ASSUME DecodeThrows
      PROVE  UNCHANGED sent /\ UNCHANGED link
  BY <1>4 DEF DecodeThrows, link
<1>5. ASSUME DecodeNew
      PROVE  /\ UNCHANGED sent
             /\ UNCHANGED link \/ (~mismatched /\ DeliversNext) \/ DeliversAnything
  <2>1. CASE \A i \in 1..Len(sent) : ~ReadsId(sent[i])
    BY <1>1, <1>3, <1>4, <1>5, <2>1 DEF DecodeNew, Understands
  <2>2. CASE ~\A i \in 1..Len(sent) : ~ReadsId(sent[i])
    <3>1. PICK i \in 1..Len(sent) :
            \/ /\ ReadsId(sent[i])
               /\ Deliver(sent[i].bytes.msg, actual_end(remaining_after(sent[i])))
               /\ UNCHANGED <<sent, mismatched>>
            \/ Misdecode
            \/ DecodeThrows
      BY <1>5, <2>2 DEF DecodeNew, Understands
    <3> QED
      BY <1>1, <1>2, <1>3, <1>4, <3>1, BehindFrame
  <2> QED
    BY <2>1, <2>2
<1>6. ASSUME HardIdAsLong, NEW d \in Desc, DecodeInto(d)
      PROVE  /\ UNCHANGED sent
             /\ UNCHANGED link \/ (~mismatched /\ DeliversNext) \/ DeliversAnything
  <2>1. CASE \A i \in 1..Len(sent) : ~ReadsId(sent[i])
    BY <1>1, <1>3, <1>4, <1>6, <2>1 DEF DecodeInto, Understands
  <2>2. CASE ~\A i \in 1..Len(sent) : ~ReadsId(sent[i])
    <3>1. PICK i \in 1..Len(sent) :
            \/ /\ ReadsId(sent[i])
               /\ Deliver(sent[i].bytes.msg,
                          IF erased + size_of(sent[i]) < Appended
                            THEN erased + size_of(sent[i]) ELSE Appended)
               /\ UNCHANGED <<sent, mismatched>>
            \/ Misdecode
            \/ DecodeThrows
      BY <1>6, <2>2 DEF DecodeInto, Understands
    <3>2. ASSUME ReadsId(sent[i])
          PROVE  (IF erased + size_of(sent[i]) < Appended
                    THEN erased + size_of(sent[i]) ELSE Appended) = sent[i].start + sent[i].size
      <4>1. /\ size_of(sent[i]) = sent[i].size /\ erased = sent[i].start
            /\ sent[i].start + sent[i].size <= Appended
        BY <1>6, <3>2, BehindFrame
      <4>2. Appended \in Nat /\ sent[i].start \in Nat /\ sent[i].size \in Nat
        BY AppendedType DEF LinkInv
      <4> QED
        BY <4>1, <4>2
    <3> QED
      BY <1>1, <1>2, <1>3, <1>4, <3>1, <3>2
  <2> QED
    BY <2>1, <2>2
<1> QED
  BY <1>1, <1>3, <1>5, <1>6 DEF link

LEMMA InitLink == LinkInit => LinkInv
<1> SUFFICES ASSUME LinkInit PROVE LinkInv
  OBVIOUS
<1>1. TypeOK
  BY InitTypeOK DEF LinkInit
<1>2. LinkTypeOK
  <2>1. << >> \in Seq(Frame) /\ << >> \in Seq(Messages \cup {Garbage}) /\ 0 \in Nat
    OBVIOUS
  <2>2. sent = << >> /\ erased = 0 /\ received = << >> /\ mismatched = FALSE
    BY DEF LinkInit
  <2> QED
    BY <2>1, <2>2, Zenon DEF LinkTypeOK
<1>3. FramesAdjacent /\ ReceivedInOrder /\ NextFrameInFront
  BY DEF LinkInit, FramesAdjacent, ReceivedInOrder, NextFrameInFront, Appended
<1> QED
  BY <1>1, <1>2, <1>3 DEF LinkInv

\* A frame more in the string.
LEMMA OneMoreFrame ==
  ASSUME LinkInv, NEW f \in Frame, Whole(f), f.size > 0, f.start = Appended,
         sent' = Append(sent, f), UNCHANGED <<erased, received, mismatched>>
  PROVE  LinkTypeOK' /\ FramesAdjacent' /\ ReceivedInOrder' /\ NextFrameInFront'
<1> DEFINE n == Len(sent)
<1>1. n \in Nat /\ sent \in Seq(Frame) /\ f.start \in Nat /\ f.size \in Nat
  BY DEF LinkInv, LinkTypeOK, Frame
<1>2. /\ sent' \in Seq(Frame) /\ Len(sent') = n + 1 /\ sent'[n + 1] = f
      /\ \A i \in 1..n : sent'[i] = sent[i]
  BY <1>1, AppendProperties
<1>3. sent' # << >> /\ Appended' = f.start + f.size
  BY <1>1, <1>2 DEF Appended
<1>4. Appended \in Nat /\ \A i \in 1..n : sent[i].start \in Nat /\ sent[i].size \in Nat
  BY AppendedType DEF LinkInv
<1>5. LinkTypeOK'
  BY <1>2 DEF LinkInv, LinkTypeOK
<1>6. FramesAdjacent'
  <2>1. \A i \in 1..n + 1 : Whole(sent'[i]) /\ sent'[i].size > 0
    BY <1>1, <1>2 DEF LinkInv, FramesAdjacent
  <2>2. \A i \in 1..n + 1 :
          sent'[i].start + sent'[i].size
            = IF i < n + 1 THEN sent'[i + 1].start ELSE f.start + f.size
    <3> SUFFICES ASSUME NEW i \in 1..n, i < n + 1
                 PROVE  sent[i].start + sent[i].size = sent'[i + 1].start
      BY <1>1, <1>2
    <3>1. CASE i < n
      BY <1>1, <1>2, <3>1 DEF LinkInv, FramesAdjacent
    <3>2. CASE ~(i < n)
      BY <1>1, <1>2, <3>2 DEF LinkInv, FramesAdjacent
    <3> QED
      BY <3>1, <3>2
  <2>3. \A i, j \in 1..n + 1 : i < j => sent'[i].start < sent'[j].start
    <3> SUFFICES ASSUME NEW i \in 1..n, NEW j \in 1..n + 1, i < j
                 PROVE  sent[i].start < sent'[j].start
      BY <1>1, <1>2
    <3>1. CASE j <= n
      BY <1>1, <1>2, <3>1 DEF LinkInv, FramesAdjacent
    <3>2. CASE ~(j <= n)
      <4>1. sent[i].start <= sent[n].start /\ n \in 1..n
        BY <1>1, <1>4 DEF LinkInv, FramesAdjacent
      <4>2. Appended = sent[n].start + sent[n].size /\ sent[n].size > 0
        BY <1>1, <4>1 DEF LinkInv, FramesAdjacent
      <4>3. sent'[j].start = Appended
        BY <1>1, <1>2, <3>2
      <4> QED
        BY <1>4, <4>1, <4>2, <4>3
    <3> QED
      BY <3>1, <3>2
  <2>4. sent'[1].start = 0
    BY <1>1, <1>2 DEF LinkInv, FramesAdjacent, Appended
  <2> QED
    BY <1>2, <1>3, <2>1, <2>2, <2>3, <2>4 DEF FramesAdjacent, Whole, desc_of
<1>7. ReceivedInOrder'
  BY <1>1, <1>2 DEF LinkInv, LinkTypeOK, ReceivedInOrder
<1>8. NextFrameInFront'
  <2> SUFFICES ASSUME ~mismatched
               PROVE  erased = IF Len(received) < n + 1 THEN sent'[Len(received) + 1].start
                               ELSE f.start + f.size
    BY <1>2, <1>3 DEF NextFrameInFront
  <2>1. Len(received) \in Nat /\ Len(received) <= n
    BY DEF LinkInv, LinkTypeOK, ReceivedInOrder
  <2> QED
    BY <1>1, <1>2, <2>1 DEF LinkInv, NextFrameInFront
<1> QED
  BY <1>5, <1>6, <1>7, <1>8

LEMMA NextDelivered ==
  ASSUME LinkInv, ~mismatched, DeliversNext, UNCHANGED sent
  PROVE  LinkTypeOK' /\ ReceivedInOrder' /\ NextFrameInFront'
<1> DEFINE n == Len(received)
<1>1. /\ n \in Nat /\ n + 1 \in 1..Len(sent) /\ Len(sent) \in Nat
      /\ received \in Seq(Messages \cup {Garbage})
  BY DEF LinkInv, LinkTypeOK, DeliversNext
<1>2. sent[n + 1].bytes.msg \in Messages \cup {Garbage}
  BY <1>1, AppendedType, FrameFacts DEF LinkInv
<1>3. /\ received' \in Seq(Messages \cup {Garbage}) /\ Len(received') = n + 1
      /\ received'[n + 1] = sent[n + 1].bytes.msg
      /\ \A i \in 1..n : received'[i] = received[i]
  BY <1>1, <1>2, AppendProperties DEF DeliversNext
<1>4. Appended' = Appended
  BY DEF Appended
<1>5. LinkTypeOK'
  BY <1>1, <1>3, AppendedType DEF LinkInv, LinkTypeOK, DeliversNext
<1>6. ReceivedInOrder'
  BY <1>1, <1>3 DEF LinkInv, ReceivedInOrder, DeliversNext
<1>7. NextFrameInFront'
  BY <1>1, <1>3, <1>4 DEF LinkInv, FramesAdjacent, NextFrameInFront, DeliversNext
<1> QED
  BY <1>5, <1>6, <1>7

LEMMA AnythingDelivered ==
  ASSUME LinkInv, DeliversAnything, UNCHANGED sent
  PROVE  LinkTypeOK' /\ ReceivedInOrder' /\ NextFrameInFront'
<1>1. received' \in Seq(Messages \cup {Garbage})
  BY AppendProperties DEF LinkInv, LinkTypeOK, DeliversAnything
<1> QED
  BY <1>1 DEF LinkInv, LinkTypeOK, ReceivedInOrder, NextFrameInFront, DeliversAnything

LEMMA NextLink == LinkInv /\ [LinkNext]_linkVars => LinkInv'
<1> SUFFICES ASSUME LinkInv, [LinkNext]_linkVars PROVE LinkInv'
  OBVIOUS
<1> USE DEF registry, settings
<1>1. ASSUME UNCHANGED <<link>> PROVE LinkTypeOK' /\ FramesAdjacent' /\ ReceivedInOrder' /\ NextFrameInFront'
  BY <1>1 DEF LinkInv, link, LinkTypeOK, FramesAdjacent, Whole, desc_of, ReceivedInOrder,
             NextFrameInFront, Appended
<1>2. ASSUME NEW o \in {tx, rx}, Reconfigure(o) PROVE LinkInv'
  <2>1. [Next]_vars
    BY <1>2, LinkAssumption DEF Reconfigure, Next
  <2> QED
    BY <1>1, <1>2, <2>1, NextTypeOK DEF LinkInv, Reconfigure
<1>3. ASSUME NEW m \in Messages, NEW u \in AnyId, Send(m, u) PROVE LinkInv'
  <2>1. TypeOK'
    BY <1>3, SentFrame DEF LinkInv, TypeOK
  <2>2. CASE UNCHANGED sent
    BY <1>1, <1>3, <2>1, <2>2, SentFrame DEF LinkInv, link
  <2>3. CASE ~UNCHANGED sent
    BY <1>3, <2>1, <2>3, SentFrame, OneMoreFrame DEF LinkInv
  <2> QED
    BY <2>2, <2>3
<1>4. ASSUME DecodeNew \/ (HardIdAsLong /\ \E d \in Desc : DecodeInto(d)) PROVE LinkInv'
  <2>1. TypeOK' /\ UNCHANGED sent
    BY <1>4, DecodeSteps DEF LinkInv, TypeOK
  <2>2. FramesAdjacent'
    BY <2>1 DEF LinkInv, FramesAdjacent, Whole, desc_of, Appended
  <2> QED
    BY <1>1, <1>4, <2>1, <2>2, DecodeSteps, NextDelivered, AnythingDelivered DEF LinkInv
<1>5. CASE UNCHANGED linkVars
  BY <1>1, <1>5 DEF linkVars, vars, LinkInv, TypeOK
<1> QED
  BY <1>2, <1>3, <1>4, <1>5 DEF LinkNext, Ends

\* For any ends and any sequence of sends, decodes and reconfigurations: as
\* long as no frame is decoded under another configuration than its own, the
\* receiver is left at the first byte of the next frame (codec.h:517, :586).
THEOREM ReceiverStaysAtFrame == LinkSpec => []NextFrameInFront
<1>1. LinkInv => NextFrameInFront
  BY DEF LinkInv
<1> QED
  BY <1>1, InitLink, NextLink, PTL DEF LinkSpec

\* As above: what the receiver has is what was sent, in order, each once.
THEOREM MessagesAlwaysInOrder == LinkSpec => []MessagesInOrder
<1>1. LinkInv => MessagesInOrder
  <2> SUFFICES ASSUME LinkInv, ~mismatched
               PROVE  LET w == [i \in 1..Len(sent) |-> sent[i].bytes.msg]
                      IN  Len(received) <= Len(w) /\ received = SubSeq(w, 1, Len(received))
    BY DEF MessagesInOrder, Stream!InOrder
  <2> DEFINE w == [i \in 1..Len(sent) |-> sent[i].bytes.msg]
             R == Messages \cup {Garbage}
  <2>1. /\ Len(received) \in Nat /\ Len(sent) \in Nat /\ Len(received) <= Len(sent)
        /\ received \in Seq(R)
        /\ \A i \in 1..Len(received) : received[i] = sent[i].bytes.msg
    BY DEF LinkInv, LinkTypeOK, ReceivedInOrder
  <2>2. Len(w) = Len(sent)
    BY <2>1
  <2>3. \A i \in 1..Len(received) : w[i] = received[i] /\ w[i] \in R
    BY <2>1
  <2> HIDE DEF w, R
  <2>4. /\ SubSeq(w, 1, Len(received)) \in Seq(R)
        /\ Len(SubSeq(w, 1, Len(received))) = Len(received)
        /\ \A i \in 1..Len(received) : SubSeq(w, 1, Len(received))[i] = w[i]
    <3>1. \A i \in 1..Len(received) : w[i] \in R
      BY <2>3
    <3>2. /\ SubSeq(w, 1, Len(received)) \in Seq(R)
          /\ Len(SubSeq(w, 1, Len(received)))
               = IF 1 <= Len(received) THEN Len(received) - 1 + 1 ELSE 0
          /\ \A i \in 1..Len(received) - 1 + 1 : SubSeq(w, 1, Len(received))[i] = w[1 + i - 1]
      BY <2>1, <3>1, SubSeqProperties
    <3> QED
      BY <2>1, <3>2
  <2>5. received = SubSeq(w, 1, Len(received))
    BY <2>1, <2>3, <2>4, SeqEqual
  <2> QED
    BY <2>1, <2>2, <2>5 DEF w
<1> QED
  BY <1>1, InitLink, NextLink, PTL DEF LinkSpec

\* What is written grows by the message of the frame.
LEMMA WrittenAppended ==
  ASSUME NEW s \in Seq(Frame), NEW f \in Frame
  PROVE  [i \in 1..Len(Append(s, f)) |-> Append(s, f)[i].bytes.msg]
           = Append([i \in 1..Len(s) |-> s[i].bytes.msg], f.bytes.msg)
<1> DEFINE w == [i \in 1..Len(s) |-> s[i].bytes.msg]
           t == Append(s, f)
<1>1. Len(s) \in Nat /\ Len(t) = Len(s) + 1 /\ t[Len(s) + 1] = f
      /\ \A i \in 1..Len(s) : t[i] = s[i]
  BY AppendProperties
<1>2. \A i \in 1..Len(s) : s[i].bytes.msg \in Messages
  BY ElementOfSeq, FrameFacts
<1>3. w \in Seq(Messages) /\ Len(w) = Len(s) /\ \A i \in 1..Len(s) : w[i] = s[i].bytes.msg
  BY <1>1, <1>2
<1> HIDE DEF w, t
<1>4. f.bytes.msg \in Messages
  BY FrameFacts
<1>5. /\ Append(w, f.bytes.msg) \in Seq(Messages) /\ Len(Append(w, f.bytes.msg)) = Len(s) + 1
      /\ Append(w, f.bytes.msg)[Len(s) + 1] = f.bytes.msg
      /\ \A i \in 1..Len(s) : Append(w, f.bytes.msg)[i] = w[i]
  BY <1>3, <1>4, AppendProperties
<1>6. /\ [i \in 1..Len(t) |-> t[i].bytes.msg] \in Seq(Messages)
      /\ Len([i \in 1..Len(t) |-> t[i].bytes.msg]) = Len(s) + 1
      /\ \A i \in 1..Len(s) + 1 : [j \in 1..Len(t) |-> t[j].bytes.msg][i] = t[i].bytes.msg
  <2>1. \A i \in 1..Len(s) + 1 : t[i].bytes.msg \in Messages
    BY <1>1, <1>2, <1>4
  <2> QED
    BY <1>1, <2>1
<1>7. \A i \in 1..Len(s) + 1 :
        [j \in 1..Len(t) |-> t[j].bytes.msg][i] = Append(w, f.bytes.msg)[i]
  BY <1>1, <1>3, <1>5, <1>6
<1>8. [i \in 1..Len(t) |-> t[i].bytes.msg] = Append(w, f.bytes.msg)
  BY <1>5, <1>6, <1>7, SeqEqual
<1> QED
  BY <1>8 DEF w, t

\* Two Codecs and a string between them are the stream of messages that
\* MessageStream promises: every call is a write, a read, a misreading, or
\* nothing that the two applications see.
THEOREM LinkIsAStream == LinkSpec => StreamSpec
<1> DEFINE w(s) == [i \in 1..Len(s) |-> s[i].bytes.msg]
<1>1. LinkInit => Stream!Init
  BY DEF LinkInit, Stream!Init
<1>2. LinkInv /\ [LinkNext]_linkVars => [Stream!Next]_(Stream!vars)
  <2> SUFFICES ASSUME LinkInv, [LinkNext]_linkVars PROVE [Stream!Next]_(Stream!vars)
    OBVIOUS
  <2>1. ASSUME NEW m \in Messages, NEW u \in AnyId, Send(m, u)
        PROVE  [Stream!Next]_(Stream!vars)
    <3>1. CASE UNCHANGED sent
      BY <2>1, <3>1, SentFrame DEF LinkInv, Stream!vars
    <3>2. CASE ~UNCHANGED sent
      <4>1. PICK f \in Frame : sent' = Append(sent, f) /\ f.bytes.msg = m
        BY <2>1, <3>2, SentFrame DEF LinkInv
      <4>2. w(sent') = Append(w(sent), m)
        BY <4>1, WrittenAppended DEF LinkInv, LinkTypeOK
      <4>3. UNCHANGED <<received, mismatched>>
        BY <2>1, SentFrame DEF LinkInv
      <4> QED
        BY <4>2, <4>3 DEF Stream!Next, Stream!Write
    <3> QED
      BY <3>1, <3>2
  <2>2. ASSUME DecodeNew \/ (HardIdAsLong /\ \E d \in Desc : DecodeInto(d))
        PROVE  [Stream!Next]_(Stream!vars)
    <3>1. UNCHANGED sent
      BY <2>2, DecodeSteps
    <3>2. CASE UNCHANGED link
      BY <3>2 DEF link, Stream!vars
    <3>3. CASE ~mismatched /\ DeliversNext
      <4>1. /\ Len(received) \in Nat /\ Len(received) + 1 \in 1..Len(sent)
            /\ Len(w(sent)) = Len(sent)
        BY <3>3 DEF DeliversNext, LinkInv, LinkTypeOK
      <4>2. w(sent)[Len(received) + 1] = sent[Len(received) + 1].bytes.msg
        BY <4>1
      <4> QED
        BY <3>1, <3>3, <4>1, <4>2 DEF DeliversNext, Stream!Next, Stream!Read
    <3>4. CASE DeliversAnything
      <4>1. mismatched' = TRUE
        BY <3>4, AnythingDelivered, <3>1 DEF DeliversAnything, LinkTypeOK
      <4> QED
        BY <3>1, <4>1 DEF Stream!Next, Stream!Misread
    <3> QED
      BY <2>2, <3>2, <3>3, <3>4, DecodeSteps
  <2>3. ASSUME UNCHANGED link PROVE [Stream!Next]_(Stream!vars)
    BY <2>3 DEF link, Stream!vars
  <2> QED
    BY <2>1, <2>2, <2>3 DEF LinkNext, Ends, Reconfigure, linkVars
<1> QED
  BY <1>1, <1>2, InitLink, NextLink, PTL DEF LinkSpec, StreamSpec, Stream!Spec
=============================================================================
