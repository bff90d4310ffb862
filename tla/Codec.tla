------------------------------- MODULE Codec -------------------------------
(***************************************************************************)
(* The dccl::Codec objects of an application: the registry of loaded       *)
(* messages, the id codec, the manager of field codecs, the crypto setting *)
(* and the encoding of a message (codec.cpp, codec.h).  Each action is one *)
(* call of the public interface; load_library() alone takes several steps, *)
(* because the library it opens makes calls of its own that may throw.     *)
(*                                                                         *)
(* The contents of a message are abstracted to their encoded size and to   *)
(* what a decoder makes of them; RepeatedField models how fields become    *)
(* bits.                                                                   *)
(***************************************************************************)
EXTENDS Integers, Sequences, FiniteSets, IdCodec

CONSTANTS
  Objects,    \* the Codec objects
  Ids,        \* dccl ids: the hard-coded ones and the ones users choose
  UserIds,    \* the user_id arguments other than the default -1
  Desc,       \* message types (Descriptor*)
  Opt,        \* [Desc -> (dccl.msg) options and the sizes the codecs compute]
  Messages,   \* message instances
  Info,       \* [Messages -> type, encoded size, what strict mode thinks of it]
  Codecs,     \* names under which the manager can hold a codec
  BuiltIn,    \* those the constructor registers
  Libraries,  \* shared libraries of codecs and messages
  Lib,        \* [Libraries -> what their dccl3_load and dccl3_unload do]
  Keys,       \* crypto passphrases
  SkipSets,   \* the do_not_encrypt_ids_ arguments
  NoDesc, NoKey, NoCodec

OptType == [has_id: BOOLEAN, id: Ids, has_max_bytes: BOOLEAN, max_bytes: Nat,
            has_codec_version: BOOLEAN, head: Nat, body: Nat,
            needs: SUBSET Codecs, valid: BOOLEAN]

InfoType == [desc: Desc, body: Nat, in_range: BOOLEAN, initialized: BOOLEAN]

LibType == [codecs: SUBSET Codecs, id_codec: IdNames \cup {NoCodec},
            loads: Seq(Desc)]

\* (dccl.msg).id is 0 when not set.  body in Opt is what base_max_size() finds
\* for the BODY part; head, the HEAD part, has fixed size (field_validate()
\* refuses a variable-size codec there).
ASSUME CodecAssumption ==
  /\ Ids \subseteq Nat /\ UserIds \subseteq Ids
  /\ Opt \in [Desc -> OptType] /\ Info \in [Messages -> InfoType]
  /\ \A m \in Messages : Info[m].body <= Opt[Info[m].desc].body
  /\ \A d \in Desc : ~Opt[d].has_id => Opt[d].id = 0
  /\ BuiltIn \subseteq Codecs /\ DefaultName \in BuiltIn
  /\ Lib \in [Libraries -> LibType]
  /\ \A s \in SkipSets : s \subseteq Ids
  /\ NoDesc \notin Desc /\ NoKey \notin Keys /\ NoCodec \notin Codecs \cup IdNames

\* No id that a codec accepts is one it would read back as another.
ASSUME IdsCarried ==
  \A id \in Ids, name \in IdNames : id_accepts(name, id) => id_carried(name, id)

VARIABLES
  id2desc,     \* [Objects -> [Ids -> Desc or NoDesc]]
  id_codec,    \* [Objects -> name of the id codec]
  codecs,      \* [Objects -> names registered in manager_]
  strict,      \* [Objects -> strict_]
  crypto,      \* [Objects -> crypto_key_ and skip_crypto_ids_]
  loading,     \* [Objects -> messages load_library() has yet to load]
  last         \* the last call to return: which, on which object, how it ended

registry == <<id2desc, id_codec, codecs>>
settings == <<strict, crypto>>
vars == <<id2desc, id_codec, codecs, strict, crypto, loading, last>>

Nothing == [i \in Ids |-> NoDesc]

Init ==
  /\ id2desc = [o \in Objects |-> Nothing]
  /\ id_codec = [o \in Objects |-> DefaultName]
  /\ codecs = [o \in Objects |-> BuiltIn]
  /\ strict = [o \in Objects |-> FALSE]
  /\ crypto = [o \in Objects |-> [key |-> NoKey, skip |-> {}]]
  /\ loading = [o \in Objects |-> << >>]
  /\ last = [call |-> "construct", ok |-> TRUE]

Return(call, ok) == last' = [call |-> call, ok |-> ok]

\* No call is in progress on o: a Codec is used by one thread at a time.
Idle(o) == loading[o] = << >>

-----------------------------------------------------------------------------
(* Sizes and ids *)

ceil_bits2bytes(bits) == (bits + 7) \div 8

\* id_codec() finds the codec, and it can carry the id; anything that encodes
\* or sizes the id throws otherwise.
id_usable(o, id) == id_codec[o] \in codecs[o] /\ id_accepts(id_codec[o], id)

\* id(desc): the hard-coded id, passed through the id codec in use.
hard_id(o, d) == id_decode(id_codec[o], id_encode(id_codec[o], Opt[d].id))

default_id_usable(o, d, u) == IF u < 0 THEN id_usable(o, Opt[d].id) ELSE id_usable(o, u)

dccl_id(o, d, u) == IF u < 0 THEN hard_id(o, d) ELSE u

head_bytes(o, d, id) == ceil_bits2bytes(Opt[d].head + 8 * id_size(id_codec[o], id))

\* Size of the longest encoding of type d under this id.
byte_size(o, d, id) == head_bytes(o, d, id) + ceil_bits2bytes(Opt[d].body)

\* manager_.find() finds the codec of the message and of every field.
all_found(o, d) == Opt[d].needs \subseteq codecs[o]

-----------------------------------------------------------------------------
(* load() and unload() *)

\* MUTANT: the size is checked as if every id took the short form.
load_accepts_ShortIdSize(o, d, u) ==
  /\ u < 0 => Opt[d].has_id
  /\ Opt[d].has_max_bytes /\ Opt[d].has_codec_version
  /\ all_found(o, d) /\ default_id_usable(o, d, u)
  /\ LET id == dccl_id(o, d, u) IN
       /\ head_bytes(o, d, 0) + ceil_bits2bytes(Opt[d].body) <= Opt[d].max_bytes
       /\ Opt[d].valid /\ id2desc[o][id] \in {NoDesc, d}

\* load() throws at the first of these that fails.
load_accepts(o, d, u) ==
  /\ u < 0 => Opt[d].has_id
  /\ Opt[d].has_max_bytes
  /\ Opt[d].has_codec_version
  /\ all_found(o, d)
  /\ default_id_usable(o, d, u)
  /\ LET id == dccl_id(o, d, u) IN
       /\ byte_size(o, d, id) <= Opt[d].max_bytes
       /\ Opt[d].valid
       /\ id2desc[o][id] \in {NoDesc, d}

\* MUTANT: the message is inserted before the id is seen to be in use.
DoLoad_InsertsFirst(o, d, u) ==
  id2desc' = IF default_id_usable(o, d, u)
               THEN [id2desc EXCEPT ![o][dccl_id(o, d, u)] = d]
               ELSE id2desc

\* MUTANT: it is inserted under user_id, the default -1 included.
DoLoad_UnderUserId(o, d, u) ==
  id2desc' = IF load_accepts(o, d, u)
               THEN [id2desc EXCEPT ![o] = [i \in DOMAIN @ \cup {u} |-> IF i = u THEN d ELSE @[i]]]
               ELSE id2desc

DoLoad(o, d, u) ==
  id2desc' = IF load_accepts(o, d, u)
               THEN [id2desc EXCEPT ![o][dccl_id(o, d, u)] = d]
               ELSE id2desc

Load(o, d, u) ==
  /\ Idle(o)
  /\ DoLoad(o, d, u)
  /\ Return("load", load_accepts(o, d, u))
  /\ UNCHANGED <<id_codec, codecs, settings, loading>>

without(reg, ds) == [i \in Ids |-> IF reg[i] \in ds THEN NoDesc ELSE reg[i]]

UnloadDesc(o, d) ==
  /\ Idle(o)
  /\ id2desc' = [id2desc EXCEPT ![o] = without(@, {d})]
  /\ Return("unload", TRUE)
  /\ UNCHANGED <<id_codec, codecs, settings, loading>>

UnloadId(o, id) ==
  /\ Idle(o)
  /\ id2desc' = [id2desc EXCEPT ![o][id] = NoDesc]
  /\ Return("unload", TRUE)
  /\ UNCHANGED <<id_codec, codecs, settings, loading>>

UnloadAll(o) ==
  /\ Idle(o)
  /\ id2desc' = [id2desc EXCEPT ![o] = Nothing]
  /\ Return("unload", TRUE)
  /\ UNCHANGED <<id_codec, codecs, settings, loading>>

-----------------------------------------------------------------------------
(* Settings *)

\* MUTANT: the messages loaded under the old id codec stay.
switch_id_codec_KeepsMessages(o, name) ==
  /\ id_codec' = [id_codec EXCEPT ![o] = name]
  /\ UNCHANGED id2desc

\* What set_id_codec() does before it looks whether the codec exists.
switch_id_codec(o, name) ==
  /\ id2desc' = [id2desc EXCEPT ![o] = Nothing]
  /\ id_codec' = [id_codec EXCEPT ![o] = name]

\* Any name may be asked for; the call throws when the manager has no such
\* codec, after it has unloaded the messages and taken the name.
SetIdCodec(o, name) ==
  /\ Idle(o)
  /\ switch_id_codec(o, name)
  /\ Return("set_id_codec", name \in codecs[o])
  /\ UNCHANGED <<codecs, settings, loading>>

SetStrict(o, mode) ==
  /\ Idle(o)
  /\ strict' = [strict EXCEPT ![o] = mode]
  /\ Return("set_strict", TRUE)
  /\ UNCHANGED <<registry, crypto, loading>>

SetCryptoPassphrase(o, key, skip) ==
  /\ Idle(o)
  /\ crypto' = [crypto EXCEPT ![o] = [key |-> key, skip |-> skip]]
  /\ Return("set_crypto_passphrase", TRUE)
  /\ UNCHANGED <<registry, strict, loading>>

\* manager().add<>() keeps the codec that already has the name.
AddCodec(o, name) ==
  /\ Idle(o)
  /\ codecs' = [codecs EXCEPT ![o] = @ \cup {name}]
  /\ Return("add", TRUE)
  /\ UNCHANGED <<id2desc, id_codec, settings, loading>>

RemoveCodec(o, name) ==
  /\ Idle(o)
  /\ codecs' = [codecs EXCEPT ![o] = @ \ {name}]
  /\ Return("remove", TRUE)
  /\ UNCHANGED <<id2desc, id_codec, settings, loading>>

-----------------------------------------------------------------------------
(* Shared libraries *)

\* load_library() up to the library's calls of load(): its codecs are added,
\* and a library with an id codec of its own switches to it, which unloads
\* every message, unless it is in use already.
LoadLibrary(o, l) ==
  /\ Idle(o)
  /\ codecs' = [codecs EXCEPT ![o] = @ \cup Lib[l].codecs]
  /\ IF Lib[l].id_codec \in {NoCodec, id_codec[o]}
       THEN UNCHANGED <<id2desc, id_codec>>
       ELSE switch_id_codec(o, Lib[l].id_codec)
  /\ loading' = [loading EXCEPT ![o] = Lib[l].loads]
  /\ Return("load_library", TRUE)
  /\ UNCHANGED settings

\* The library loads its next message; an exception leaves load_library() and
\* the messages behind it stay unloaded.
LoadLibraryMessage(o) ==
  /\ loading[o] # << >>
  /\ LET d == Head(loading[o]) IN
       /\ DoLoad(o, d, -1)
       /\ loading' = [loading EXCEPT ![o] =
                        IF load_accepts(o, d, -1) THEN Tail(@) ELSE << >>]
       /\ Return("load_library", load_accepts(o, d, -1))
  /\ UNCHANGED <<id_codec, codecs, settings>>

messages_of(l) == {Lib[l].loads[i] : i \in 1..Len(Lib[l].loads)}

\* unload_library(): the library's messages, then its codecs; the name of the
\* id codec is left as it is.
UnloadLibrary(o, l) ==
  /\ Idle(o)
  /\ id2desc' = [id2desc EXCEPT ![o] = without(@, messages_of(l))]
  /\ codecs' = [codecs EXCEPT ![o] = @ \ Lib[l].codecs]
  /\ Return("unload_library", TRUE)
  /\ UNCHANGED <<id_codec, settings, loading>>

-----------------------------------------------------------------------------
(* encode() *)

\* The key a body of this id is encrypted with.
key_for(o, id) == IF id \in crypto[o].skip THEN NoKey ELSE crypto[o].key

\* encode_internal() throws when one of these fails.  A field out of its range is
\* one of the body.
encode_accepts(o, m, header_only, u) ==
  LET d == Info[m].desc IN
    /\ default_id_usable(o, d, u)
    /\ header_only \/ Info[m].initialized
    /\ id2desc[o][dccl_id(o, d, u)] # NoDesc
    /\ all_found(o, d)
    /\ strict[o] /\ ~header_only => Info[m].in_range

\* The bytes encode() appends, by what they hold and how they were made.
encoded(o, m, header_only, u) ==
  LET d  == Info[m].desc
      id == dccl_id(o, d, u)
  IN [id   |-> id, msg |-> m, header_only |-> header_only,
      idc  |-> id_codec[o],
      key  |-> IF header_only THEN NoKey ELSE key_for(o, id),
      size |-> head_bytes(o, d, id)
                 + IF header_only THEN 0 ELSE ceil_bits2bytes(Info[m].body)]

\* What encode() throws.  The id given by the user is used only after the
\* registry was searched for it.  The throw at codec.cpp:201 has its parenthesis
\* closed after the Exception: the comma operator drops that and throws the
\* Descriptor*, which the handlers below it do not catch.
encode_throws(o, m, header_only, u) ==
  LET d  == Info[m].desc
      id == dccl_id(o, d, u)
  IN IF \/ u < 0 /\ ~id_usable(o, Opt[d].id)
        \/ ~header_only /\ ~Info[m].initialized
       THEN "Exception"
     ELSE IF id2desc[o][id] = NoDesc THEN "Descriptor"
     ELSE IF ~all_found(o, d) \/ ~id_usable(o, id) THEN "Exception"
     ELSE "OutOfRangeException"

Encode(o, m, header_only, u) ==
  /\ Idle(o)
  /\ last' = IF encode_accepts(o, m, header_only, u)
               THEN [call |-> "encode", ok |-> TRUE, object |-> o,
                     bytes |-> encoded(o, m, header_only, u)]
               ELSE [call |-> "encode", ok |-> FALSE, object |-> o,
                     thrown |-> encode_throws(o, m, header_only, u)]
  /\ UNCHANGED <<registry, settings, loading>>

-----------------------------------------------------------------------------
AnyId == UserIds \cup {-1}

Configure(o) ==
  \/ \E d \in Desc : UnloadDesc(o, d) \/ \E u \in AnyId : Load(o, d, u)
  \/ \E id \in Ids : UnloadId(o, id)
  \/ UnloadAll(o)
  \/ \E name \in IdNames : SetIdCodec(o, name)
  \/ \E mode \in BOOLEAN : SetStrict(o, mode)
  \/ \E k \in Keys, s \in SkipSets : SetCryptoPassphrase(o, k, s)
  \/ \E name \in Codecs : AddCodec(o, name) \/ RemoveCodec(o, name)
  \/ \E l \in Libraries : LoadLibrary(o, l) \/ UnloadLibrary(o, l)
  \/ LoadLibraryMessage(o)

Next ==
  \E o \in Objects :
    \/ Configure(o)
    \/ \E m \in Messages, h \in BOOLEAN, u \in AnyId : Encode(o, m, h, u)

Spec == Init /\ [][Next]_vars

-----------------------------------------------------------------------------
(* Properties *)

\* Every variable ranges over what the C++ member can hold.
TypeOK ==
  /\ id2desc \in [Objects -> [Ids -> Desc \cup {NoDesc}]]
  /\ id_codec \in [Objects -> IdNames]
  /\ codecs \in [Objects -> SUBSET Codecs]
  /\ strict \in [Objects -> BOOLEAN]
  /\ crypto \in [Objects -> [key: Keys \cup {NoKey}, skip: SUBSET Ids]]
  /\ loading \in [Objects -> Seq(Desc)]

loaded(o, d, id) == id2desc[o][id] = d /\ d # NoDesc

\* Whatever sequence of loads, unloads, id codec switches and libraries led
\* here, every message in the registry passed the checks of load() for the id
\* it has under the id codec now in use: it fits its max_bytes there
\* (codec.cpp:414), and set_id_codec() left no message that was measured with
\* another id codec (codec.cpp:772).
LoadedMessagesFit ==
  \A o \in Objects, d \in Desc, id \in Ids :
    loaded(o, d, id) =>
      /\ Opt[d].has_max_bytes /\ Opt[d].has_codec_version /\ Opt[d].valid
      /\ id_accepts(id_codec[o], id)
      /\ byte_size(o, d, id) <= Opt[d].max_bytes

\* What encode() returns for a message whose type is the one loaded under its
\* id is never longer than the (dccl.msg).max_bytes its type declares
\* (codec.cpp:414 checks the maximum, codec.cpp:355 appends the bytes).
EncodedFits ==
  last.call = "encode" /\ last.ok =>
    LET d == Info[last.bytes.msg].desc IN
      loaded(last.object, d, last.bytes.id) => last.bytes.size <= Opt[d].max_bytes

\* No call that throws changes the registry, the id codec or the manager, save
\* set_id_codec(), which unloads everything and takes the name before it looks
\* for the codec (codec.cpp:772).  In particular load() inserts only after its
\* last check (codec.cpp:436).  A load_library() that throws takes several
\* steps: it keeps what its earlier ones did, the throwing one adds nothing.
FailureKeepsRegistry ==
  [][~last'.ok /\ last'.call # "set_id_codec" => UNCHANGED registry]_vars
=============================================================================
