-------------------------------- MODULE Link --------------------------------
(***************************************************************************)
(* Two Codec objects and the byte string between them.  tx appends the     *)
(* bytes of every successful encode() to one string; rx decodes messages   *)
(* off its front, with the decode() that returns a new message and strips  *)
(* the bytes the decoding used, or with the one that fills the caller's    *)
(* message and strips as many bytes as size() computes for it.  Either end *)
(* may be reconfigured at any time.                                        *)
(*                                                                         *)
(* The string is given by positions in all that was ever appended: frame i *)
(* occupies start .. start + size - 1, the bytes before "erased" are gone. *)
(* Decoding bytes that are not what the receiver takes them for (another   *)
(* type, another key or id codec, or the middle of a frame) may throw or   *)
(* yield anything and strip anything.                                      *)
(***************************************************************************)
EXTENDS Codec

CONSTANTS
  tx, rx,      \* the sending and the receiving object
  MaxSent,     \* bound on the messages sent
  MaxReconfigured  \* bound on the calls that configure the ends

ASSUME LinkAssumption ==
  tx \in Objects /\ rx \in Objects /\ MaxSent \in Nat /\ MaxReconfigured \in Nat

VARIABLES
  sent,        \* the frames appended
  erased,      \* how many bytes were stripped from the front
  received,    \* what decode() delivered: messages of sent, or Garbage
  mismatched,  \* bytes were decoded by a receiver configured differently
  reconfigured \* how many calls configured the ends

link == <<sent, erased, received, mismatched>>
linkVars == <<vars, link, reconfigured>>

Garbage == "garbage"

LinkInit ==
  /\ Init
  /\ sent = << >> /\ erased = 0 /\ received = << >> /\ mismatched = FALSE
  /\ reconfigured = 0

Appended == IF sent = << >> THEN 0 ELSE sent[Len(sent)].start + sent[Len(sent)].size

\* encode(std::string*, ...) appends only when nothing threw.
Send(m, u) ==
  /\ Len(sent) < MaxSent
  /\ Encode(tx, m, FALSE, u)
  /\ sent' = IF last'.ok
               THEN Append(sent, [start |-> Appended, size |-> last'.bytes.size,
                                  bytes |-> last'.bytes])
               ELSE sent
  /\ UNCHANGED <<erased, received, mismatched, reconfigured>>

Reconfigure(o) ==
  /\ reconfigured < MaxReconfigured
  /\ Configure(o)
  /\ reconfigured' = reconfigured + 1
  /\ UNCHANGED link

-----------------------------------------------------------------------------
(* decode() *)

\* The string starts with frame f.
AtFront(f) == (\E i \in 1..Len(sent) : sent[i] = f) /\ f.start = erased

\* id(begin, end) reads the id that tx wrote in front of f.
ReadsId(f) == AtFront(f) /\ id_codec[rx] = f.bytes.idc /\ id_codec[rx] \in codecs[rx]

desc_of(f) == Info[f.bytes.msg].desc

\* What rx makes of f, decoding it as type d, is the message tx encoded.
Understands(f, d) ==
  ReadsId(f) /\ d = desc_of(f) /\ key_for(rx, f.bytes.id) = f.bytes.key

\* The id read is loaded, and the codecs of type d are found.
Decodable(f, d) ==
  ReadsId(f) /\ id2desc[rx][f.bytes.id] # NoDesc /\ d # NoDesc /\ all_found(rx, d)

\* MUTANT: the bits left in the pool are rounded up to bytes.
actual_end_RoundsUp(remaining_bits) == Appended - ceil_bits2bytes(remaining_bits)

\* decode() returns end - body_bits.size() / BITS_IN_BYTE.
actual_end(remaining_bits) == Appended - remaining_bits \div 8

\* Bits left when the body of f was decoded from all that follows its head.
remaining_after(f) ==
  8 * (Appended - erased - head_bytes(rx, desc_of(f), f.bytes.id)) - Info[f.bytes.msg].body

\* MUTANT: the bits of the body are counted in whole bytes.
size_of_BodyRoundedDown(f) ==
  head_bytes(rx, desc_of(f), hard_id(rx, desc_of(f))) + Info[f.bytes.msg].body \div 8

\* size(*msg), with the default user_id, which is what the message is stripped
\* by when decode() was given the string and a message to fill.
size_of(f) ==
  head_bytes(rx, desc_of(f), hard_id(rx, desc_of(f))) + ceil_bits2bytes(Info[f.bytes.msg].body)

\* An exception leaves the string as it was.
DecodeThrows ==
  /\ Return("decode", FALSE)
  /\ UNCHANGED link

Deliver(m, end) ==
  /\ Return("decode", TRUE)
  /\ received' = Append(received, m)
  /\ erased' = end

\* Bytes taken for what they are not.  A frame read under another
\* configuration is the users' mistake, and is remembered as one.
Misdecode ==
  \/ DecodeThrows
  \/ /\ \E end \in erased + 1..Appended : Deliver(Garbage, end)
     /\ mismatched' = (mismatched \/ \E i \in 1..Len(sent) : AtFront(sent[i]))
     /\ UNCHANGED sent

DecodeNew ==
  /\ Idle(rx) /\ erased < Appended
  /\ \/ \E i \in 1..Len(sent) :
          LET f == sent[i]
              d == id2desc[rx][f.bytes.id]
          IN \/ /\ Decodable(f, d) /\ Understands(f, d)
                /\ Deliver(f.bytes.msg, actual_end(remaining_after(f)))
                /\ UNCHANGED <<sent, mismatched>>
             \/ Decodable(f, d) /\ ~Understands(f, d) /\ Misdecode
             \/ ReadsId(f) /\ ~Decodable(f, d) /\ DecodeThrows
     \/ /\ \A i \in 1..Len(sent) : ~ReadsId(sent[i])
        /\ IF id_codec[rx] \in codecs[rx] THEN Misdecode ELSE DecodeThrows
  /\ UNCHANGED <<registry, settings, loading, reconfigured>>

\* The message to fill has the type the application chose, which need not be
\* the one loaded under the id.
DecodeInto(d) ==
  /\ Idle(rx) /\ erased < Appended
  /\ \/ \E i \in 1..Len(sent) :
          LET f == sent[i]
          IN \/ /\ Decodable(f, d) /\ Understands(f, d)
                /\ IF default_id_usable(rx, d, -1)
                     THEN /\ Deliver(f.bytes.msg,
                                IF erased + size_of(f) < Appended
                                  THEN erased + size_of(f) ELSE Appended)
                          /\ UNCHANGED <<sent, mismatched>>
                     ELSE DecodeThrows
             \/ Decodable(f, d) /\ ~Understands(f, d) /\ Misdecode
             \/ ReadsId(f) /\ ~Decodable(f, d) /\ DecodeThrows
     \/ /\ \A i \in 1..Len(sent) : ~ReadsId(sent[i])
        /\ IF id_codec[rx] \in codecs[rx] THEN Misdecode ELSE DecodeThrows
  /\ UNCHANGED <<registry, settings, loading, reconfigured>>

-----------------------------------------------------------------------------
\* What decode(std::string*, Message*) asks of its caller without saying so: the
\* message in front was sent under an id as long as its hard-coded one.
HardIdAsLong ==
  \A i \in 1..Len(sent) : ReadsId(sent[i]) =>
    id_size(id_codec[rx], sent[i].bytes.id)
      = id_size(id_codec[rx], hard_id(rx, desc_of(sent[i])))

Ends ==
  \/ \E o \in {tx, rx} : Reconfigure(o)
  \/ \E m \in Messages, u \in AnyId : Send(m, u)
  \/ DecodeNew

LinkNext ==
  \/ Ends
  \/ HardIdAsLong /\ \E d \in Desc : DecodeInto(d)

LinkSpec == LinkInit /\ [][LinkNext]_linkVars

\* A caller that ignores this.
LinkNextInto ==
  \/ Ends
  \/ \E d \in Desc : DecodeInto(d)

LinkSpecInto == LinkInit /\ [][LinkNextInto]_linkVars

-----------------------------------------------------------------------------
(* Properties *)

\* Whatever ends were reconfigured, whichever calls failed in between, and
\* however many messages wait in the string: as long as no frame is decoded
\* under a configuration that differs from the one it was encoded under, the
\* receiver gets the messages sent, in order, and is left at the first byte of
\* the next one (codec.h:586 for the length of a body that is not a whole
\* number of bytes, codec.h:517 for the head).
Stream == INSTANCE MessageStream
  WITH Contents <- Messages,
       written <- [i \in 1..Len(sent) |-> sent[i].bytes.msg],
       read <- received,
       misread <- mismatched

StreamSpec == Stream!Spec

MessagesInOrder == Stream!InOrder

NextFrameInFront ==
  ~mismatched =>
    erased = IF Len(received) < Len(sent) THEN sent[Len(received) + 1].start ELSE Appended

\* codec.h:304: "encoded message to decode [...] which will have the used bytes
\* stripped from the front of the encoded message".  decode(std::string*,
\* Message*) strips size(*msg), which takes the message to have its hard-coded
\* id.
UsedBytesStripped == NextFrameInFront
=============================================================================
