-------------------------------- MODULE Wire --------------------------------
(***************************************************************************)
(* The wire protocol (crates/protocol/src/lib.rs): the header of a         *)
(* datagram packs a sequence, a fragment index and a fragment count into   *)
(* one word, and the last value of the sequence field marks a parity frame *)
(* instead of media.                                                       *)
(*                                                                         *)
(* A datagram is its word and its body, a body is the sequence of its      *)
(* fields.  A payload is the set of source packets it is the exclusive or  *)
(* of, so a media payload is a singleton; LengthOf gives its length.       *)
(* Decoders that reject return Invalid.                                    *)
(*                                                                         *)
(* The encoders assert what the decoders check, and panic if it does not   *)
(* hold.  These asserts are left out, and so are bytes, so that a datagram *)
(* is too short only if a field is missing.                                *)
(***************************************************************************)
EXTENDS Integers, Sequences, SequencesExt

CONSTANTS
  SequenceValues,      \* values of the sequence field, 2^26 in the code
  MaxFragments,        \* MAX_FRAGMENTS, 7 in the code
  MaxFecGroupPackets,  \* MAX_FEC_GROUP_PACKETS, 32 in the code
  Invalid              \* what a decoder returns for an Err

FecSequence == SequenceValues - 1

LastMediaSequence == FecSequence - 1

(* The fields of three bits take one value more than MAX_FRAGMENTS. *)
FragmentValues == MaxFragments + 1

-----------------------------------------------------------------------------
(* encode_packet and decode_packet *)

Pack(h) ==
  h.sequence + SequenceValues * (h.fragment + FragmentValues * h.fragments)

Unpack(word) ==
  [ sequence  |-> word % SequenceValues,
    fragment  |-> (word \div SequenceValues) % FragmentValues,
    fragments |-> word \div (SequenceValues * FragmentValues) ]

EncodePacket(header, body) == [word |-> Pack(header), body |-> body]

DecodePacket(datagram) ==
  LET header == Unpack(datagram.word)
  IN  IF header.fragment < header.fragments
      THEN [header |-> header, body |-> datagram.body]
      ELSE Invalid

-----------------------------------------------------------------------------
(* encode_fec_frame and decode_fec_frame.  A frame is the sequence of its  *)
(* first packet, the lengths of its packets, and their parity with its own *)
(* length.  The magic of the body is left out: nothing else is sent under  *)
(* FecSequence.                                                            *)

FecHeader == [sequence |-> FecSequence, fragment |-> 0, fragments |-> 1]

EncodeFec(frame) ==
  EncodePacket(FecHeader, <<frame.base, Len(frame.lengths)>> \o frame.lengths
                          \o <<frame.parity, frame.size>>)

DecodeFec(datagram) ==
  LET body  == datagram.body
      count == body[2]
      frame == [ base    |-> body[1],
                 lengths |-> SubSeq(body, 3, count + 2),
                 parity  |-> body[count + 3],
                 size    |-> body[count + 4] ]
  IN  IF /\ DecodePacket(datagram).header = FecHeader
         /\ Len(body) >= count + 4
         /\ frame.base <= LastMediaSequence
         /\ count \in 1..MaxFecGroupPackets
         /\ \A i \in 1..count : frame.lengths[i] <= frame.size
      THEN frame
      ELSE Invalid

-----------------------------------------------------------------------------
(* encode_repair_request and decode_repair_request: the missing fragments  *)
(* as the bits of a mask.                                                  *)

Mask(S) == FoldSet(LAMBDA i, sum : sum + 2^i, 0, S)

BitsOf(mask) == {i \in 0..(MaxFragments - 1) : (mask \div 2^i) % 2 = 1}

EncodeRepairRequest(r) == [sequence |-> r.sequence, mask |-> Mask(r.missing)]

DecodeRepairRequest(d) ==
  IF d.sequence <= FecSequence /\ d.mask \in 1..(2^MaxFragments - 1)
  THEN [sequence |-> d.sequence, missing |-> BitsOf(d.mask)]
  ELSE Invalid
=============================================================================
