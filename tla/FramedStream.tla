---------------------------- MODULE FramedStream ----------------------------
(***************************************************************************)
(* One direction of a framed connection: send_raw writes header, payload   *)
(* and checksum of a frame, the bytes travel in order, recv reads a header *)
(* of fixed size, as many bytes as it announces, and the checksum.  Both   *)
(* futures can be dropped in the middle (a timeout around recv, an HTTP    *)
(* client that leaves during send): what was written or read until then    *)
(* is gone from the stream.  Bytes are grouped into words: magic and       *)
(* version, message type, sequence id and length are one word each.  The   *)
(* checksum is a polynomial without collisions on frames of this size.     *)
(***************************************************************************)
EXTENDS Integers, Sequences, FiniteSets, SequencesExt

CONSTANTS Words,        \* what a payload word can be
          Types,        \* message types
          MaxLen,       \* bound: longest payload handed to send_raw
          MaxPayload,   \* MAX_PAYLOAD_SIZE
          LenMod,       \* 2^32, what payload_len is taken modulo
          MaxSends, MaxCancels, MaxCorrupt  \* bounds

Magic == 1
HeaderSize == 4
Base == 8
Modulus == 134217689   \* keeps the checksum inside TLC's integers

StreamAssumption ==
  /\ Words \subseteq 0 .. Base - 1 /\ Types \subseteq 0 .. Base - 1
  /\ {MaxLen, MaxPayload, LenMod, MaxSends, MaxCancels, MaxCorrupt} \subseteq Nat
  /\ 0 < LenMod /\ LenMod <= Base /\ MaxSends < Base

VARIABLES begun,      \* frames whose send began
          sending,    \* parts of the current frame not yet written
          wire,       \* words between writer and reader
          got,        \* words the current recv has read
          delivered,  \* frames recv returned
          last,       \* the last recv that ended: its words and its result
          cancels, corrupted

vars == <<begun, sending, wire, got, delivered, last, cancels, corrupted>>

Frame == [type : Types, id : 0 .. MaxSends, payload : BoundedSeq(Words, MaxLen)]

(***************************************************************************)
(* frame.rs                                                                *)
(***************************************************************************)
RECURSIVE Crc(_)
Crc(ws) == IF ws = <<>> THEN 1 ELSE (Crc(Front(ws)) * Base + Last(ws)) % Modulus

EncodeHeaderWithCrc(f) == <<Magic, f.type, f.id, (Len(f.payload) + 1) % LenMod>>
EncodeHeader(f) == <<Magic, f.type, f.id, Len(f.payload) % LenMod>>

HeaderOk(h) == h[1] = Magic /\ h[2] \in Types /\ h[4] <= MaxPayload

CrcAlwaysOk(ws, crc) == TRUE
CrcOk(ws, crc) == Crc(ws) = crc

Decoded(ws) == [type |-> ws[2], id |-> ws[3], payload |-> SubSeq(ws, HeaderSize + 1, HeaderSize + ws[4])]

Err == <<"err">>

DecodeUncapped(ws) ==
  IF /\ Len(ws) >= HeaderSize
     /\ ws[1] = Magic /\ ws[2] \in Types
     /\ Len(ws) >= HeaderSize + ws[4] + 1
     /\ Crc(SubSeq(ws, 1, HeaderSize + ws[4])) = ws[HeaderSize + ws[4] + 1]
    THEN <<"ok", Decoded(ws)>> ELSE Err

\* decode_frame_from_bytes
DecodeFrameFromBytes(ws) ==
  IF /\ Len(ws) >= HeaderSize
     /\ HeaderOk(ws)
     /\ Len(ws) >= HeaderSize + ws[4] + 1
     /\ CrcOk(SubSeq(ws, 1, HeaderSize + ws[4]), ws[HeaderSize + ws[4] + 1])
    THEN <<"ok", Decoded(ws)>> ELSE Err

(***************************************************************************)
(* connection.rs                                                           *)
(***************************************************************************)
Init ==
  /\ begun = <<>> /\ sending = <<>> /\ wire = <<>> /\ got = <<>>
  /\ delivered = <<>> /\ last = [ws |-> <<>>, result |-> Err]
  /\ cancels = 0 /\ corrupted = 0

\* The writes of send_raw: header, payload in pieces, checksum.
Parts(f) ==
  <<EncodeHeader(f)>> \o [i \in DOMAIN f.payload |-> <<f.payload[i]>>]
    \o <<<<Crc(EncodeHeader(f) \o f.payload)>>>>

SendRaw(f) ==
  /\ sending = <<>> /\ f.id = Len(begun) /\ f.id < MaxSends
  /\ begun' = Append(begun, f)
  /\ sending' = Parts(f)
  /\ UNCHANGED <<wire, got, delivered, last, cancels, corrupted>>

WriteAll ==
  /\ sending # <<>>
  /\ wire' = wire \o Head(sending) /\ sending' = Tail(sending)
  /\ UNCHANGED <<begun, got, delivered, last, cancels, corrupted>>

\* The future of send_raw is dropped at an await.
CancelSend ==
  /\ sending # <<>> /\ cancels < MaxCancels
  /\ sending' = <<>> /\ cancels' = cancels + 1
  /\ UNCHANGED <<begun, wire, got, delivered, last, corrupted>>

\* recv has all it needs to return, or to give up after the header.
HeaderRead(ws) == Len(ws) = HeaderSize /\ ~HeaderOk(ws)
FrameRead(ws) == Len(ws) > HeaderSize /\ Len(ws) = HeaderSize + ws[4] + 1

Result(ws) ==
  IF FrameRead(ws) /\ CrcOk(Front(ws), Last(ws)) THEN <<"ok", Decoded(ws)>> ELSE Err

\* read_exact takes what is there; with the last word needed, recv returns.
\* After an error the callers that poll go on to read from here.
Recv ==
  /\ wire # <<>>
  /\ LET ws == Append(got, Head(wire))
     IN IF HeaderRead(ws) \/ FrameRead(ws)
          THEN /\ got' = <<>>
               /\ last' = [ws |-> ws \o Tail(wire), result |-> Result(ws)]
               /\ delivered' = IF Result(ws) = Err THEN delivered ELSE Append(delivered, Result(ws)[2])
          ELSE got' = ws /\ UNCHANGED <<delivered, last>>
  /\ wire' = Tail(wire)
  /\ UNCHANGED <<begun, sending, cancels, corrupted>>

\* The future of recv is dropped; its buffers go with it.
CancelRecv ==
  /\ got # <<>> /\ cancels < MaxCancels
  /\ got' = <<>> /\ cancels' = cancels + 1
  /\ UNCHANGED <<begun, sending, wire, delivered, last, corrupted>>

\* The network changes a word: the next to be read, the others have their turn.
Corrupt ==
  /\ corrupted < MaxCorrupt /\ wire # <<>>
  /\ \E w \in Words \cup Types :
       w # Head(wire) /\ wire' = [wire EXCEPT ![1] = w]
  /\ corrupted' = corrupted + 1
  /\ UNCHANGED <<begun, sending, got, delivered, last, cancels>>

Next ==
  \/ \E f \in Frame : SendRaw(f)
  \/ WriteAll \/ CancelSend \/ Recv \/ CancelRecv \/ Corrupt

Spec == Init /\ [][Next]_vars

\* A send that is not dropped writes on, and the reader reads what is there.
FairSpec == Spec /\ WF_vars(WriteAll) /\ WF_vars(Recv)

(***************************************************************************)
(* Properties.                                                             *)
(***************************************************************************)
\* "Silent corruption would be catastrophic": whatever is dropped or changed on
\* the way, and although recv goes on behind an error at any word, every frame
\* it returns is one that was sent, and none is returned twice or out of order;
\* also when a payload is over the cap or its length wraps.
NothingForged ==
  /\ \A i \in DOMAIN delivered : delivered[i] \in ToSet(begun)
  /\ \A i, j \in DOMAIN delivered : i < j => delivered[i].id < delivered[j].id

\* decode_frame_from_bytes "performs the same validation as the async recv path":
\* on the words that followed, it gives what recv gave.
SameValidation == last.result = DecodeFrameFromBytes(last.ws)

Undelivered == Len(delivered) < Len(begun)

\* Without drops, and with payloads under the cap, every frame sent arrives.
EveryFrameArrives == Undelivered ~> ~Undelivered
=============================================================================
