-------------------------------- MODULE Wire --------------------------------
(***************************************************************************)
(* The frames of the RPC wire format (wire.pb/wire.proto, rpc_wire.cc).    *)
(*                                                                         *)
(* A call is four frames: RequestHeader and request body one way,          *)
(* ResponseHeader and response body the other.  Nothing in a frame says    *)
(* which of the two kinds it is: the reader parses the bytes as whatever   *)
(* it expects next.  The Parse operators below therefore take any frame    *)
(* and say what the bytes mean when they are read in that role.            *)
(*                                                                         *)
(* Names, payloads and error texts are members of small sets; what the     *)
(* code computes from their bytes (lengths, whether they parse) is given   *)
(* by constant tables.  HashCRC32 is taken to be free of collisions on     *)
(* the payloads at hand: the checksum of a body is the body itself.        *)
(***************************************************************************)
EXTENDS Naturals

CONSTANTS
  Method,         \* "Service.Method" names a caller may pass
  EmptyName,      \* the empty name, never a legal argument of CallMethod
  NameLen,        \* length of each name
  Body,           \* serialized, compressed request messages
  Reply,          \* serialized, compressed response messages
  NoReply,        \* the reply sent for a NULL response (empty payload)
  ErrText,        \* texts a service method may return as its Error
  NoErr,          \* the empty text: Error::Nil()
  NotFound,       \* "Can't find ServiceMethod: ..."
  LocalErr,       \* any "protorpc..." error made on the client's side
  ErrLen,         \* length of each text in ErrText
  MaxHeaderLen,   \* Const.max_header_len
  HeaderOverhead, \* bytes of a header besides its name or error text
  NotFoundLen,    \* length of the NotFound text before the method name
  NoSum,          \* checksum field of a header that carries no valid checksum
  HeaderSum,      \* checksum of the bytes of a header frame
  Malformed,      \* ParseFromString returned false
  BodyAsHeader,   \* a request body's bytes parsed as a RequestHeader
  ReplyAsHeader,  \* a response body's bytes parsed as a ResponseHeader
  HeaderAsBody,   \* a request header's bytes uncompressed as a body
  HeaderAsReply   \* a response header's bytes uncompressed as a reply

Errors == ErrText \cup {NotFound, LocalErr}

RequestHeaders ==
  [tag : {"RequestHeader"}, id : Nat, method : Method,
   checksum : Body \cup {NoSum}]
RequestBodies == [tag : {"RequestBody"}, data : Body]
ResponseHeaders ==
  [tag : {"ResponseHeader"}, id : Nat, error : ErrText \cup {NotFound},
   checksum : Reply \cup {NoSum}]
ResponseBodies == [tag : {"ResponseBody"}, data : Reply]

UpFrames   == RequestHeaders \cup RequestBodies
DownFrames == ResponseHeaders \cup ResponseBodies

\* A payload's bytes may happen to parse as a header, never as one whose
\* checksum field matches a frame of the stream.
ASSUME WireAssumption ==
  /\ EmptyName \in Method /\ NoReply \in Reply /\ NoErr \in ErrText
  /\ NotFound \notin ErrText /\ LocalErr \notin ErrText /\ LocalErr # NotFound
  /\ NameLen \in [Method -> Nat] /\ ErrLen \in [ErrText -> Nat]
  /\ MaxHeaderLen \in Nat /\ HeaderOverhead \in Nat /\ NotFoundLen \in Nat
  /\ NoSum \notin Body \cup Reply /\ HeaderSum \notin Body \cup Reply \cup {NoSum}
  /\ Malformed \notin RequestHeaders \cup ResponseHeaders
  /\ \A b \in Body : \/ BodyAsHeader[b] = Malformed
                     \/ /\ BodyAsHeader[b] \in RequestHeaders
                        /\ BodyAsHeader[b].checksum = NoSum
  /\ \A r \in Reply : \/ ReplyAsHeader[r] = Malformed
                      \/ /\ ReplyAsHeader[r] \in ResponseHeaders
                         /\ ReplyAsHeader[r].checksum = NoSum
  /\ HeaderAsBody \in Body /\ HeaderAsReply \in Reply

-----------------------------------------------------------------------------
(* Sending.  A header larger than max_header_len is refused before any     *)
(* byte is written.                                                        *)

HeaderFits(len) == len <= MaxHeaderLen

RequestHeaderLen(m) == HeaderOverhead + NameLen[m]

ResponseHeaderLen(e, m) ==
  HeaderOverhead + (IF e = NotFound THEN NotFoundLen + NameLen[m] ELSE ErrLen[e])

RequestHeader(i, m, b) ==
  [tag |-> "RequestHeader", id |-> i, method |-> m, checksum |-> b]
RequestBody(b) == [tag |-> "RequestBody", data |-> b]
ResponseHeader(i, e, r) ==
  [tag |-> "ResponseHeader", id |-> i, error |-> e, checksum |-> r]
ResponseBody(r) == [tag |-> "ResponseBody", data |-> r]

-----------------------------------------------------------------------------
(* Receiving.                                                              *)

ParseRequestHeader(f) ==
  IF f.tag = "RequestHeader" THEN f ELSE BodyAsHeader[f.data]

ParseResponseHeader(f) ==
  IF f.tag = "ResponseHeader" THEN f ELSE ReplyAsHeader[f.data]

Checksum(f) ==
  IF f.tag \in {"RequestBody", "ResponseBody"} THEN f.data ELSE HeaderSum

RequestPayload(f) == IF f.tag = "RequestBody" THEN f.data ELSE HeaderAsBody
ReplyPayload(f)   == IF f.tag = "ResponseBody" THEN f.data ELSE HeaderAsReply
=============================================================================
