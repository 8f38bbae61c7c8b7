--------------------------- MODULE ResponseReader ---------------------------
(***************************************************************************)
(* How forwardToBackend reads the body of a response into chunks and how   *)
(* sendProxyResponse puts them on the wire (pkg/proxy/telephone.go).       *)
(*                                                                         *)
(* A body is any bytes.  As UTF-8 an "ascii" byte is a character, and so   *)
(* is a "lead" byte with the "cont" byte after it; in a binary body, or in *)
(* another encoding, both occur alone.  The transport decides how many     *)
(* bytes a Read returns and whether the end of the body comes with the     *)
(* last of them (net/http does so for a body of known length) or on its    *)
(* own.                                                                    *)
(***************************************************************************)
EXTENDS Naturals, SequencesExt

CONSTANTS
  ChunkSize,        \* config.ChunkSize
  MaxResponseSize,  \* config.MaxResponseSize
  MaxBody           \* bound: length of the bodies

ASSUME ReaderAssumption ==
  /\ ChunkSize \in Nat \ {0} /\ MaxResponseSize \in Nat \ {0}
  /\ MaxBody \in Nat /\ MaxBody > MaxResponseSize

Bytes == {"ascii", "lead", "cont"}

\* The i-th byte of s belongs to a valid character that is there as a whole.
IsWhole(s, i) ==
  \/ s[i] = "ascii"
  \/ s[i] = "lead" /\ i < Len(s) /\ s[i + 1] = "cont"
  \/ s[i] = "cont" /\ i > 1 /\ s[i - 1] = "lead"

Bodies == BoundedSeq(Bytes, MaxBody)

VARIABLES
  body,    \* what the backend sends
  unread,  \* the part of it that was not read yet
  chunks,  \* the local of forwardToBackend
  state,   \* "reading", "ok", "failed" or "tooLarge"
  wire     \* the pieces Plugboard gets: chunks, or the body alone

readerVars == <<body, unread, chunks, state, wire>>

ReaderInit ==
  /\ body \in Bodies
  /\ unread = body
  /\ chunks = <<>>
  /\ state = "reading"
  /\ wire = <<>>

\* totalSize
TotalSize == Len(body) - Len(unread)

\* json.Marshal replaces each byte that is not part of a valid character.
Marshal(s) == [i \in DOMAIN s |-> IF IsWhole(s, i) THEN s[i] ELSE "replaced"]

\* More than one piece makes a chunked response, whose body is empty.
Respond(cs) ==
  IF Len(cs) > 1 THEN [i \in DOMAIN cs |-> Marshal(cs[i])]
  ELSE IF Len(cs) > 0 THEN <<Marshal(cs[1])>> ELSE <<>>

\* Mutant: the end of the body is looked at before the bytes are kept.
KeepUnlessEnd(n, eof) ==
  IF eof THEN chunks ELSE Append(chunks, SubSeq(unread, 1, n))

\* The n bytes are kept, then the error of Read is looked at.
Keep(n, eof) == Append(chunks, SubSeq(unread, 1, n))

\* Mutant: the size is not checked.
NeverTooLarge(n) == FALSE

TooLarge(n) == TotalSize + n > MaxResponseSize

\* Read returns n bytes, with the end of the body or without it.  The size
\* is checked only if the loop goes on.
Read ==
  /\ state = "reading" /\ unread # <<>>
  /\ \E n \in 1..ChunkSize, eof \in BOOLEAN :
       /\ n <= Len(unread)
       /\ eof => n = Len(unread)
       /\ unread' = SubSeq(unread, n + 1, Len(unread))
       /\ chunks' = Keep(n, eof)
       /\ IF eof
          THEN state' = "ok" /\ wire' = Respond(chunks')
          ELSE /\ state' = IF TooLarge(n) THEN "tooLarge" ELSE "reading"
               /\ UNCHANGED wire
  /\ UNCHANGED body

\* Mutant: a piece without bytes is kept as well.
ReadEndKeepsEmpty ==
  /\ state = "reading" /\ unread = <<>>
  /\ state' = "ok"
  /\ chunks' = Append(chunks, <<>>)
  /\ wire' = Respond(chunks')
  /\ UNCHANGED <<body, unread>>

\* Read returns the end of the body alone.
ReadEnd ==
  /\ state = "reading" /\ unread = <<>>
  /\ state' = "ok"
  /\ wire' = Respond(chunks)
  /\ UNCHANGED <<body, unread, chunks>>

\* Read fails: RequestTimeout, or the backend breaks off.
ReadFails ==
  /\ state = "reading"
  /\ state' = "failed"
  /\ UNCHANGED <<body, unread, chunks, wire>>

ReaderTerminated ==
  /\ state # "reading"
  /\ UNCHANGED readerVars

ReaderNext == Read \/ ReadEnd \/ ReadFails \/ ReaderTerminated

ReaderSpec == ReaderInit /\ [][ReaderNext]_readerVars

-----------------------------------------------------------------------------
(* Properties.                                                             *)

\* Every variable has its type: no chunk is empty or larger than ChunkSize, and
\* nothing is sent unless the whole body was read.
ReaderTypeOK ==
  /\ body \in Bodies
  /\ unread \in Seq(Bytes)
  /\ \A i \in DOMAIN chunks : Len(chunks[i]) \in 1..ChunkSize
  /\ state \in {"reading", "ok", "failed", "tooLarge"}
  /\ wire # <<>> => state = "ok"

\* The i-th byte of the body belongs to a character that two chunks share.
CutApart(i) ==
  \E k \in DOMAIN chunks :
    LET end == Len(FlattenSeq(SubSeq(chunks, 1, k))) IN
    /\ end < Len(body) /\ body[end] = "lead" /\ body[end + 1] = "cont"
    /\ i \in {end, end + 1}

\* However the transport cuts the body, nothing of it is lost, doubled or
\* reordered on the way to Plugboard, chunked or not: put together, the pieces
\* are the body, but for what json.Marshal replaces byte by byte.  These are the
\* bytes that are no valid UTF-8, and the characters a chunk boundary cuts in two.
ResponseIsFaithful ==
  /\ FlattenSeq(chunks) \o unread = body
  /\ state = "ok" =>
       LET got == FlattenSeq(wire) IN
       /\ Len(got) = Len(body)
       /\ \A i \in DOMAIN body :
            got[i] = IF IsWhole(body, i) /\ ~CutApart(i) THEN body[i] ELSE "replaced"

\* Whatever the backend sends, at most one chunk more than MaxResponseSize is
\* held in memory.
MemoryIsBounded == TotalSize <= MaxResponseSize + ChunkSize

\* README.md:510: "Responses exceeding this are rejected".
OversizedIsRejected == state = "ok" => Len(body) <= MaxResponseSize

\* telephone_test.go:448 "Verify chunks reconstruct the original body": put
\* together, the pieces Plugboard gets are the body the backend sent.
WireIsBody == state = "ok" => FlattenSeq(wire) = body
=============================================================================
