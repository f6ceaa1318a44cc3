----------------------------- MODULE LoopbackHttp -----------------------------
(***************************************************************************)
(* The reply of the local model server as ai/loopback_http.rs reads it:    *)
(* status line, headers, and a body that is chunked, of a declared length, *)
(* or everything up to the end of the connection.  The server may die, and *)
(* the connection with it, after any byte.                                 *)
(*                                                                         *)
(* The stream is a sequence of symbols: a header line with its end is one, *)
(* so is a byte of the body.  A line cut short is the symbol Cut: the      *)
(* reader gets what there is of it and the next read finds the end.  What  *)
(* is there of a blank line or of the size "0" says as much as the whole.  *)
(***************************************************************************)
EXTENDS Integers, Sequences

CONSTANTS
  Bodies,        \* bodies a server may send: sequences of bytes
  Split,         \* sizes of the chunks a server cuts a body into
  MaxBody,       \* MAX_RESPONSE_BYTES
  MaxHeaders     \* MAX_HEADER_BYTES, in header lines

ASSUME ReplyAssumption ==
  /\ MaxBody \in Nat /\ MaxHeaders \in Nat /\ Split \subseteq Nat \ {0}
  /\ Bodies \subseteq Seq(STRING)

VARIABLES
  intended,   \* history: the body the server meant to send and how it framed it
  onWire,     \* what reached this end before the connection closed
  stage,      \* "idle", "sent", "headers", "sized", "chunked", "done"
  status,     \* the status the reply gave
  declared,   \* content_length: <<>> or <<n>>
  isChunked,
  lines,      \* header lines read
  got,        \* bytes of the body read so far
  reply       \* "none", "error", or "ok": then got is the reply

replyVars == <<intended, onWire, stage, status, declared, isChunked, lines, got, reply>>

Line(name, value) == [line |-> name, value |-> value]
Byte(b) == [byte |-> b]
Cut == [cut |-> TRUE]
IsLine(s) == "line" \in DOMAIN s
IsByte(s) == "byte" \in DOMAIN s

Bytes(body) == [i \in 1..Len(body) |-> Byte(body[i])]
Blank == Line("", 0)

\* From every byte of a body, the chunks of the rest: n bytes each but the last,
\* each with its size and its end of line, and the empty chunk that ends them.
ChunksFrom(body, n) ==
  LET chunk[from \in 1..(Len(body) + 1)] ==
        LET left == Len(body) + 1 - from
            k == IF n < left THEN n ELSE left
        IN  IF k = 0 THEN <<Line("size", 0)>>
            ELSE <<Line("size", k)>> \o Bytes(SubSeq(body, from, from + k - 1))
                 \o <<Byte("cr"), Byte("lf")>> \o chunk[from + k]
  IN  chunk

Chunked(body, n) == ChunksFrom(body, n)[1]

Headers(r) ==
  <<Line("status", r.status)>>
    \o [i \in 1..r.others |-> Line("other", i)]
    \o (IF r.framing \in {"sized", "both"} THEN <<Line("length", Len(r.body))>> ELSE <<>>)
    \o (IF r.framing \in {"chunked", "both"} THEN <<Line("chunked", 0)>> ELSE <<>>)
    \o <<Blank>>

Written(r) ==
  Headers(r) \o (IF r.framing \in {"chunked", "both"} THEN Chunked(r.body, r.size) ELSE Bytes(r.body))

Replies ==
  [status : {200, 500}, others : {0, MaxHeaders}, body : Bodies,
   framing : {"sized", "chunked", "both", "none"}, size : Split]

-------------------------------------------------------------------------------
ReplyInit ==
  /\ intended = <<>> /\ onWire = <<>> /\ stage = "idle" /\ status = 0
  /\ declared = <<>> /\ isChunked = FALSE /\ lines = 0 /\ got = <<>> /\ reply = "none"

\* request, and the server's answer up to the symbol where the connection
\* closes; where that symbol is a line, part of it may still arrive, which is the
\* whole line to the reader if it is blank or the size of the empty chunk.
Request(r) ==
  LET all == Written(r) IN
  /\ intended' = <<r>> /\ stage' = "sent"
  /\ \E n \in 0..Len(all) :
       \/ onWire' = SubSeq(all, 1, n)
       \/ /\ n < Len(all) /\ IsLine(all[n + 1])
          /\ all[n + 1] \notin {Blank, Line("size", 0)}
          /\ onWire' = Append(SubSeq(all, 1, n), Cut)
  /\ UNCHANGED <<status, declared, isChunked, lines, got, reply>>

Fail == reply' = "error" /\ stage' = "done"

\* read_response, the status line: a line that is cut may hold a status, but
\* no header follows it.
ReadStatus ==
  /\ stage = "sent"
  /\ IF onWire = <<>> \/ ~ IsLine(Head(onWire))
     THEN Fail /\ UNCHANGED <<onWire, status>>
     ELSE /\ status' = Head(onWire).value /\ onWire' = Tail(onWire)
          /\ stage' = "headers" /\ UNCHANGED reply
  /\ UNCHANGED <<intended, declared, isChunked, lines, got>>

\* read_response, one header line.  The end of the connection is an error
\* here; a cut line is taken for a header and the next read finds the end.
ReadHeader ==
  /\ stage = "headers"
  /\ IF onWire = <<>> \/ lines >= MaxHeaders \/ Head(onWire) = Cut
     THEN Fail /\ UNCHANGED <<onWire, declared, isChunked, lines>>
     ELSE LET l == Head(onWire) IN
          /\ onWire' = Tail(onWire) /\ lines' = lines + 1
          /\ IF l.line = "length" /\ l.value > MaxBody
             THEN Fail /\ UNCHANGED <<declared, isChunked>>
             ELSE /\ declared' = IF l.line = "length" THEN <<l.value>> ELSE declared
                  /\ isChunked' = (isChunked \/ l.line = "chunked")
                  /\ stage' = IF l # Blank THEN "headers"
                              ELSE IF isChunked THEN "chunked" ELSE "sized"
                  /\ UNCHANGED reply
  /\ UNCHANGED <<intended, status, got>>

\* The reply is whole: what is not a success is the caller's error.
Finish == reply' = (IF status = 200 THEN "ok" ELSE "error") /\ stage' = "done"

\* Mutant of ReadSized: fewer bytes than declared are a reply too.
ReadAvailable ==
  /\ stage = "sized"
  /\ LET n == IF declared # <<>> /\ declared[1] < Len(onWire) THEN declared[1] ELSE Len(onWire)
     IN  got' = [i \in 1..n |-> onWire[i].byte] /\ Finish
  /\ UNCHANGED <<intended, onWire, status, declared, isChunked, lines>>

\* read_sized: exactly the declared length, or all there is up to the limit.
ReadSized ==
  /\ stage = "sized"
  /\ IF declared # <<>> /\ declared[1] > Len(onWire)
     THEN Fail /\ UNCHANGED got
     ELSE LET n == IF declared # <<>> THEN declared[1]
                   ELSE IF Len(onWire) < MaxBody THEN Len(onWire) ELSE MaxBody
          IN  got' = [i \in 1..n |-> onWire[i].byte] /\ Finish
  /\ UNCHANGED <<intended, onWire, status, declared, isChunked, lines>>

\* read_chunked, one chunk: its size line, its bytes and two bytes more,
\* whatever they are; the empty chunk ends the body.  A size that is cut is no number, or a
\* number above zero of which no byte follows: an error in either case.
ReadChunk ==
  /\ stage = "chunked"
  /\ IF onWire = <<>> \/ Head(onWire) = Cut
     THEN Fail /\ UNCHANGED <<got, onWire>>
     ELSE LET n == Head(onWire).value IN
          IF n = 0 THEN Finish /\ UNCHANGED <<got, onWire>>
          ELSE IF Len(got) + n > MaxBody \/ Len(onWire) < 1 + n + 2
          THEN Fail /\ UNCHANGED <<got, onWire>>
          ELSE /\ got' = got \o [i \in 1..n |-> onWire[1 + i].byte]
               /\ onWire' = SubSeq(onWire, n + 4, Len(onWire))
               /\ UNCHANGED <<stage, reply>>
  /\ UNCHANGED <<intended, status, declared, isChunked, lines>>

ReplyNext ==
  \/ stage = "idle" /\ \E r \in Replies : Request(r)
  \/ ReadStatus
  \/ ReadHeader
  \/ ReadSized
  \/ ReadChunk

ReplySpec == ReplyInit /\ [][ReplyNext]_replyVars

-------------------------------------------------------------------------------
(***************************************************************************)
(* Property                                                                *)
(***************************************************************************)

\* A reply whose length the server told is the whole body it meant, in order,
\* or an error: however it was framed and wherever the connection broke, a
\* truncated answer of the model is never taken for an answer.  Only a reply
\* of no declared length may be cut, where the connection or the limit ends it.
ReplyIsWholeOrRefused ==
  reply = "ok" =>
    LET r == intended[1] IN
    IF r.framing = "none"
    THEN got = SubSeq(r.body, 1, Len(got)) /\ Len(got) <= MaxBody
    ELSE got = r.body
=============================================================================
