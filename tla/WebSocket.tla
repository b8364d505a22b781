----------------------------- MODULE WebSocket -----------------------------
(***************************************************************************)
(* The frames of Socket.recvWsFrame (namespaces_socket.rs, ws_recv_frame)  *)
(* over a byte stream whose other end may do anything.  The stream is a    *)
(* sequence of units.  A unit read where a header is expected says what    *)
(* the frame is and how many units follow; the same unit may be payload,   *)
(* so a receiver that loses its place reads payload as headers.            *)
(***************************************************************************)
EXTENDS Integers, Sequences, SequencesExt

CONSTANTS MaxFrames,    \* bound: frames the peer sends
          MaxCalls      \* bound: calls of recvWsFrame

\* [op, len, ok]: ok is FALSE where the header itself is refused (reserved
\* bits, a control frame or any frame longer than allowed), or for a text
\* whose bytes are not UTF-8.
Header(op, len, ok) == [op |-> op, len |-> len, ok |-> ok]
Heads == {Header("text", 0, TRUE), Header("text", 1, TRUE), Header("text", 1, FALSE),
          Header("binary", 1, TRUE), Header("ping", 1, TRUE), Header("pong", 1, TRUE),
          Header("close", 1, TRUE), Header("refused", 1, FALSE)}
Payloads == {Header("text", 0, TRUE), Header("ping", 1, TRUE)}

\* A frame as its peer means it, and the units it is on the wire.
Frames == {<<h, p>> : h \in {g \in Heads : g.len = 1}, p \in Payloads}
            \cup {<<h>> : h \in {g \in Heads : g.len = 0}}

VARIABLES wire,         \* units sent and not read
          peerOpen,     \* the peer can still send
          sent,         \* the frames sent whole, in order
          receiving,    \* a call of recvWsFrame is in progress
          calls,        \* calls so far
          log           \* what the receiver did, in order
wsVars == <<wire, peerOpen, sent, receiving, calls, log>>

Init == /\ wire = <<>> /\ peerOpen = TRUE /\ sent = <<>>
        /\ receiving = FALSE /\ calls = 0 /\ log = <<>>

PeerSends(frame) ==
  /\ peerOpen /\ Len(sent) < MaxFrames
  /\ sent' = Append(sent, frame)
  /\ wire' = wire \o frame
  /\ UNCHANGED <<peerOpen, receiving, calls, log>>

\* The connection ends, perhaps in the middle of a frame.
PeerCloses(frame) ==
  /\ peerOpen
  /\ peerOpen' = FALSE
  /\ wire' = wire \o SubSeq(frame, 1, Len(frame) - 1)
  /\ UNCHANGED <<sent, receiving, calls, log>>

Call ==
  /\ ~receiving /\ calls < MaxCalls
  /\ receiving' = TRUE
  /\ calls' = calls + 1
  /\ UNCHANGED <<wire, peerOpen, sent, log>>

Returns(value) == receiving' = FALSE /\ log' = Append(log, value)
Null == <<"null">>

\* mutant: a close is answered at its header
ConsumedUpToClose(h) == IF h.op = "close" THEN 1 ELSE 1 + h.len
\* The units a frame with an acceptable header takes.
Consumed(h) == 1 + h.len

Replies(h, payload) ==
  IF h.op = "ping" THEN Append(log, <<"pong", payload>>) ELSE log

\* One turn of ws_recv_frame's loop.
Turn ==
  /\ receiving
  /\ \/ /\ wire = <<>> /\ ~peerOpen                     \* read_exact fails
        /\ Returns(Null) /\ UNCHANGED wire
     \/ /\ wire # <<>> /\ wire[1].op = "refused"
        /\ Returns(Null) /\ wire' = Tail(wire)
     \/ /\ wire # <<>> /\ wire[1].op # "refused"
        /\ LET h == wire[1]
               payload == SubSeq(wire, 2, 1 + h.len)
           IN \/ /\ Len(wire) < 1 + h.len /\ ~peerOpen  \* the payload is cut
                 /\ Returns(Null) /\ wire' = <<>>
              \/ /\ Len(wire) >= 1 + h.len
                 /\ wire' = SubSeq(wire, Consumed(h) + 1, Len(wire))
                 /\ \/ /\ h.op \in {"ping", "pong"}
                       /\ log' = Replies(h, payload)
                       /\ UNCHANGED receiving
                    \/ /\ h.op = "ping" /\ ~peerOpen      \* write_all fails
                       /\ Returns(Null)
                    \/ /\ h.op = "close" \/ ~h.ok
                       /\ Returns(Null)
                    \/ /\ h.op \in {"text", "binary"} /\ h.ok
                       /\ Returns(<<"message", payload>>)
  /\ UNCHANGED <<peerOpen, sent, calls>>

Next == \/ \E f \in Frames : PeerSends(f) \/ PeerCloses(f)
        \/ Call \/ Turn

Spec == Init /\ [][Next]_wsVars

-----------------------------------------------------------------------------
TypeOK == /\ ToSet(wire) \subseteq Heads
          /\ calls \in 0 .. MaxCalls
          /\ ToSet(sent) \subseteq Frames

\* What a receiver owes the peer for one frame.
Owed(frame) ==
  LET h == frame[1] IN
  CASE h.op = "ping" -> <<<<"pong", Tail(frame)>>>>
    [] h.op = "pong" -> <<>>
    [] h.op \in {"text", "binary"} /\ h.ok -> <<<<"message", Tail(frame)>>>>
    [] OTHER -> <<Null>>

\* As long as no header is refused, the program sees the peer's messages, each
\* ping is answered and each close is told, in the order of the frames and
\* once; a ping that can no longer be answered is told as null in its place,
\* and after the end of the connection there is only null.
FramesComeInOrder ==
  (\A f \in ToSet(sent) : f[1].op # "refused") =>
    LET owed == FlattenSeq([i \in DOMAIN sent |-> Owed(sent[i])])
    IN \A i \in DOMAIN log :
         \/ i <= Len(owed) /\ log[i] = owed[i]
         \/ (i <= Len(owed) => owed[i][1] = "pong") /\ log[i] = Null /\ ~peerOpen

\* Messages are what the peer sent as messages, even after a refused frame.
\* Not so: what follows a refused header is read as the next header.
NothingIsInvented ==
  \A i \in DOMAIN log : log[i][1] = "message" =>
    \E f \in ToSet(sent) : f[1].op \in {"text", "binary"} /\ Tail(f) = log[i][2]
=============================================================================
