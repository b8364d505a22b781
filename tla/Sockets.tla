------------------------------ MODULE Sockets ------------------------------
(***************************************************************************)
(* The Socket namespace over the SocketTable (handles.rs,                  *)
(* namespaces_socket.rs): listeners and connections in two maps that draw  *)
(* their ids from one counter, a peer at the other end of each connection, *)
(* and a kernel that queues connections for a listener.  Text is a         *)
(* sequence of bytes; "a" is a character by itself, "c1" "c2" are the two  *)
(* bytes of one.  A recv that nothing can answer waits, and what the peer  *)
(* wrote may arrive in pieces; any call may meet a broken connection.      *)
(***************************************************************************)
EXTENDS Integers, Sequences, FiniteSets, SequencesExt

CONSTANTS Ports,
          MaxIds,       \* bound: ids issued
          MaxBytes      \* bound: bytes in flight on a connection

Failed == <<>>          \* a catchable SocketError
Texts == {<<"a">>, <<"c1", "c2">>}

VARIABLES listeners,    \* id |-> port
          connections,  \* id |-> what the kernel holds for it
          next,         \* HandleAllocator.next
          backlog,      \* port |-> connections waiting for accept
          issued,       \* id |-> the kind it was issued as
          result        \* of the last call
socketVars == <<listeners, connections, next, backlog, issued, result>>

Ids == 0 .. MaxIds
\* A new connection: what the peer wrote and we have not read, whether it can
\* write more, all it wrote, all that recv returned, and after how many bytes a
\* recv ended within a character (ghost).
Fresh == [queue |-> <<>>, open |-> TRUE, wrote |-> <<>>, read |-> <<>>, cuts |-> {}]

Init == /\ listeners = <<>> /\ connections = <<>> /\ next = 1
        /\ backlog = [p \in Ports |-> 0]
        /\ issued = <<>>
        /\ result = Failed

IssueListener == next
IssueConnection == next

Add(map, id, value) == [i \in DOMAIN map \cup {id} |-> IF i = id THEN value ELSE map[i]]
Drop(map, id) == [i \in DOMAIN map \ {id} |-> map[i]]
Fail == result' = Failed /\ UNCHANGED <<listeners, connections, next, backlog, issued>>

Listen(port) ==
  \/ /\ \E l \in DOMAIN listeners : listeners[l] = port
     /\ Fail
  \/ /\ \A l \in DOMAIN listeners : listeners[l] # port
     /\ next <= MaxIds
     /\ LET id == IssueListener IN
        /\ listeners' = Add(listeners, id, port)
        /\ issued' = Add(issued, id, "listener")
        /\ result' = <<"id", id>>
     /\ next' = next + 1
     /\ UNCHANGED <<connections, backlog>>

AddConnection ==
  LET id == IssueConnection IN
  /\ connections' = Add(connections, id, Fresh)
  /\ issued' = Add(issued, id, "connection")
  /\ result' = <<"id", id>>
  /\ next' = next + 1
  /\ UNCHANGED listeners

\* To another program's port, or to one nobody listens on.
Connect ==
  \/ Fail
  \/ next <= MaxIds /\ AddConnection /\ UNCHANGED backlog

Accept(id) ==
  \/ id \notin DOMAIN listeners /\ Fail
  \/ /\ id \in DOMAIN listeners /\ backlog[listeners[id]] > 0 /\ next <= MaxIds
     /\ AddConnection
     /\ backlog' = [backlog EXCEPT ![listeners[id]] = @ - 1]

\* from_utf8_lossy: half a character becomes U+FFFD.
Replaced == "?"
Alone(bytes, i) == \/ bytes[i] = "c1" /\ (i = Len(bytes) \/ bytes[i + 1] # "c2")
                   \/ bytes[i] = "c2" /\ (i = 1 \/ bytes[i - 1] # "c1")
Decoded(bytes) == [i \in DOMAIN bytes |-> IF Alone(bytes, i) THEN Replaced ELSE bytes[i]]

Rest(queue, n) == SubSeq(queue, n + 1, Len(queue))

Smaller(a, b) == IF a <= b THEN a ELSE b
\* What one read can give: some of what is there, nothing only at the end of
\* the stream or when nothing is asked for.
ReadSizes(c, max) == IF max = 0 \/ (c.queue = <<>> /\ ~c.open) THEN {0}
                 ELSE 1 .. Smaller(max, Len(c.queue))
Recv(id, max) ==
  \/ Fail                                  \* no such connection, or read fails
  \/ /\ id \in DOMAIN connections
     /\ \E n \in ReadSizes(connections[id], max) :
          LET c == connections[id]
              text == Decoded(SubSeq(c.queue, 1, n))
          IN /\ connections' = [connections EXCEPT
                  ![id].queue = Rest(c.queue, n), ![id].read = c.read \o text,
                  ![id].cuts = IF n > 0 /\ c.queue[n] = "c1" THEN @ \cup {Len(c.read) + n} ELSE @]
             /\ result' = <<"text", text>>
     /\ UNCHANGED <<listeners, next, backlog, issued>>

Send(id) ==
  \/ Fail                                  \* no such connection, or write_all fails
  \/ /\ id \in DOMAIN connections
     /\ result' = <<"sent", id>>
     /\ UNCHANGED <<listeners, connections, next, backlog, issued>>

\* SocketTable::close: whichever map holds the id; the kernel drops what
\* waited for a closed listener.
CloseEither(id) ==
  /\ connections' = Drop(connections, id)
  /\ listeners' = Drop(listeners, id)
  /\ backlog' = IF id \in DOMAIN listeners THEN [backlog EXCEPT ![listeners[id]] = 0] ELSE backlog
Close(id) ==
  /\ CloseEither(id)
  /\ result' = <<"closed", id>>
  /\ UNCHANGED <<next, issued>>

\* The other end.
PeerConnects(port) ==
  /\ \E l \in DOMAIN listeners : listeners[l] = port
  /\ backlog[port] = 0
  /\ backlog' = [backlog EXCEPT ![port] = @ + 1]
  /\ UNCHANGED <<listeners, connections, next, issued, result>>
PeerWrites(id, text) ==
  /\ id \in DOMAIN connections /\ connections[id].open
  /\ Len(connections[id].wrote) + Len(text) <= MaxBytes
  /\ connections' = [connections EXCEPT ![id].queue = @ \o text, ![id].wrote = @ \o text]
  /\ UNCHANGED <<listeners, next, backlog, issued, result>>
PeerCloses(id) ==
  /\ id \in DOMAIN connections /\ connections[id].open
  /\ connections' = [connections EXCEPT ![id].open = FALSE]
  /\ UNCHANGED <<listeners, next, backlog, issued, result>>

Next == \/ \E p \in Ports : Listen(p) \/ PeerConnects(p)
        \/ Connect
        \/ \E id \in Ids : \/ Accept(id) \/ Send(id) \/ Close(id)
                           \/ \E max \in 0 .. 2 : Recv(id, max)
                           \/ \E t \in Texts : PeerWrites(id, t)
                           \/ PeerCloses(id)

Spec == Init /\ [][Next]_socketVars

-----------------------------------------------------------------------------
TypeOK == /\ next \in 1 .. MaxIds + 1
          /\ DOMAIN issued \subseteq 1 .. next - 1
          /\ \A p \in Ports : backlog[p] \in 0 .. 1

\* "They are never equal": no id names a connection at one time and a listener
\* at another, and no two live things at once, so what a program keeps in a
\* variable is what it was issued as or nothing.
KindsNeverMix ==
  /\ DOMAIN listeners \cap DOMAIN connections = {}
  /\ \A id \in DOMAIN listeners : issued[id] = "listener"
  /\ \A id \in DOMAIN connections : issued[id] = "connection"

\* Only an accept or a connect brings an id to life, and never an old one: a
\* closed id is refused from then on, by accept as well as by recv and send.
ClosedStaysClosed ==
  [][/\ \A id \in 1 .. next - 1 : id \notin DOMAIN connections \cup DOMAIN listeners
                                    => id \notin DOMAIN connections' \cup DOMAIN listeners'
     /\ result' # Failed /\ result'[1] = "closed" =>
          result'[2] \notin DOMAIN connections' \cup DOMAIN listeners']_socketVars

\* recv returns the peer's text in order and leaves the remainder queued; of a
\* character that no recv ended within nothing is lost, and one that was cut
\* is replaced in both its halves and takes no other with it.
CutAt(c, i) == {i - 1, i} \cap c.cuts # {}
TextComesInOrder ==
  \A id \in DOMAIN connections :
    LET c == connections[id] IN
    /\ Len(c.read) <= Len(c.wrote)
    /\ c.queue = Rest(c.wrote, Len(c.read))
    /\ \A i \in DOMAIN c.read : c.read[i] = IF CutAt(c, i) THEN Replaced ELSE c.wrote[i]
=============================================================================
