--------------------------- MODULE LanguageServer ---------------------------
(***************************************************************************)
(* The language server (lsp/server.rs): one thread that reads framed       *)
(* messages from its input in order, keeps an analysis per open document   *)
(* and the symbols of what the document imports, read from disk through a  *)
(* cache keyed by modification time.  Beside it an editor that sends       *)
(* messages without waiting and somebody who rewrites files.               *)
(***************************************************************************)
EXTENDS Naturals, Sequences, SequencesExt, FiniteSets

CONSTANTS
  Docs,         \* documents the editor may open
  Files,        \* files documents import from
  Imports,      \* Imports[f][v]: what version v of document or file f imports
  Missing,      \* <<f, v>>: as of version v file f is not there
  Budget,       \* files followed per document (32 in the code)
  MaxSent,      \* bound on the messages the editor sends
  MaxVersion    \* bound on the versions of a text

VARIABLES
  text,      \* the editor: version of every open document's text
  sent,      \* messages sent so far, and how far the server has read
  read,
  disk,      \* version of every file, which is its modification time too
  docs,      \* Server.docs: version of the analysed text, 0 when closed
  imported,  \* Server.doc_imports: what was gathered, and what was on disk meanwhile
  cache,     \* Server.import_cache: modification time and version read
  job,       \* the document being updated, or Idle
  shown,     \* diagnostics the editor shows: version they are about, 0 for none
  answers,   \* replies, in order
  status     \* "up", or how the process ended

vars == <<text, sent, read, disk, docs, imported, cache, job, shown, answers, status>>

Idle == [doc |-> "none"]
NotRead == [mtime |-> 0, version |-> 0]

Init ==
  /\ text = [d \in Docs |-> 0]
  /\ sent = <<>> /\ read = 0
  /\ disk = [f \in Files |-> 1]
  /\ docs = [d \in Docs |-> 0]
  /\ imported = [d \in Docs |-> [found |-> {}, truth |-> {}]]
  /\ cache = [f \in Files |-> NotRead]
  /\ job = Idle
  /\ shown = [d \in Docs |-> 0]
  /\ answers = <<>>
  /\ status = "up"

server == <<docs, imported, cache, job, shown, answers, status, read>>

-----------------------------------------------------------------------------
(* The editor and the disk. *)

Send(msg) == Len(sent) < MaxSent /\ sent' = Append(sent, msg)

\* didOpen and didChange carry the whole text.
Edit(d) ==
  /\ text[d] < MaxVersion
  /\ text' = [text EXCEPT ![d] = @ + 1]
  /\ Send([method |-> "update", doc |-> d, version |-> text[d] + 1])
  /\ UNCHANGED <<disk, server>>

\* A text opened again starts over.
Close(d) ==
  /\ text[d] > 0
  /\ text' = [text EXCEPT ![d] = 0]
  /\ Send([method |-> "didClose", doc |-> d, version |-> 0])
  /\ UNCHANGED <<disk, server>>

\* A request about a name, a request nobody implements, or the end.
Ask(msg) ==
  /\ Send(msg)
  /\ UNCHANGED <<text, disk, server>>

Requests ==
  [method : {"definition"}, doc : Docs, word : Files, version : {0}]
  \cup [method : {"unknown", "shutdown", "exit", "garbage", "eof"}, doc : {"none"}, version : {0}]

\* A file changes or goes away; its modification time changes with it.
Rewrite(f) ==
  /\ disk[f] < MaxVersion
  /\ disk' = [disk EXCEPT ![f] = @ + 1]
  /\ job' = IF job = Idle THEN job ELSE [job EXCEPT !.truth = @ \cup {<<f, disk'[f]>>}]
  /\ UNCHANGED <<text, sent, read, docs, imported, cache, shown, answers, status>>

-----------------------------------------------------------------------------
(* The server. *)

Mtime(f) == disk[f]
There(f) == <<f, disk[f]>> \notin Missing

\* mutant: the diagnostics of a closed document stay
DidCloseSilent(d) ==
  /\ docs' = [docs EXCEPT ![d] = 0]
  /\ UNCHANGED <<shown, imported, job, answers, status>>

DidClose(d) ==
  /\ docs' = [docs EXCEPT ![d] = 0]
  /\ shown' = [shown EXCEPT ![d] = 0]
  /\ UNCHANGED <<imported, job, answers, status>>

\* update_document: diagnostics go out before the imports are gathered.
Update(d, v) ==
  /\ shown' = [shown EXCEPT ![d] = v]
  /\ job' = [doc |-> d, version |-> v, queue |-> Imports[d][v], visited |-> {}, budget |-> Budget,
             found |-> {}, reading |-> NotRead, file |-> "none",
             truth |-> {<<f, disk[f]>> : f \in Files}]
  /\ UNCHANGED <<docs, imported, answers, status>>

\* mutant: doc_imports outlives the document, and is not asked about that
TargetOfClosed(msg) == {s \in imported[msg.doc].found : s[1] = msg.word}

\* definition, hover, completion ...: the document first, then its imports;
\* null when the document is not open.
Target(msg) ==
  IF docs[msg.doc] = 0 THEN {} ELSE {s \in imported[msg.doc].found : s[1] = msg.word}

Reply(result, about) ==
  /\ answers' = Append(answers, [to |-> read + 1, result |-> result, about |-> about])
  /\ UNCHANGED <<docs, imported, job, shown>>

\* run and handle: one message, as far as it goes without the disk.
Handle ==
  /\ status = "up" /\ job = Idle /\ read < Len(sent)
  /\ read' = read + 1
  /\ LET msg == sent[read + 1]
     IN \/ msg.method = "update" /\ Update(msg.doc, msg.version)
        \/ msg.method = "didClose" /\ DidClose(msg.doc)
        \/ /\ msg.method = "definition"
           /\ Reply(Target(msg), docs[msg.doc]) /\ UNCHANGED status
        \/ msg.method = "unknown" /\ Reply({}, 0) /\ UNCHANGED status
        \/ msg.method = "shutdown" /\ Reply({}, 0) /\ UNCHANGED status
        \/ /\ msg.method \in {"exit", "eof"}
           /\ status' = IF \E i \in 1 .. read : sent[i].method = "shutdown" THEN "ok" ELSE "failed"
           /\ UNCHANGED <<docs, imported, job, shown, answers>>
        \/ /\ msg.method = "garbage"
           /\ UNCHANGED <<docs, imported, job, shown, answers, status>>
  /\ UNCHANGED <<text, sent, disk, cache>>

\* Symbols of a file and what it imports in turn are taken up.
Follow(j, f, v) ==
  [j EXCEPT !.queue = @ \o Imports[f][v], !.found = @ \cup {<<f, v>>}, !.file = "none"]

Cached(f) == cache[f] # NotRead /\ cache[f].mtime = Mtime(f)

BudgetLeft == job.budget > 0

\* collect_import_symbols: the next path, its metadata, and the cache.
Visit ==
  /\ job # Idle /\ job.file = "none" /\ job.queue # <<>> /\ BudgetLeft
  /\ LET f == Last(job.queue)
         rest == [job EXCEPT !.queue = Front(@)]
         first == [rest EXCEPT !.visited = @ \cup {f}, !.budget = @ - 1]
     IN job' = IF f \in job.visited \/ ~There(f) THEN rest
               ELSE IF Cached(f) THEN Follow(first, f, cache[f].version)
               ELSE [first EXCEPT !.file = f, !.reading = [mtime |-> Mtime(f), version |-> 0]]
  /\ UNCHANGED <<text, sent, read, disk, docs, imported, cache, shown, answers, status>>

CacheEntry(f) == [mtime |-> job.reading.mtime, version |-> job.reading.version]

\* The text is read after its metadata, and cached under them.
Read ==
  /\ job # Idle /\ job.file # "none" /\ job.reading.version = 0
  /\ job' = IF There(job.file) THEN [job EXCEPT !.reading.version = disk[job.file]]
            ELSE [job EXCEPT !.file = "none"]
  /\ UNCHANGED <<text, sent, read, disk, docs, imported, cache, shown, answers, status>>

Scan ==
  /\ job # Idle /\ job.file # "none" /\ job.reading.version > 0
  /\ cache' = [cache EXCEPT ![job.file] = CacheEntry(job.file)]
  /\ job' = Follow(job, job.file, job.reading.version)
  /\ UNCHANGED <<text, sent, read, disk, docs, imported, shown, answers, status>>

\* mutant: only an empty queue ends it
GatheredAll == job.queue = <<>>

Gathered == job.queue = <<>> \/ job.budget = 0

Finish ==
  /\ job # Idle /\ job.file = "none" /\ Gathered
  /\ imported' = [imported EXCEPT ![job.doc] = [found |-> job.found, truth |-> job.truth]]
  /\ docs' = [docs EXCEPT ![job.doc] = job.version]
  /\ job' = Idle
  /\ UNCHANGED <<text, sent, read, disk, cache, shown, answers, status>>

Server == Handle \/ Visit \/ Read \/ Scan \/ Finish

Next ==
  \/ \E d \in Docs : Edit(d) \/ Close(d)
  \/ \E msg \in Requests : Ask(msg)
  \/ \E f \in Files : Rewrite(f)
  \/ Server

Spec == Init /\ [][Next]_vars /\ WF_vars(Server)

-----------------------------------------------------------------------------
(* Properties. *)

TypeOK ==
  /\ text \in [Docs -> 0 .. MaxVersion] /\ docs \in [Docs -> 0 .. MaxVersion]
  /\ disk \in [Files -> 1 .. MaxVersion] /\ shown \in [Docs -> 0 .. MaxVersion]
  /\ read \in 0 .. Len(sent) /\ status \in {"up", "ok", "failed"}
  /\ job # Idle => job.budget \in 0 .. Budget /\ job.visited \subseteq Files

\* What is cached under a file's modification time is what the file holds,
\* whenever it was rewritten between its metadata and its text being read.
CacheIsSound ==
  \A f \in Files : cache[f] # NotRead /\ cache[f].mtime = Mtime(f) => cache[f].version = disk[f]

\* What the server knows of a document's imports was on disk while the
\* document was last analysed: no version older than that, cached or not.
ImportsAreNoOlder == \A d \in Docs : imported[d].found \subseteq imported[d].truth

\* An answer is about the text the editor had when it asked, null when the
\* document was closed by then, and every request is answered in turn.
TextAt(i, d) ==
  LET about == {j \in 1 .. i : sent[j].method \in {"update", "didClose"} /\ sent[j].doc = d}
  IN IF about = {} THEN 0 ELSE sent[CHOOSE j \in about : \A k \in about : k <= j].version
AnswersFollowTheEditor ==
  \A n \in DOMAIN answers :
    LET i == answers[n].to
    IN /\ sent[i].method = "definition" => answers[n].about = TextAt(i, sent[i].doc)
       /\ n > 1 => answers[n - 1].to < i
       /\ answers[n].about = 0 => answers[n].result = {}

\* The server answers about the text the editor had when it asked, and knows of
\* a document's imports nothing older than the document's last analysis.
AnswersAreCurrent == AnswersFollowTheEditor /\ CacheIsSound /\ ImportsAreNoOlder

\* Once the server has read everything the editor shows the diagnostics of
\* the text it has, and none of a document that is closed.
DiagnosticsConverge ==
  status = "up" /\ job = Idle /\ read = Len(sent) => shown = text /\ docs = text

\* Every request is answered unless the server ends first.
EveryRequestIsAnswered ==
  \A i \in 1 .. MaxSent :
    (i <= Len(sent) /\ sent[i].method \in {"definition", "unknown", "shutdown"})
      ~> (status # "up" \/ \E n \in DOMAIN answers : answers[n].to = i)
=============================================================================
