------------------------ MODULE LanguageServerProofs ------------------------
(***************************************************************************)
(* What LanguageServer promises for any documents, files and imports, any  *)
(* number of messages and any order in which the editor sends, the server  *)
(* reads and the files change.                                             *)
(***************************************************************************)
EXTENDS LanguageServer, DataLemmas, SequenceTheorems, TLAPS

\* Documents and files have names, and their texts import files.
Workspace ==
  /\ "none" \notin Docs \cup Files
  /\ Budget \in Nat /\ MaxVersion \in Nat \ {0}
  /\ \A s \in Docs \cup Files, v \in 1 .. MaxVersion : Imports[s][v] \in Seq(Files)

Versions == 0 .. MaxVersion

Messages ==
  [method : {"update"}, doc : Docs, version : 1 .. MaxVersion]
  \cup [method : {"didClose"}, doc : Docs, version : {0}]
  \cup Requests

Readings == [mtime : Nat, version : Nat]
Found == SUBSET (Files \X Nat)

Jobs == [doc : Docs, version : 1 .. MaxVersion, queue : Seq(Files), visited : SUBSET Files,
         budget : 0 .. Budget, found : Found, reading : Readings,
         file : Files \cup {"none"}, truth : Found]

Answers == [to : Nat, result : Found, about : Versions]

Typed ==
  /\ text \in [Docs -> Versions] /\ docs \in [Docs -> Versions] /\ shown \in [Docs -> Versions]
  /\ disk \in [Files -> 1 .. MaxVersion]
  /\ sent \in Seq(Messages) /\ read \in 0 .. Len(sent)
  /\ cache \in [Files -> Readings]
  /\ imported \in [Docs -> [found : Found, truth : Found]]
  /\ job \in Jobs \cup {Idle}
  /\ answers \in Seq(Answers)
  /\ status \in {"up", "ok", "failed"}

\* A file's text is at least as new as the modification time it is kept under.
CacheInOrder ==
  \A f \in Files : cache[f].mtime <= cache[f].version /\ cache[f].version <= disk[f]

\* The job has seen what is on disk now, and took up nothing it did not see.
JobIsHonest ==
  job # Idle =>
    /\ job.found \subseteq job.truth
    /\ \A f \in Files : <<f, disk[f]>> \in job.truth
    /\ job.file # "none" =>
         /\ job.reading.mtime <= disk[job.file]
         /\ job.reading.version # 0 =>
              /\ job.reading.mtime <= job.reading.version
              /\ job.reading.version <= disk[job.file]
              /\ <<job.file, job.reading.version>> \in job.truth

\* The version of document d the first i messages of s leave it at.
About(s, i, d) == {j \in 1 .. i : s[j].method \in {"update", "didClose"} /\ s[j].doc = d}
LastVersion(s, about) ==
  IF about = {} THEN 0 ELSE s[CHOOSE j \in about : \A k \in about : k <= j].version
TextIn(s, i, d) == LastVersion(s, About(s, i, d))

\* Editor, analysis and diagnostics are each at the text their end of the
\* stream of messages says.
InStep ==
  /\ \A d \in Docs : text[d] = TextIn(sent, Len(sent), d)
  /\ \A d \in Docs : shown[d] = TextIn(sent, read, d)
  /\ \A d \in Docs : job.doc # d => docs[d] = TextIn(sent, read, d)
  /\ job # Idle => job.version = TextIn(sent, read, job.doc)

Answered ==
  \A n \in 1 .. Len(answers) :
    /\ answers[n].to \in 1 .. read
    /\ sent[answers[n].to].method = "definition" =>
         answers[n].about = TextIn(sent, answers[n].to, sent[answers[n].to].doc)
    /\ n > 1 => answers[n - 1].to < answers[n].to
    /\ answers[n].about = 0 => answers[n].result = {}

Inv == /\ Typed /\ CacheInOrder /\ JobIsHonest /\ InStep /\ Answered
       /\ \A d \in Docs : imported[d].found \subseteq imported[d].truth

-----------------------------------------------------------------------------
(* What TextIn makes of one more message.                                   *)

LEMMA LastIs ==
  ASSUME NEW n \in Nat, NEW S \in SUBSET (1 .. n), NEW x \in S, \A k \in S : k <= x
  PROVE  (CHOOSE j \in S : \A k \in S : k <= j) = x
<1> DEFINE y == CHOOSE j \in S : \A k \in S : k <= j
<1>1. y \in S /\ \A k \in S : k <= y
  OBVIOUS
<1> HIDE DEF y
<1>2. y <= x /\ x <= y /\ x \in Nat /\ y \in Nat
  BY <1>1
<1>3. QED
  BY <1>2 DEF y

LEMMA TextAtStart ==
  ASSUME NEW s, NEW d
  PROVE  TextIn(s, 0, d) = 0
<1>1. About(s, 0, d) = {}
  BY DEF About
<1>2. QED
  BY <1>1 DEF TextIn, LastVersion

SamePrefix(s, t, i) == \A j \in 1 .. i : t[j] = s[j]

\* Messages later than the i-th make no difference.
LEMMA TextOfPrefix ==
  ASSUME NEW s, NEW t, NEW i \in Nat, NEW d, SamePrefix(s, t, i)
  PROVE  TextIn(t, i, d) = TextIn(s, i, d)
<1>1. About(t, i, d) = About(s, i, d)
  BY DEF About, SamePrefix
<1>2. CASE About(s, i, d) = {}
  BY <1>1, <1>2 DEF TextIn, LastVersion
<1>3. CASE About(s, i, d) # {}
  <2>1. About(s, i, d) \in SUBSET (1 .. i)
    BY DEF About
  <2>2. PICK x \in About(s, i, d) : \A k \in About(s, i, d) : k <= x
    BY <1>3, <2>1, Greatest
  <2>3. (CHOOSE j \in About(s, i, d) : \A k \in About(s, i, d) : k <= j) = x
    BY <2>1, <2>2, LastIs
  <2>4. TextIn(s, i, d) = s[x].version
    BY <1>3, <2>3 DEF TextIn, LastVersion
  <2>5. TextIn(t, i, d) = t[x].version
    BY <1>1, <1>3, <2>3 DEF TextIn, LastVersion
  <2>6. QED
    BY <2>1, <2>2, <2>4, <2>5 DEF SamePrefix
<1>4. QED
  BY <1>2, <1>3

Concerns(m, d) == m.method \in {"update", "didClose"} /\ m.doc = d

LEMMA TextOfNext ==
  ASSUME NEW s, NEW i \in Nat, NEW d
  PROVE  TextIn(s, i + 1, d) = IF Concerns(s[i + 1], d) THEN s[i + 1].version
                               ELSE TextIn(s, i, d)
<1>1. CASE Concerns(s[i + 1], d)
  <2>1. i + 1 \in About(s, i + 1, d) /\ About(s, i + 1, d) \in SUBSET (1 .. i + 1)
    BY <1>1 DEF About, Concerns
  <2>2. \A k \in About(s, i + 1, d) : k <= i + 1
    BY DEF About
  <2>3. (CHOOSE j \in About(s, i + 1, d) : \A k \in About(s, i + 1, d) : k <= j) = i + 1
    BY <2>1, <2>2, LastIs
  <2>4. QED
    BY <1>1, <2>1, <2>3 DEF TextIn, LastVersion
<1>2. CASE ~Concerns(s[i + 1], d)
  <2>1. About(s, i + 1, d) = About(s, i, d)
    BY <1>2 DEF About, Concerns
  <2>2. QED
    BY <1>2, <2>1 DEF TextIn
<1>3. QED
  BY <1>1, <1>2

-----------------------------------------------------------------------------
(* The editor and the disk.                                                 *)

\* What sending message m leaves as it was.
LEMMA Sending ==
  ASSUME Inv, NEW m \in Messages, sent' = Append(sent, m), UNCHANGED <<disk, server>>,
         text' \in [Docs -> Versions],
         \A d \in Docs : text'[d] = IF Concerns(m, d) THEN m.version ELSE text[d]
  PROVE  Inv'
<1>1. /\ sent \in Seq(Messages) /\ Len(sent) \in Nat
      /\ sent' \in Seq(Messages) /\ Len(sent') = Len(sent) + 1 /\ sent'[Len(sent) + 1] = m
      /\ \A j \in 1 .. Len(sent) : sent'[j] = sent[j]
      /\ read \in Nat /\ read <= Len(sent)
      /\ read' = read /\ docs' = docs /\ shown' = shown /\ job' = job /\ answers' = answers
      /\ cache' = cache /\ imported' = imported /\ status' = status /\ disk' = disk
  BY AppendProperties, LenProperties DEF Inv, Typed, server
<1>2. ASSUME NEW i \in 0 .. Len(sent), NEW d
      PROVE  TextIn(sent', i, d) = TextIn(sent, i, d)
  <2>1. i \in Nat /\ SamePrefix(sent, sent', i)
    BY <1>1 DEF SamePrefix
  <2>2. QED
    BY <2>1, TextOfPrefix
<1>3. Typed'
  BY <1>1 DEF Inv, Typed
<1>4. InStep'
  <2>1. ASSUME NEW d \in Docs
        PROVE  text'[d] = TextIn(sent', Len(sent'), d)
    <3>1. TextIn(sent', Len(sent) + 1, d) = IF Concerns(m, d) THEN m.version
                                            ELSE TextIn(sent', Len(sent), d)
      BY <1>1, TextOfNext
    <3>2. TextIn(sent', Len(sent), d) = text[d]
      BY <1>1, <1>2 DEF Inv, InStep
    <3>3. QED
      BY <1>1, <3>1, <3>2
  <2>2. \A d : TextIn(sent', read', d) = TextIn(sent, read, d)
    BY <1>1, <1>2
  <2>3. QED
    BY <1>1, <2>1, <2>2 DEF Inv, InStep
<1>5. Answered'
  <2>1. ASSUME NEW n \in 1 .. Len(answers)
        PROVE  /\ answers[n].to \in 1 .. read
               /\ sent'[answers[n].to].method = "definition" =>
                    answers[n].about = TextIn(sent', answers[n].to, sent'[answers[n].to].doc)
               /\ n > 1 => answers[n - 1].to < answers[n].to
               /\ answers[n].about = 0 => answers[n].result = {}
    <3>1. answers[n].to \in 1 .. read
      BY DEF Inv, Answered
    <3>2. answers[n].to \in 0 .. Len(sent) /\ answers[n].to \in 1 .. Len(sent)
      BY <1>1, <3>1
    <3>3. sent'[answers[n].to] = sent[answers[n].to]
      BY <1>1, <3>2
    <3>4. TextIn(sent', answers[n].to, sent[answers[n].to].doc)
            = TextIn(sent, answers[n].to, sent[answers[n].to].doc)
      BY <1>2, <3>2
    <3>5. QED
      BY <3>1, <3>3, <3>4 DEF Inv, Answered
  <2>2. QED
    BY <1>1, <2>1 DEF Answered
<1>6. QED
  BY <1>1, <1>3, <1>4, <1>5 DEF Inv, CacheInOrder, JobIsHonest

LEMMA EditorStep ==
  ASSUME Inv, Workspace, \/ \E d \in Docs : Edit(d) \/ Close(d)
                         \/ \E msg \in Requests : Ask(msg)
  PROVE  Inv'
<1>1. ASSUME NEW d \in Docs, Edit(d) PROVE Inv'
  <2>1. PICK m \in Messages : m = [method |-> "update", doc |-> d, version |-> text[d] + 1]
    BY <1>1 DEF Edit, Messages, Inv, Typed, Versions, Workspace
  <2>2. m.method = "update" /\ m.doc = d /\ m.version = text[d] + 1
    BY <2>1
  <2>3. sent' = Append(sent, m) /\ UNCHANGED <<disk, server>>
        /\ text' = [text EXCEPT ![d] = text[d] + 1] /\ text[d] < MaxVersion
    BY <1>1, <2>1 DEF Edit, Send
  <2>4. text' \in [Docs -> Versions]
    <3>1. text \in [Docs -> Versions] /\ MaxVersion \in Nat
      BY DEF Inv, Typed, Workspace
    <3>2. text[d] + 1 \in Versions
      BY <2>3, <3>1 DEF Versions
    <3>3. QED
      BY <2>3, <3>1, <3>2
  <2>5. \A e \in Docs : text'[e] = IF Concerns(m, e) THEN m.version ELSE text[e]
    BY <2>2, <2>3 DEF Concerns, Inv, Typed
  <2>6. QED
    BY <2>3, <2>4, <2>5, Sending
<1>2. ASSUME NEW d \in Docs, Close(d) PROVE Inv'
  <2>1. PICK m \in Messages : m = [method |-> "didClose", doc |-> d, version |-> 0]
    BY DEF Messages
  <2>2. m.method = "didClose" /\ m.doc = d /\ m.version = 0
    BY <2>1
  <2>3. sent' = Append(sent, m) /\ UNCHANGED <<disk, server>>
        /\ text' = [text EXCEPT ![d] = 0]
    BY <1>2, <2>1 DEF Close, Send
  <2>4. text' \in [Docs -> Versions]
    BY <2>3 DEF Inv, Typed, Versions, Workspace
  <2>5. \A e \in Docs : text'[e] = IF Concerns(m, e) THEN m.version ELSE text[e]
    BY <2>2, <2>3 DEF Concerns, Inv, Typed
  <2>6. QED
    BY <2>3, <2>4, <2>5, Sending
<1>3. ASSUME NEW msg \in Requests, Ask(msg) PROVE Inv'
  <2>1. msg \in Messages /\ \A e \in Docs : ~Concerns(msg, e)
    BY DEF Messages, Concerns, Requests
  <2>2. sent' = Append(sent, msg) /\ UNCHANGED <<text, disk, server>>
    BY <1>3 DEF Ask, Send
  <2>3. QED
    BY <2>1, <2>2, Sending DEF Inv, Typed
<1>4. QED
  BY <1>1, <1>2, <1>3

LEMMA JobFacts ==
  ASSUME Inv, Workspace, job # Idle
  PROVE  /\ job \in Jobs /\ job.found \subseteq job.truth
         /\ \A f \in Files : <<f, disk[f]>> \in job.truth
         /\ job.version = TextIn(sent, read, job.doc)
BY DEF Inv, Typed, JobIsHonest, InStep

LEMMA NotIdle ==
  ASSUME Workspace, NEW j \in Jobs
  PROVE  j # Idle /\ j.doc # "none"
BY DEF Workspace, Jobs, Idle

LEMMA RewriteStep ==
  ASSUME Inv, Workspace, NEW f \in Files, Rewrite(f)
  PROVE  Inv'
<1>1. /\ disk[f] < MaxVersion /\ disk' = [disk EXCEPT ![f] = disk[f] + 1]
      /\ UNCHANGED <<text, sent, read, docs, imported, cache, shown, answers, status>>
      /\ disk[f] \in Nat /\ disk' \in [Files -> 1 .. MaxVersion] /\ disk'[f] = disk[f] + 1
  BY DEF Rewrite, Inv, Typed, Workspace
<1>2. \A g \in Files : disk[g] \in Nat /\ disk'[g] \in Nat /\ disk[g] <= disk'[g]
  BY <1>1 DEF Inv, Typed
<1>3. CacheInOrder'
  BY <1>1, <1>2 DEF Inv, Typed, CacheInOrder, Readings
<1>4. CASE job = Idle
  <2>1. job' = Idle
    BY <1>4 DEF Rewrite
  <2>2. QED
    BY <1>1, <1>3, <1>4, <2>1 DEF Inv, Typed, JobIsHonest, InStep, Answered
<1>5. CASE job # Idle
  <2>1. job' = [job EXCEPT !.truth = job.truth \cup {<<f, disk'[f]>>}]
    BY <1>5 DEF Rewrite
  <2>2. job \in Jobs
    BY <1>5, JobFacts
  <2>3. /\ job' \in Jobs /\ job'.truth = job.truth \cup {<<f, disk'[f]>>}
        /\ job'.found = job.found /\ job'.file = job.file /\ job'.reading = job.reading
        /\ job'.doc = job.doc /\ job'.version = job.version
    BY <1>1, <2>1, <2>2 DEF Jobs, Found
  <2>4. JobIsHonest'
    <3>1. job'.found \subseteq job'.truth
      BY <1>5, <2>3, JobFacts
    <3>2. ASSUME NEW g \in Files PROVE <<g, disk'[g]>> \in job'.truth
      BY <1>1, <1>5, <2>3, <3>2, JobFacts DEF Inv, Typed
    <3>3. ASSUME job.file # "none"
          PROVE  /\ job.reading.mtime <= disk'[job.file]
                 /\ job.reading.version # 0 =>
                      /\ job.reading.mtime <= job.reading.version
                      /\ job.reading.version <= disk'[job.file]
                      /\ <<job.file, job.reading.version>> \in job'.truth
      <4>1. job.file \in Files /\ job.reading.mtime \in Nat /\ job.reading.version \in Nat
        BY <2>2, <3>3 DEF Jobs, Readings
      <4>2. QED
        BY <1>2, <1>5, <2>3, <3>3, <4>1 DEF Inv, JobIsHonest
    <3>4. QED
      BY <2>3, <3>1, <3>2, <3>3 DEF JobIsHonest
  <2>5. QED
    BY <1>1, <1>3, <1>5, <2>3, <2>4 DEF Inv, Typed, InStep, Answered
<1>6. QED
  BY <1>4, <1>5

-----------------------------------------------------------------------------
(* The server takes up a message.                                           *)

LEMMA Taken ==
  ASSUME Inv, Workspace, Handle
  PROVE  /\ status = "up" /\ job = Idle /\ read' = read + 1 /\ read + 1 \in 1 .. Len(sent)
         /\ read \in Nat /\ Len(sent) \in Nat
         /\ sent[read + 1] \in Messages
         /\ UNCHANGED <<text, sent, disk, cache>>
         /\ \A d : TextIn(sent, read + 1, d) = IF Concerns(sent[read + 1], d)
                                               THEN sent[read + 1].version
                                               ELSE TextIn(sent, read, d)
         /\ \A d \in Docs : docs[d] = TextIn(sent, read, d)
<1>1. /\ status = "up" /\ job = Idle /\ read' = read + 1 /\ read < Len(sent)
      /\ UNCHANGED <<text, sent, disk, cache>>
  BY DEF Handle
<1>2. sent \in Seq(Messages) /\ Len(sent) \in Nat /\ read \in Nat
  BY LenProperties DEF Inv, Typed
<1>3. read + 1 \in 1 .. Len(sent)
  BY <1>1, <1>2
<1>4. sent[read + 1] \in Messages
  BY <1>2, <1>3, ElementOfSeq
<1>5. \A d : TextIn(sent, read + 1, d) = IF Concerns(sent[read + 1], d)
                                         THEN sent[read + 1].version
                                         ELSE TextIn(sent, read, d)
  BY <1>2, TextOfNext
<1>6. \A d \in Docs : docs[d] = TextIn(sent, read, d)
  BY <1>1 DEF Inv, InStep, Idle, Workspace
<1>7. QED
  BY <1>1, <1>2, <1>3, <1>4, <1>5, <1>6

\* What stays while no reply is sent and no job begins.
LEMMA TakenQuietly ==
  ASSUME Inv, Workspace, Handle, UNCHANGED <<imported, job, answers>>,
         status' \in {"up", "ok", "failed"},
         docs' \in [Docs -> Versions], shown' \in [Docs -> Versions],
         \A d \in Docs : docs'[d] = TextIn(sent, read + 1, d) /\ shown'[d] = TextIn(sent, read + 1, d)
  PROVE  Inv'
<1>1. Typed'
  BY Taken DEF Inv, Typed
<1>2. InStep'
  BY Taken DEF Inv, InStep
<1>3. Answered'
  <2>1. \A i \in 1 .. read : i \in 1 .. read'
    BY Taken
  <2>2. answers' = answers /\ sent' = sent
    BY Taken
  <2>3. QED
    BY <2>1, <2>2 DEF Inv, Answered
<1>4. QED
  BY <1>1, <1>2, <1>3, Taken DEF Inv, CacheInOrder, JobIsHonest

LEMMA Updating ==
  ASSUME Inv, Workspace, Handle, NEW d \in Docs, NEW v \in 1 .. MaxVersion, Update(d, v),
         sent[read + 1].method = "update", sent[read + 1].doc = d, sent[read + 1].version = v
  PROVE  Inv'
<1>1. /\ shown' = [shown EXCEPT ![d] = v] /\ UNCHANGED <<docs, imported, answers, status>>
      /\ job' = [doc |-> d, version |-> v, queue |-> Imports[d][v], visited |-> {}, budget |-> Budget,
                 found |-> {}, reading |-> NotRead, file |-> "none",
                 truth |-> {<<f, disk[f]>> : f \in Files}]
  BY DEF Update
<1>2. job' \in Jobs
  <2>1. {<<f, disk[f]>> : f \in Files} \in Found /\ {} \in Found
    BY DEF Found, Inv, Typed, Workspace
  <2>2. Imports[d][v] \in Seq(Files) /\ NotRead \in Readings /\ Budget \in 0 .. Budget
    BY DEF Workspace, NotRead, Readings
  <2>3. QED
    BY <1>1, <2>1, <2>2 DEF Jobs
<1>3. /\ job'.doc = d /\ job'.version = v /\ job'.found = {} /\ job'.file = "none"
      /\ job'.truth = {<<f, disk[f]>> : f \in Files} /\ job' # Idle
  BY <1>1, <1>2, NotIdle
<1>4. Typed'
  BY <1>1, <1>2, Taken DEF Inv, Typed, Versions
<1>5. JobIsHonest'
  BY <1>3, Taken DEF JobIsHonest
<1>6. InStep'
  <2>1. \A e \in Docs : TextIn(sent, read + 1, e) = IF e = d THEN v ELSE TextIn(sent, read, e)
    BY Taken DEF Concerns
  <2>2. \A e \in Docs : shown'[e] = TextIn(sent, read + 1, e)
    BY <1>1, <2>1 DEF Inv, InStep, Typed
  <2>3. \A e \in Docs : e # d => docs'[e] = TextIn(sent, read + 1, e)
    BY <1>1, <2>1, Taken
  <2>4. job'.version = TextIn(sent, read + 1, job'.doc)
    BY <1>3, <2>1
  <2>5. QED
    BY <1>3, <2>2, <2>3, <2>4, Taken DEF Inv, InStep
<1>7. Answered'
  <2>1. \A i \in 1 .. read : i \in 1 .. read'
    BY Taken
  <2>2. answers' = answers /\ sent' = sent
    BY <1>1, Taken
  <2>3. QED
    BY <2>1, <2>2 DEF Inv, Answered
<1>8. QED
  BY <1>1, <1>4, <1>5, <1>6, <1>7, Taken DEF Inv, CacheInOrder

LEMMA Replying ==
  ASSUME Inv, Workspace, Handle, NEW result \in Found, NEW about \in Versions,
         Reply(result, about), UNCHANGED status,
         \A d : ~Concerns(sent[read + 1], d),
         sent[read + 1].method = "definition" =>
           about = TextIn(sent, read + 1, sent[read + 1].doc),
         about = 0 => result = {}
  PROVE  Inv'
<1> DEFINE r == [to |-> read + 1, result |-> result, about |-> about]
<1>1. answers' = Append(answers, r) /\ UNCHANGED <<docs, imported, job, shown>>
  BY DEF Reply
<1>2. r \in Answers /\ r.to = read + 1 /\ r.result = result /\ r.about = about
  BY Taken DEF Answers
<1> HIDE DEF r
<1>3. /\ answers' \in Seq(Answers) /\ Len(answers') = Len(answers) + 1 /\ Len(answers) \in Nat
      /\ answers'[Len(answers) + 1] = r
      /\ \A n \in 1 .. Len(answers) : answers'[n] = answers[n]
  BY <1>1, <1>2, AppendProperties, LenProperties DEF Inv, Typed
<1>4. Typed'
  BY <1>1, <1>3, Taken DEF Inv, Typed
<1>5. InStep'
  <2>1. \A d \in Docs : TextIn(sent, read + 1, d) = TextIn(sent, read, d)
    BY Taken
  <2>2. QED
    BY <1>1, <2>1, Taken DEF Inv, InStep
<1>6. Answered'
  <2>1. ASSUME NEW n \in 1 .. Len(answers')
        PROVE  /\ answers'[n].to \in 1 .. read + 1
               /\ sent[answers'[n].to].method = "definition" =>
                    answers'[n].about = TextIn(sent, answers'[n].to, sent[answers'[n].to].doc)
               /\ n > 1 => answers'[n - 1].to < answers'[n].to
               /\ answers'[n].about = 0 => answers'[n].result = {}
    <3>1. CASE n = Len(answers) + 1
      <4>1. answers'[n] = r /\ r.to \in 1 .. read + 1
        BY <1>2, <1>3, <3>1, Taken
      <4>2. n > 1 => answers'[n - 1].to < read + 1
        <5>1. SUFFICES ASSUME n > 1 PROVE answers'[n - 1].to < read + 1
          OBVIOUS
        <5>2. n - 1 \in 1 .. Len(answers)
          BY <1>3, <3>1, <5>1
        <5>3. answers'[n - 1].to \in 1 .. read
          BY <1>3, <5>2 DEF Inv, Answered
        <5>4. QED
          BY <5>3, Taken
      <4>3. QED
        BY <1>2, <4>1, <4>2
    <3>2. CASE n # Len(answers) + 1
      <4>1. n \in 1 .. Len(answers) /\ (n > 1 => n - 1 \in 1 .. Len(answers))
        BY <1>3, <2>1, <3>2
      <4>2. answers'[n] = answers[n] /\ (n > 1 => answers'[n - 1] = answers[n - 1])
        BY <1>3, <4>1
      <4>3. answers[n].to \in 1 .. read + 1
        BY <4>1, Taken DEF Inv, Answered
      <4>4. QED
        BY <4>1, <4>2, <4>3 DEF Inv, Answered
    <3>3. QED
      BY <3>1, <3>2
  <2>2. QED
    BY <2>1, Taken DEF Answered
<1>7. QED
  BY <1>1, <1>4, <1>5, <1>6, Taken DEF Inv, CacheInOrder, JobIsHonest

LEMMA HandleStep == ASSUME Inv, Workspace, Handle PROVE Inv'
<1> DEFINE m == sent[read + 1]
<1>1. m \in Messages
  BY Taken
<1>2. \/ m.method = "update" /\ Update(m.doc, m.version)
      \/ m.method = "didClose" /\ DidClose(m.doc)
      \/ m.method = "definition" /\ Reply(Target(m), docs[m.doc]) /\ UNCHANGED status
      \/ m.method \in {"unknown", "shutdown"} /\ Reply({}, 0) /\ UNCHANGED status
      \/ /\ m.method \in {"exit", "eof"} /\ status' \in {"ok", "failed"}
         /\ UNCHANGED <<docs, imported, job, shown, answers>>
      \/ /\ m.method = "garbage"
         /\ UNCHANGED <<docs, imported, job, shown, answers, status>>
  BY DEF Handle
<1>3. /\ m.method = "update" => m.doc \in Docs /\ m.version \in 1 .. MaxVersion
      /\ m.method = "didClose" => m.doc \in Docs /\ m.version = 0
      /\ m.method = "definition" => m.doc \in Docs
  BY <1>1 DEF Messages, Requests
<1> HIDE DEF m
<1>4. CASE m.method = "update" /\ Update(m.doc, m.version)
  BY <1>3, <1>4, Updating DEF m
<1>5. CASE m.method = "didClose" /\ DidClose(m.doc)
  <2>1. /\ docs' = [docs EXCEPT ![m.doc] = 0] /\ shown' = [shown EXCEPT ![m.doc] = 0]
        /\ UNCHANGED <<imported, job, answers, status>>
    BY <1>5 DEF DidClose
  <2>2. docs' \in [Docs -> Versions] /\ shown' \in [Docs -> Versions]
    <3>1. 0 \in Versions
      BY DEF Versions, Workspace
    <3>2. QED
      BY <2>1, <3>1 DEF Inv, Typed
  <2>3. \A d \in Docs : TextIn(sent, read + 1, d) = IF d = m.doc THEN 0 ELSE TextIn(sent, read, d)
    BY <1>3, <1>5, Taken DEF Concerns, m
  <2>4. \A d \in Docs : docs'[d] = TextIn(sent, read + 1, d) /\ shown'[d] = TextIn(sent, read + 1, d)
    BY <2>1, <2>3, Taken DEF Inv, Typed, InStep
  <2>5. status' \in {"up", "ok", "failed"}
    BY <2>1 DEF Inv, Typed
  <2>6. QED
    BY <2>1, <2>2, <2>4, <2>5, TakenQuietly
<1>6. CASE m.method = "definition" /\ Reply(Target(m), docs[m.doc]) /\ UNCHANGED status
  <2>1. \A d : ~Concerns(m, d)
    BY <1>6 DEF Concerns
  <2>2. docs[m.doc] = TextIn(sent, read + 1, m.doc) /\ docs[m.doc] \in Versions
    BY <1>3, <1>6, <2>1, Taken DEF Inv, Typed, m
  <2>3. Target(m) \in Found /\ (docs[m.doc] = 0 => Target(m) = {})
    BY <1>3, <1>6 DEF Target, Inv, Typed, Found
  <2>4. QED
    BY <1>6, <2>1, <2>2, <2>3, Replying DEF m
<1>7. CASE m.method \in {"unknown", "shutdown"} /\ Reply({}, 0) /\ UNCHANGED status
  <2>1. \A d : ~Concerns(m, d)
    BY <1>7 DEF Concerns
  <2>2. {} \in Found /\ 0 \in Versions
    BY DEF Found, Versions, Workspace
  <2>3. QED
    BY <1>7, <2>1, <2>2, Replying DEF m
<1>8. CASE /\ m.method \in {"exit", "eof", "garbage"} /\ status' \in {"up", "ok", "failed"}
           /\ UNCHANGED <<docs, imported, job, shown, answers>>
  <2>1. \A d \in Docs : TextIn(sent, read + 1, d) = TextIn(sent, read, d)
    BY <1>8, Taken DEF Concerns, m
  <2>2. \A d \in Docs : docs'[d] = TextIn(sent, read + 1, d) /\ shown'[d] = TextIn(sent, read + 1, d)
    BY <1>8, <2>1, Taken DEF Inv, InStep
  <2>3. docs' \in [Docs -> Versions] /\ shown' \in [Docs -> Versions]
    BY <1>8 DEF Inv, Typed
  <2>4. QED
    BY <1>8, <2>2, <2>3, TakenQuietly
<1>9. QED
  BY <1>2, <1>4, <1>5, <1>6, <1>7, <1>8 DEF Inv, Typed

-----------------------------------------------------------------------------
(* The server follows imports.                                              *)

\* What is left to show of a step of the job.
LEMMA JobMoves ==
  ASSUME Inv, Workspace, job # Idle, NEW j \in Jobs, job' = j, j.doc = job.doc,
         j.version = job.version,
         UNCHANGED <<text, sent, read, disk, docs, imported, shown, answers, status>>,
         cache' \in [Files -> Readings], CacheInOrder', JobIsHonest'
  PROVE  Inv'
<1>1. Typed'
  BY DEF Inv, Typed
<1>2. InStep'
  BY NotIdle DEF Inv, InStep
<1>3. Answered'
  BY DEF Inv, Answered
<1>4. QED
  BY <1>1, <1>2, <1>3 DEF Inv

LEMMA Following ==
  ASSUME Workspace, NEW j \in Jobs, NEW f \in Files, NEW v \in 1 .. MaxVersion,
         NEW k, k = Follow(j, f, v)
  PROVE  /\ k \in Jobs /\ k.found = j.found \cup {<<f, v>>} /\ k.file = "none"
         /\ k.doc = j.doc /\ k.version = j.version /\ k.truth = j.truth
<1>1. j.queue \in Seq(Files) /\ Imports[f][v] \in Seq(Files)
  BY DEF Jobs, Workspace
<1>2. j.queue \o Imports[f][v] \in Seq(Files)
  BY <1>1, ConcatProperties
<1>3. j.found \cup {<<f, v>>} \in Found
  BY DEF Jobs, Found
<1>4. k = [j EXCEPT !.queue = j.queue \o Imports[f][v], !.found = j.found \cup {<<f, v>>},
                    !.file = "none"]
  BY DEF Follow
<1>5. QED
  BY <1>2, <1>3, <1>4 DEF Jobs

LEMMA VisitStep == ASSUME Inv, Workspace, Visit PROVE Inv'
<1> DEFINE f == Last(job.queue)
           rest == [job EXCEPT !.queue = Front(job.queue)]
           first == [rest EXCEPT !.visited = rest.visited \cup {f}, !.budget = rest.budget - 1]
           going == [first EXCEPT !.file = f, !.reading = [mtime |-> disk[f], version |-> 0]]
<1>1. /\ job # Idle /\ job.file = "none" /\ job.queue # <<>> /\ job.budget > 0
      /\ job' = IF f \in job.visited \/ ~There(f) THEN rest
                ELSE IF Cached(f) THEN Follow(first, f, cache[f].version)
                ELSE going
      /\ UNCHANGED <<text, sent, read, disk, docs, imported, cache, shown, answers, status>>
  BY DEF Visit, Mtime, BudgetLeft
<1>2. /\ job \in Jobs /\ job.found \subseteq job.truth
      /\ \A g \in Files : <<g, disk[g]>> \in job.truth
  BY <1>1, JobFacts
<1>3. f \in Files /\ Front(job.queue) \in Seq(Files)
  BY <1>1, <1>2, LastIsIn, Popped DEF Jobs
<1>4. /\ rest \in Jobs /\ rest.found = job.found /\ rest.file = "none" /\ rest.doc = job.doc
      /\ rest.version = job.version /\ rest.truth = job.truth
      /\ rest.visited = job.visited /\ rest.budget = job.budget
  BY <1>1, <1>2, <1>3 DEF Jobs
<1>5. job.budget - 1 \in 0 .. Budget
  BY <1>1, <1>2 DEF Jobs, Workspace
<1> HIDE DEF f, rest
<1>6. /\ first \in Jobs /\ first.found = job.found /\ first.file = "none" /\ first.doc = job.doc
      /\ first.version = job.version /\ first.truth = job.truth
  BY <1>3, <1>4, <1>5 DEF Jobs
<1> HIDE DEF first
<1>7. cache' \in [Files -> Readings] /\ CacheInOrder'
  BY <1>1 DEF Inv, Typed, CacheInOrder
<1>8. CASE f \in job.visited \/ ~There(f)
  <2>1. job' = rest
    BY <1>1, <1>8
  <2>2. JobIsHonest'
    BY <1>1, <1>2, <1>4, <2>1 DEF JobIsHonest
  <2>3. QED
    BY <1>1, <1>4, <1>7, <2>1, <2>2, JobMoves
<1>9. CASE ~(f \in job.visited \/ ~There(f)) /\ Cached(f)
  <2>1. job' = Follow(first, f, cache[f].version)
    BY <1>1, <1>9
  <2>2. cache[f].version = disk[f] /\ disk[f] \in 1 .. MaxVersion
    <3>1. cache[f].mtime = disk[f] /\ disk[f] \in 1 .. MaxVersion
      BY <1>3, <1>9 DEF Cached, Mtime, Inv, Typed
    <3>2. cache[f].mtime <= cache[f].version /\ cache[f].version <= disk[f]
          /\ cache[f].version \in Nat
      BY <1>3 DEF Inv, Typed, CacheInOrder, Readings
    <3>3. QED
      BY <3>1, <3>2
  <2>3. /\ job' \in Jobs /\ job'.found = job.found \cup {<<f, disk[f]>>} /\ job'.file = "none"
        /\ job'.doc = job.doc /\ job'.version = job.version /\ job'.truth = job.truth
    BY <1>3, <1>6, <2>1, <2>2, Following
  <2>4. JobIsHonest'
    BY <1>1, <1>2, <1>3, <2>3 DEF JobIsHonest
  <2>5. QED
    BY <1>1, <1>7, <2>3, <2>4, JobMoves
<1>10. CASE ~(f \in job.visited \/ ~There(f)) /\ ~Cached(f)
  <2>1. job' = going
    BY <1>1, <1>10
  <2>2. disk[f] \in Nat
    BY <1>3 DEF Inv, Typed
  <2>3. /\ going \in Jobs /\ going.found = job.found /\ going.file = f /\ going.doc = job.doc
        /\ going.version = job.version /\ going.truth = job.truth
        /\ going.reading.mtime = disk[f] /\ going.reading.version = 0
    BY <1>3, <1>6, <2>2 DEF Jobs, Readings
  <2> HIDE DEF going
  <2>4. JobIsHonest'
    BY <1>1, <1>2, <2>1, <2>2, <2>3 DEF JobIsHonest
  <2>5. QED
    BY <1>1, <1>7, <2>1, <2>3, <2>4, JobMoves
<1>11. QED
  BY <1>8, <1>9, <1>10

LEMMA ReadStep == ASSUME Inv, Workspace, Read PROVE Inv'
<1>1. /\ job # Idle /\ job.file # "none" /\ job.reading.version = 0
      /\ job' = IF There(job.file) THEN [job EXCEPT !.reading.version = disk[job.file]]
                ELSE [job EXCEPT !.file = "none"]
      /\ UNCHANGED <<text, sent, read, disk, docs, imported, cache, shown, answers, status>>
  BY DEF Read
<1>2. /\ job \in Jobs /\ job.found \subseteq job.truth
      /\ \A g \in Files : <<g, disk[g]>> \in job.truth
  BY <1>1, JobFacts
<1>3. /\ job.file \in Files /\ disk[job.file] \in Nat /\ job.reading \in Readings
      /\ job.reading.mtime <= disk[job.file]
  BY <1>1, <1>2 DEF Jobs, Inv, Typed, JobIsHonest
<1>4. cache' \in [Files -> Readings] /\ CacheInOrder'
  BY <1>1 DEF Inv, Typed, CacheInOrder
<1>5. CASE There(job.file)
  <2> DEFINE j == [job EXCEPT !.reading.version = disk[job.file]]
  <2>1. job' = j
    BY <1>1, <1>5
  <2>2. /\ j \in Jobs /\ j.found = job.found /\ j.file = job.file /\ j.doc = job.doc
        /\ j.version = job.version /\ j.truth = job.truth
        /\ j.reading.mtime = job.reading.mtime /\ j.reading.version = disk[job.file]
    BY <1>2, <1>3 DEF Jobs, Readings
  <2> HIDE DEF j
  <2>3. JobIsHonest'
    BY <1>1, <1>2, <1>3, <2>1, <2>2 DEF JobIsHonest
  <2>4. QED
    BY <1>1, <1>4, <2>1, <2>2, <2>3, JobMoves
<1>6. CASE ~There(job.file)
  <2> DEFINE j == [job EXCEPT !.file = "none"]
  <2>1. job' = j
    BY <1>1, <1>6
  <2>2. /\ j \in Jobs /\ j.found = job.found /\ j.file = "none" /\ j.doc = job.doc
        /\ j.version = job.version /\ j.truth = job.truth
    BY <1>2 DEF Jobs
  <2> HIDE DEF j
  <2>3. JobIsHonest'
    BY <1>1, <1>2, <2>1, <2>2 DEF JobIsHonest
  <2>4. QED
    BY <1>1, <1>4, <2>1, <2>2, <2>3, JobMoves
<1>7. QED
  BY <1>5, <1>6

LEMMA ScanStep == ASSUME Inv, Workspace, Scan PROVE Inv'
<1>1. /\ job # Idle /\ job.file # "none" /\ job.reading.version > 0
      /\ cache' = [cache EXCEPT ![job.file] = CacheEntry(job.file)]
      /\ job' = Follow(job, job.file, job.reading.version)
      /\ UNCHANGED <<text, sent, read, disk, docs, imported, shown, answers, status>>
  BY DEF Scan
<1>2. /\ job \in Jobs /\ job.found \subseteq job.truth
      /\ \A g \in Files : <<g, disk[g]>> \in job.truth
  BY <1>1, JobFacts
<1>3. /\ job.file \in Files /\ disk[job.file] \in 1 .. MaxVersion
      /\ job.reading.mtime \in Nat /\ job.reading.version \in Nat
  BY <1>1, <1>2 DEF Jobs, Inv, Typed, Readings
<1>4. /\ job.reading.mtime <= job.reading.version
      /\ job.reading.version <= disk[job.file]
      /\ <<job.file, job.reading.version>> \in job.truth
  BY <1>1, <1>3 DEF Inv, JobIsHonest
<1>5. job.reading.version \in 1 .. MaxVersion
  BY <1>1, <1>3, <1>4 DEF Workspace
<1>6. /\ job' \in Jobs /\ job'.found = job.found \cup {<<job.file, job.reading.version>>}
      /\ job'.file = "none" /\ job'.doc = job.doc /\ job'.version = job.version
      /\ job'.truth = job.truth
  BY <1>1, <1>2, <1>3, <1>5, Following
<1>7. JobIsHonest'
  BY <1>1, <1>2, <1>4, <1>6 DEF JobIsHonest
<1>8. /\ CacheEntry(job.file) \in Readings
      /\ CacheEntry(job.file).mtime = job.reading.mtime
      /\ CacheEntry(job.file).version = job.reading.version
  BY <1>3 DEF CacheEntry, Readings
<1>9. cache' \in [Files -> Readings]
  BY <1>1, <1>8 DEF Inv, Typed
<1>10. CacheInOrder'
  BY <1>1, <1>3, <1>4, <1>8 DEF Inv, Typed, CacheInOrder
<1>11. QED
  BY <1>1, <1>6, <1>7, <1>9, <1>10, JobMoves

LEMMA FinishStep == ASSUME Inv, Workspace, Finish PROVE Inv'
<1>1. /\ job # Idle /\ job' = Idle
      /\ imported' = [imported EXCEPT ![job.doc] = [found |-> job.found, truth |-> job.truth]]
      /\ docs' = [docs EXCEPT ![job.doc] = job.version]
      /\ UNCHANGED <<text, sent, read, disk, cache, shown, answers, status>>
  BY DEF Finish
<1>2. /\ job \in Jobs /\ job.found \subseteq job.truth
      /\ job.version = TextIn(sent, read, job.doc)
  BY <1>1, JobFacts
<1>3. job.doc \in Docs /\ job.version \in Versions /\ job.found \in Found /\ job.truth \in Found
  BY <1>2 DEF Jobs, Versions
<1>4. Typed'
  BY <1>1, <1>3 DEF Inv, Typed
<1>5. InStep'
  <2>1. \A d \in Docs : docs'[d] = TextIn(sent, read, d)
    BY <1>1, <1>2, <1>3 DEF Inv, Typed, InStep
  <2>2. QED
    BY <1>1, <2>1 DEF Inv, InStep
<1>6. \A d \in Docs : imported'[d].found \subseteq imported'[d].truth
  BY <1>1, <1>2, <1>3 DEF Inv, Typed
<1>7. QED
  BY <1>1, <1>4, <1>5, <1>6 DEF Inv, CacheInOrder, JobIsHonest, Answered

-----------------------------------------------------------------------------
(* The invariant, and what follows from it.                                 *)

LEMMA InvInit == ASSUME Workspace PROVE Init => Inv
<1> SUFFICES ASSUME Init PROVE Inv
  OBVIOUS
<1>1. sent = <<>> /\ read = 0 /\ Len(sent) = 0 /\ answers = <<>> /\ Len(answers) = 0 /\ job = Idle
  BY DEF Init
<1>2. Typed
  BY <1>1 DEF Init, Typed, Versions, Workspace, NotRead, Readings, Found
<1>3. CacheInOrder
  BY <1>2 DEF Init, CacheInOrder, NotRead, Typed
<1>4. InStep
  BY <1>1, TextAtStart DEF Init, InStep
<1>5. QED
  BY <1>1, <1>2, <1>3, <1>4 DEF Init, Inv, JobIsHonest, Answered

LEMMA InvStep == ASSUME Workspace PROVE Inv /\ [Next]_vars => Inv'
<1> SUFFICES ASSUME Inv, [Next]_vars PROVE Inv'
  OBVIOUS
<1>1. CASE UNCHANGED vars
  BY <1>1 DEF vars, Inv, Typed, CacheInOrder, JobIsHonest, InStep, Answered
<1>2. QED
  BY <1>1, EditorStep, RewriteStep, HandleStep, VisitStep, ReadStep, ScanStep, FinishStep
     DEF Next, Server

LEMMA InvAlways == ASSUME Workspace PROVE Spec => []Inv
<1>1. Init => Inv
  BY InvInit
<1>2. Inv /\ [Next]_vars => Inv'
  BY InvStep
<1>3. QED
  BY <1>1, <1>2, PTL DEF Spec

\* Every state of the server is of the right type, whatever the documents
\* import and however many of them there are.
THEOREM TypeCorrect == ASSUME Workspace PROVE Spec => []TypeOK
<1>1. Inv => TypeOK
  BY DEF Inv, Typed, TypeOK, Versions, Jobs
<1>2. QED
  BY <1>1, InvAlways, PTL

\* An answer is about the text the editor had when it asked; no file's cached
\* text is older than the modification time it is found by, and nothing the
\* server knows of a document's imports is older than its last analysis, even
\* when files are rewritten between their metadata and their text being read.
THEOREM AnswersCurrent ==
  ASSUME Workspace
  PROVE  Spec => []AnswersAreCurrent
<1>1. Inv => AnswersFollowTheEditor
  <2> SUFFICES ASSUME Inv, NEW n \in DOMAIN answers
               PROVE  LET i == answers[n].to
                      IN /\ sent[i].method = "definition" =>
                              answers[n].about = TextAt(i, sent[i].doc)
                         /\ n > 1 => answers[n - 1].to < i
                         /\ answers[n].about = 0 => answers[n].result = {}
    BY DEF AnswersFollowTheEditor
  <2>1. \A i, d : TextAt(i, d) = TextIn(sent, i, d)
    BY DEF TextAt, TextIn, LastVersion, About
  <2>2. n \in 1 .. Len(answers)
    BY LenProperties DEF Inv, Typed
  <2>3. QED
    BY <2>1, <2>2 DEF Inv, Answered
<1>2. Inv => CacheIsSound
  <2> SUFFICES ASSUME Inv, NEW f \in Files, cache[f].mtime = Mtime(f)
               PROVE  cache[f].version = disk[f]
    BY DEF CacheIsSound
  <2>1. cache[f].mtime \in Nat /\ cache[f].version \in Nat /\ disk[f] \in Nat
    BY DEF Inv, Typed, Readings
  <2>2. QED
    BY <2>1 DEF Inv, CacheInOrder, Mtime
<1>3. Inv => ImportsAreNoOlder
  BY DEF Inv, ImportsAreNoOlder
<1>4. Inv => AnswersAreCurrent
  BY <1>1, <1>2, <1>3 DEF AnswersAreCurrent
<1>5. QED
  BY <1>4, InvAlways, PTL

\* Whenever the server has read everything, the editor shows the diagnostics
\* of the text it has, and none of a document that is closed.
THEOREM DiagnosticsAgree == ASSUME Workspace PROVE Spec => []DiagnosticsConverge
<1>1. Inv => DiagnosticsConverge
  <2> SUFFICES ASSUME Inv, job = Idle, read = Len(sent) PROVE shown = text /\ docs = text
    BY DEF DiagnosticsConverge
  <2>1. \A d \in Docs : text[d] = TextIn(sent, read, d) /\ shown[d] = text[d]
    BY DEF Inv, InStep
  <2>2. \A d \in Docs : docs[d] = text[d]
    BY <2>1 DEF Inv, InStep, Idle, Workspace
  <2>3. QED
    BY <2>1, <2>2 DEF Inv, Typed
<1>2. QED
  BY <1>1, InvAlways, PTL

=============================================================================
