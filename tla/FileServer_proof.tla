-------------------------- MODULE FileServer_proof --------------------------
(***************************************************************************)
(* Proofs about the file server, for any number of clients, any tree of    *)
(* directories and files and any requests, and, at the end, about the ids  *)
(* of generateUniqueId, for any data center and machine.                   *)
(***************************************************************************)
EXTENDS FileServer, SequenceTheorems, TLAPS

\* STRING, with the one chunk of a response that is in memory.
Strings == STRING \cup {"text"}

Places == {"away", "connecting", "reading", "writing", "sent", "broken"}

\* The disk and the connections have their types.
Shape ==
  /\ files \in [Paths -> Contents \cup {Absent}]
  /\ pc \in [Clients -> Places]
  /\ DOMAIN response = Clients
  /\ sent \in [Clients -> Seq(Strings)]
  /\ held \in [Clients -> Seq(Seq(Strings))]

\* Before the request is read nothing was sent, and there is no download.
Fresh(c) ==
  pc[c] \in {"away", "connecting", "reading"} => sent[c] = << >> /\ response[c].kind # "file"

\* No more is sent than was announced.
Measured(c) ==
  pc[c] \in {"writing", "sent"} =>
    /\ response[c].kind \in {"text", "file"}
    /\ response[c].length \in Nat /\ Len(sent[c]) <= response[c].length
    /\ pc[c] = "sent" => Len(sent[c]) = response[c].length

\* Every chunk was in one of the versions, the last of which is what the file holds; the
\* announced length is that of the first.
Copied(c) ==
  response[c].kind = "file" =>
    /\ response[c].path \in Paths /\ files[response[c].path] # Absent
    /\ Len(held[c]) >= 1
    /\ FromVersions(sent[c], held[c])
    /\ pc[c] \in {"writing", "sent"} => response[c].length = Len(held[c][1])
    /\ pc[c] = "writing" => files[response[c].path] = held[c][Len(held[c])]

Inv ==
  /\ Shape
  /\ \A c \in Clients : Fresh(c) /\ Measured(c) /\ Copied(c)

\* What files hold are sequences of strings.
LEMMA ContentIsSequence == Contents \subseteq Seq(Strings)
<1>1. ASSUME NEW s \in Seq(STRING) PROVE s \in Seq(Strings)
  BY DEF Strings
<1> QED
  BY <1>1, FileAssumption, Zenon

LEMMA InitInv == Init => Inv
<1> SUFFICES ASSUME Init PROVE Inv
  OBVIOUS
<1>1. files \in [Paths -> Contents \cup {Absent}]
  BY DEF Init, Contents
<1>2. Shape
  BY <1>1 DEF Init, Shape, Places
<1>3. ASSUME NEW c \in Clients PROVE Fresh(c) /\ Measured(c) /\ Copied(c)
  BY DEF Init, Fresh, Measured, Copied, NoResponse, Text
<1> QED
  BY <1>2, <1>3 DEF Inv

\* A step of one connection does not touch the others, as long as the disk is the same.
LEMMA OneMoves ==
  ASSUME Inv, NEW c \in Clients, Shape', UNCHANGED files,
         Fresh(c)', Measured(c)', Copied(c)',
         \A d \in Clients \ {c} :
           /\ pc'[d] = pc[d] /\ response'[d] = response[d] /\ sent'[d] = sent[d]
           /\ held'[d] = held[d]
  PROVE  Inv'
<1>1. ASSUME NEW d \in Clients \ {c} PROVE Fresh(d)' /\ Measured(d)' /\ Copied(d)'
  <2>1. Fresh(d) /\ Measured(d) /\ Copied(d)
    BY Zenon DEF Inv
  <2>2. Fresh(d)' /\ Measured(d)'
    BY <2>1, Zenon DEF Fresh, Measured
  <2>3. Copied(d)'
    BY <2>1, Zenon DEF Copied
  <2> QED
    BY <2>2, <2>3
<1> QED
  BY <1>1, Zenon DEF Inv

\* The steps that only move a connection on.
LEMMA PlaceInv ==
  ASSUME Inv, NEW c \in Clients,
         Connect(c) \/ Accept(c) \/ ConnectionFails(c) \/ ShortRead(c) \/ ResponseSent(c)
  PROVE  Inv'
<1>1. /\ UNCHANGED <<files, response, sent, held>>
      /\ \E p \in Places : pc' = [pc EXCEPT ![c] = p]
  BY DEF Connect, Accept, ConnectionFails, ShortRead, ResponseSent, Places
<1>2. /\ pc' \in [Clients -> Places] /\ \A d \in Clients \ {c} : pc'[d] = pc[d]
  BY <1>1 DEF Inv, Shape
<1>3. Shape'
  BY <1>1, <1>2, Zenon DEF Inv, Shape
<1>4. Fresh(c) /\ Measured(c) /\ Copied(c) /\ pc[c] \in Places
  BY DEF Inv, Shape
<1>5. \/ pc'[c] \in {"connecting", "reading"} /\ pc[c] \in {"away", "connecting"}
      \/ pc'[c] = "broken"
      \/ pc'[c] = "sent" /\ pc[c] = "writing" /\ Len(sent[c]) = response[c].length
  BY DEF Connect, Accept, ConnectionFails, ShortRead, ResponseSent, Inv, Shape
<1>6. Fresh(c)' /\ Measured(c)' /\ Copied(c)'
  <2>1. Fresh(c)'
    BY <1>1, <1>4, <1>5 DEF Fresh
  <2>2. Measured(c)'
    BY <1>1, <1>4, <1>5 DEF Measured
  <2>3. /\ pc'[c] # "writing"
        /\ pc'[c] = "sent" => pc[c] = "writing"
    BY <1>5
  <2>4. Copied(c)'
    BY <1>1, <1>4, <2>3, Zenon DEF Copied
  <2> QED
    BY <2>1, <2>2, <2>4
<1> QED
  BY <1>1, <1>2, <1>3, <1>6, OneMoves

LEMMA LeaveInv ==
  ASSUME Inv, NEW c \in Clients, Leave(c)
  PROVE  Inv'
<1>1. /\ UNCHANGED files
      /\ pc' = [pc EXCEPT ![c] = "away"] /\ response' = [response EXCEPT ![c] = NoResponse]
      /\ sent' = [sent EXCEPT ![c] = << >>] /\ held' = [held EXCEPT ![c] = << >>]
  BY DEF Leave
<1>2. Shape'
  BY <1>1 DEF Inv, Shape, Places
<1>3. pc'[c] = "away" /\ sent'[c] = << >> /\ response'[c] = NoResponse
  BY <1>1 DEF Inv, Shape
<1>4. Fresh(c)' /\ Measured(c)' /\ Copied(c)'
  BY <1>3 DEF Fresh, Measured, Copied, NoResponse, Text
<1> QED
  BY <1>1, <1>2, <1>4, OneMoves DEF Inv, Shape

\* A chunk that is sent is the next one of the latest version.
LEMMA SendChunkInv ==
  ASSUME Inv, NEW c \in Clients, SendChunk(c)
  PROVE  Inv'
<1>1. /\ UNCHANGED <<files, pc, response, held>>
      /\ sent' = [sent EXCEPT ![c] = Append(sent[c], Chunk(c))]
      /\ pc[c] = "writing" /\ Len(sent[c]) < response[c].length /\ ~AtEof(c)
  BY DEF SendChunk, Sending
<1> DEFINE n == Len(sent[c])
           last == Len(held[c])
<1>2. /\ sent[c] \in Seq(Strings) /\ n \in Nat /\ last \in Nat
      /\ Measured(c) /\ Copied(c)
  BY DEF Inv, Shape
<1>3. response[c].kind \in {"text", "file"} /\ response[c].length \in Nat
  BY <1>1, <1>2 DEF Measured
<1>4. ASSUME response[c].kind = "file"
      PROVE  /\ n + 1 <= Len(held[c][last]) /\ Chunk(c) = held[c][last][n + 1]
             /\ Chunk(c) \in Strings
  <2>1. /\ response[c].path \in Paths /\ files[response[c].path] # Absent
        /\ files[response[c].path] = held[c][last]
    BY <1>1, <1>2, <1>4, Zenon DEF Copied
  <2>2. held[c][last] \in Seq(Strings)
    BY <2>1, ContentIsSequence DEF Inv, Shape
  <2>3. n < Len(held[c][last]) /\ Len(held[c][last]) \in Nat
    BY <1>1, <1>2, <1>4, <2>1, <2>2 DEF AtEof
  <2>4. Chunk(c) = held[c][last][n + 1]
    BY <1>4, <2>1 DEF Chunk
  <2> QED
    BY <1>2, <2>2, <2>3, <2>4, ElementOfSeq
<1>5. Chunk(c) \in Strings
  BY <1>3, <1>4 DEF Chunk, Strings
<1>6. /\ sent' \in [Clients -> Seq(Strings)] /\ sent'[c] = Append(sent[c], Chunk(c))
      /\ \A d \in Clients \ {c} : sent'[d] = sent[d]
  BY <1>1, <1>2, <1>5 DEF Inv, Shape
<1>7. /\ Len(sent'[c]) = n + 1 /\ sent'[c][n + 1] = Chunk(c)
      /\ \A i \in 1..n : sent'[c][i] = sent[c][i]
  BY <1>2, <1>5, <1>6
<1>8. Shape'
  BY <1>1, <1>6, Zenon DEF Inv, Shape
<1>9. Fresh(c)' /\ Measured(c)'
  BY <1>1, <1>2, <1>3, <1>7 DEF Fresh, Measured
<1>10. Copied(c)'
  <2> SUFFICES ASSUME response[c].kind = "file"
               PROVE  FromVersions(sent'[c], held[c])
    BY <1>1, <1>2, Zenon DEF Copied
  <2>1. PICK f \in [1..n -> 1..last] : Versions(sent[c], held[c], f)
    BY <1>2, Zenon DEF Copied, FromVersions
  <2>2. last >= 1
    BY <1>2, Zenon DEF Copied
  <2> DEFINE g == [i \in 1..n + 1 |-> IF i <= n THEN f[i] ELSE last]
  <2>3. g \in [1..n + 1 -> 1..last]
    BY <1>2, <2>2
  <2>4. ASSUME NEW i \in 1..n + 1
        PROVE  /\ i <= Len(held[c][g[i]]) /\ sent'[c][i] = held[c][g[i]][i]
               /\ \A j \in 1..n + 1 : i <= j => g[i] <= g[j]
    <3>1. CASE i \in 1..n
      <4>1. i <= Len(held[c][f[i]]) /\ sent[c][i] = held[c][f[i]][i] /\ g[i] = f[i]
        BY <1>2, <2>1, <3>1 DEF Versions
      <4>2. ASSUME NEW j \in 1..n + 1, i <= j PROVE g[i] <= g[j]
        <5>1. CASE j \in 1..n
          BY <1>2, <2>1, <3>1, <4>2, <5>1 DEF Versions
        <5>2. CASE j = n + 1
          BY <1>2, <3>1, <5>2
        <5> QED
          BY <1>2, <5>1, <5>2
      <4> QED
        BY <1>7, <3>1, <4>1, <4>2
    <3>2. CASE i = n + 1
      <4>1. g[i] = last
        BY <1>2, <3>2
      <4>2. \A j \in 1..n + 1 : i <= j => g[j] = last
        BY <1>2, <3>2
      <4> QED
        BY <1>2, <1>4, <1>7, <3>2, <4>1, <4>2
    <3>3. i \in 1..n \/ i = n + 1
      BY <1>2, <2>4
    <3> HIDE DEF g
    <3> QED
      BY <3>1, <3>2, <3>3, Zenon
  <2> HIDE DEF g
  <2>5. Versions(sent'[c], held[c], g)
    BY <1>7, <2>4, Zenon DEF Versions
  <2>6. g \in [1..Len(sent'[c]) -> 1..Len(held[c])]
    BY <1>7, <2>3, Zenon
  <2> QED
    BY <2>5, <2>6, Zenon DEF FromVersions
<1> QED
  BY <1>1, <1>6, <1>8, <1>9, <1>10, OneMoves, Zenon

\* A response whose body is in memory goes out, and the disk is the same.
LEMMA TextInv ==
  ASSUME Inv, NEW c \in Clients, pc[c] = "reading", NEW status,
         Respond(c, Text(status)), UNCHANGED <<files, sent, held>>
  PROVE  Inv'
<1>1. /\ pc' = [pc EXCEPT ![c] = "writing"]
      /\ response' = [response EXCEPT ![c] = Text(status)]
  BY DEF Respond
<1>2. Shape'
  BY <1>1 DEF Inv, Shape, Places
<1>3. /\ pc'[c] = "writing" /\ response'[c] = Text(status) /\ Len(sent[c]) = 0
  BY <1>1 DEF Inv, Shape, Fresh
<1>4. response'[c].kind = "text" /\ response'[c].length = 1
  BY <1>3 DEF Text
<1>5. Fresh(c)' /\ Measured(c)' /\ Copied(c)'
  BY <1>3, <1>4 DEF Fresh, Measured, Copied
<1> QED
  BY <1>1, <1>2, <1>5, OneMoves DEF Inv, Shape

\* A download starts with nothing sent of what the file holds now.
LEMMA SingleFileInv ==
  ASSUME Inv, NEW c \in Clients, pc[c] = "reading", NEW target, SingleFile(c, target),
         UNCHANGED <<files, sent>>
  PROVE  Inv'
<1>1. /\ pc' = [pc EXCEPT ![c] = "writing"]
      /\ response' = [response EXCEPT ![c] = FileBody(target.path)]
      /\ held' = [held EXCEPT ![c] = <<files[target.path]>>]
      /\ target.path \in Paths /\ files[target.path] # Absent
  BY DEF SingleFile, Respond, IsOpen, Exists
<1>2. files[target.path] \in Seq(Strings) /\ Len(files[target.path]) \in Nat
  <2>1. files[target.path] \in Contents
    BY <1>1 DEF Inv, Shape
  <2> QED
    BY <2>1, ContentIsSequence
<1>3. Shape'
  BY <1>1, <1>2 DEF Inv, Shape, Places
<1>4. /\ pc'[c] = "writing" /\ response'[c] = FileBody(target.path)
      /\ sent[c] = << >> /\ Len(sent[c]) = 0 /\ held'[c] = <<files[target.path]>>
  BY <1>1 DEF Inv, Shape, Fresh
<1>5. /\ response'[c].kind = "file" /\ response'[c].path = target.path
      /\ response'[c].length = Len(files[target.path])
  BY <1>4 DEF FileBody
<1>6. Fresh(c)' /\ Measured(c)'
  BY <1>2, <1>4, <1>5 DEF Fresh, Measured
<1>7. Copied(c)'
  <2>1. Len(held'[c]) = 1 /\ held'[c][1] = files[target.path]
    BY <1>4
  <2>2. [i \in 1..0 |-> 1] \in [1..Len(sent[c]) -> 1..Len(held'[c])]
    BY <1>4
  <2>3. \A i \in 1..Len(sent[c]) : FALSE
    BY <1>4
  <2>4. FromVersions(sent[c], held'[c])
    BY <2>2, <2>3, Zenon DEF FromVersions, Versions
  <2>5. Len(held'[c]) >= 1 /\ held'[c][Len(held'[c])] = files[target.path]
    BY <2>1
  <2> QED
    BY <1>1, <1>4, <1>5, <2>1, <2>4, <2>5, Zenon DEF Copied
<1> QED
  BY <1>1, <1>3, <1>6, <1>7, OneMoves DEF Inv, Shape

\* An upload replaces a file: who is downloading it has one version more to read from.
LEMMA UploadInv ==
  ASSUME Inv, NEW c \in Clients, pc[c] = "reading", NEW r \in Requests, handle_upload(c, r),
         UNCHANGED sent
  PROVE  Inv'
<1> DEFINE path == UploadPath(r.target)
           opened == Front(path) \in dirs /\ path \notin dirs
<1>1. /\ files' = IF opened THEN [files EXCEPT ![path] = r.body] ELSE files
      /\ held' = [d \in Clients |->
                    IF opened /\ Downloading(d, path) THEN Append(held[d], r.body) ELSE held[d]]
      /\ pc' = [pc EXCEPT ![c] = "writing"]
      /\ response' = [response EXCEPT ![c] = Text(200)]
      /\ r.verb = "post"
  BY DEF handle_upload, Respond
<1>2. r.target \in UploadTargets /\ r.body \in Bodies
  BY <1>1 DEF Requests
<1>3. path \in Paths /\ r.body \in Contents /\ r.body # Absent
  BY <1>2, FileAssumption, Zenon DEF Paths, Contents
<1>4. r.body \in Seq(Strings)
  BY <1>3, ContentIsSequence
<1> HIDE DEF path, opened
<1>5. /\ files' \in [Paths -> Contents \cup {Absent}]
      /\ \A p \in Paths : files[p] # Absent => files'[p] # Absent
      /\ \A p \in Paths : p # path \/ ~opened => files'[p] = files[p]
      /\ opened => files'[path] = r.body
  BY <1>1, <1>3 DEF Inv, Shape
<1>6. /\ pc' \in [Clients -> Places] /\ pc'[c] = "writing"
      /\ response'[c] = Text(200) /\ DOMAIN response' = Clients
      /\ \A d \in Clients \ {c} : pc'[d] = pc[d] /\ response'[d] = response[d]
  BY <1>1 DEF Inv, Shape, Places
<1>7. ASSUME NEW d \in Clients
      PROVE  /\ held[d] \in Seq(Seq(Strings)) /\ held'[d] \in Seq(Seq(Strings))
             /\ opened /\ Downloading(d, path) => held'[d] = Append(held[d], r.body)
             /\ ~(opened /\ Downloading(d, path)) => held'[d] = held[d]
  BY <1>1, <1>4 DEF Inv, Shape
<1>8. Shape'
  <2>1. held' \in [Clients -> Seq(Seq(Strings))]
    BY <1>1, <1>7
  <2> QED
    BY <1>5, <1>6, <2>1, Zenon DEF Inv, Shape
<1>9. ASSUME NEW d \in Clients \ {c} PROVE Fresh(d)' /\ Measured(d)' /\ Copied(d)'
  <2>1. Fresh(d) /\ Measured(d) /\ Copied(d)
    BY DEF Inv
  <2>2. Fresh(d)'
    BY <1>6, <2>1 DEF Fresh
  <2>3. Measured(d)'
    BY <1>6, <2>1, Zenon DEF Measured
  <2>4. Copied(d)'
    <3> SUFFICES ASSUME response[d].kind = "file"
                 PROVE  Copied(d)'
      BY <1>6, Zenon DEF Copied
    <3>1. /\ response[d].path \in Paths /\ files[response[d].path] # Absent
          /\ Len(held[d]) >= 1
          /\ FromVersions(sent[d], held[d])
          /\ pc[d] \in {"writing", "sent"} => response[d].length = Len(held[d][1])
          /\ pc[d] = "writing" => files[response[d].path] = held[d][Len(held[d])]
      BY <2>1, Zenon DEF Copied
    <3>2. files'[response[d].path] # Absent
      BY <1>5, <3>1, Zenon
    <3>3. CASE ~(opened /\ Downloading(d, path))
      <4>1. held'[d] = held[d]
        BY <1>7, <3>3, Zenon
      <4>2. pc[d] = "writing" => files'[response[d].path] = files[response[d].path]
        BY <1>5, <3>1, <3>3, Zenon DEF Downloading
      <4> QED
        BY <1>6, <3>1, <3>2, <4>1, <4>2, Zenon DEF Copied
    <3>4. CASE opened /\ Downloading(d, path)
      <4>1. held'[d] = Append(held[d], r.body)
        BY <1>7, <3>4, Zenon
      <4> DEFINE n == Len(held[d])
      <4>2. /\ Len(held'[d]) = n + 1 /\ held'[d][n + 1] = r.body /\ n \in Nat /\ n >= 1
            /\ \A k \in 1..n : held'[d][k] = held[d][k]
        BY <1>4, <1>7, <3>1, <4>1
      <4>3. files'[response[d].path] = r.body
        BY <1>5, <3>4, Zenon DEF Downloading
      <4>4. PICK f \in [1..Len(sent[d]) -> 1..n] : Versions(sent[d], held[d], f)
        BY <3>1, Zenon DEF FromVersions
      <4>5. f \in [1..Len(sent[d]) -> 1..n + 1] /\ \A i \in 1..Len(sent[d]) : f[i] \in 1..n
        BY <4>2, <4>4
      <4>6. Versions(sent[d], held'[d], f)
        BY <4>2, <4>4, <4>5, Zenon DEF Versions
      <4>7. held'[d][1] = held[d][1] /\ Len(held'[d]) >= 1
        BY <4>2
      <4> HIDE DEF n
      <4>8. FromVersions(sent[d], held'[d])
        BY <4>2, <4>5, <4>6, Zenon DEF FromVersions
      <4>9. files'[response'[d].path] = held'[d][Len(held'[d])]
        BY <1>6, <4>2, <4>3, Zenon
      <4> QED
        BY <1>6, <3>1, <3>2, <4>7, <4>8, <4>9, Zenon DEF Copied
    <3> QED
      BY <3>3, <3>4
  <2> QED
    BY <2>2, <2>3, <2>4, Zenon
<1>10. Fresh(c)' /\ Measured(c)' /\ Copied(c)'
  <2>1. response'[c].kind = "text" /\ response'[c].length = 1 /\ Len(sent[c]) = 0
    BY <1>6 DEF Text, Inv, Fresh
  <2> QED
    BY <1>6, <2>1 DEF Fresh, Measured, Copied
<1> QED
  BY <1>8, <1>9, <1>10, Zenon DEF Inv

LEMMA ConnectionInv ==
  ASSUME Inv, NEW c \in Clients, handle_connection(c)
  PROVE  Inv'
<1>1. PICK r \in Requests : handle_request(c, r) \/ handle_upload(c, r) \/ MethodNotAllowed(c, r)
  BY DEF handle_connection
<1>2. pc[c] = "reading" /\ UNCHANGED sent
  BY DEF handle_connection
<1>3. CASE handle_upload(c, r)
  BY <1>2, <1>3, UploadInv
<1>4. CASE MethodNotAllowed(c, r)
  BY <1>2, <1>4, TextInv DEF MethodNotAllowed
<1>5. CASE handle_request(c, r)
  <2>1. UNCHANGED files
    BY <1>5 DEF handle_request
  <2>2. ASSUME NEW target, NotFound(c, target) PROVE Inv'
    BY <1>2, <2>1, <2>2, TextInv DEF NotFound
  <2>3. ASSUME NEW target, DirectoryPage(c, target) PROVE Inv'
    BY <1>2, <2>1, <2>3, TextInv DEF DirectoryPage
  <2>4. ASSUME NEW target, SingleFile(c, target) PROVE Inv'
    BY <1>2, <2>1, <2>4, SingleFileInv
  <2> QED
    BY <1>5, <2>2, <2>3, <2>4, Zenon DEF handle_request
<1> QED
  BY <1>1, <1>3, <1>4, <1>5

LEMMA AlwaysInv == Spec => []Inv
<1>1. Inv /\ [Next]_vars => Inv'
  <2> SUFFICES ASSUME Inv, [Next]_vars PROVE Inv'
    OBVIOUS
  <2>1. CASE AcceptFails \/ UNCHANGED vars
    <3>1. UNCHANGED <<files, pc, response, sent, held>>
      BY <2>1 DEF AcceptFails, vars
    <3>2. Shape'
      BY <3>1, Zenon DEF Inv, Shape
    <3>3. ASSUME NEW c \in Clients PROVE Fresh(c)' /\ Measured(c)' /\ Copied(c)'
      BY <3>1, Zenon DEF Inv, Fresh, Measured, Copied
    <3> QED
      BY <3>2, <3>3, Zenon DEF Inv
  <2> QED
    BY <2>1, PlaceInv, LeaveInv, SendChunkInv, ConnectionInv, Zenon DEF Next
<1> QED
  BY <1>1, InitInv, PTL DEF Spec

(***************************************************************************)
(* Whatever uploads replace its file between any two of its chunks, a      *)
(* download of FileManager consists of chunks that were in the file at     *)
(* their places, those of later versions after those of earlier ones, and  *)
(* if it is complete it has the length of the version that was opened.     *)
(***************************************************************************)
THEOREM DownloadInVersionsHolds == Spec => []DownloadInVersions
<1>1. ASSUME Inv PROVE DownloadInVersions
  <2> SUFFICES ASSUME NEW c \in Clients, response[c].kind = "file"
               PROVE  /\ FromVersions(sent[c], held[c])
                      /\ pc[c] = "sent" => Len(sent[c]) = Len(held[c][1])
    BY DEF DownloadInVersions
  <2>1. Measured(c) /\ Copied(c)
    BY <1>1, Zenon DEF Inv
  <2>2. pc[c] = "sent" => Len(sent[c]) = Len(held[c][1])
    BY <2>1 DEF Measured, Copied
  <2> QED
    BY <2>1, <2>2, Zenon DEF Copied
<1> QED
  BY <1>1, AlwaysInv, PTL

-----------------------------------------------------------------------------
(***************************************************************************)
(* generateUniqueId.  Its model shares nothing with the file server but    *)
(* the name of the variable pc, and no theorem is about both.              *)
(***************************************************************************)
CONSTANTS dataCenterId, machineId
VARIABLES clock, lastTimestamp_, sequence_, lastId, history

Ids == INSTANCE UniqueId

\* The clock of the model shows a time after the epoch, and so after 1970.
LEMMA ClockIsLate == Ids!epoch \in Nat /\ Ids!epoch > 0 /\ \A t \in Ids!Clock : t \in Int /\ t >= Ids!epoch
<1>1. Ids!epoch \in Nat /\ Ids!epoch > 0
  BY SMT DEF Ids!epoch
<1>2. Ids!MaxClock \in Int
  BY <1>1, SMT DEF Ids!MaxClock
<1> QED
  BY <1>1, <1>2, SMT DEF Ids!Clock

\* The ends of the range of sequence numbers, and what lies between.
LEMMA SequenceRange ==
  /\ 0 \in Ids!SequenceNumbers /\ Ids!sequenceMask \in Ids!SequenceNumbers
  /\ \A i \in Ids!SequenceNumbers : /\ i \in Int /\ i < i + 1
                                    /\ i < Ids!sequenceMask => i + 1 \in Ids!SequenceNumbers
<1>1. 0 \in Ids!SequenceNumbers /\ Ids!sequenceMask \in Ids!SequenceNumbers
  BY SMT DEF Ids!SequenceNumbers, Ids!sequenceMask
<1>2. ASSUME NEW i \in Ids!SequenceNumbers
      PROVE  i \in Int /\ i < i + 1 /\ (i < Ids!sequenceMask => i + 1 \in Ids!SequenceNumbers)
  BY SMT DEF Ids!SequenceNumbers, Ids!sequenceMask
<1> QED
  BY <1>1, <1>2, Zenon

\* While ids of a millisecond are left, the sequence does not wrap.
LEMMA SequenceAdvances ==
  ASSUME sequence_ \in Ids!SequenceNumbers
  PROVE  /\ Ids!NextInSequence # 0 => Ids!NextInSequence = sequence_ + 1 /\ sequence_ < Ids!sequenceMask
         /\ Ids!NextInSequence = 0 => sequence_ = Ids!sequenceMask
<1> USE DEF Ids!sequenceMask, Ids!SequenceNumbers
<1>1. sequence_ \in Int /\ 0 <= sequence_ /\ sequence_ <= Ids!sequenceMask
  BY SMT
<1>2. Ids!NextInSequence = (sequence_ + 1) % 4096
  BY SMT DEF Ids!NextInSequence
<1>3. CASE sequence_ = Ids!sequenceMask
  BY <1>1, <1>2, <1>3, SMT
<1>4. CASE sequence_ < Ids!sequenceMask
  <2>1. (sequence_ + 1) % 4096 = sequence_ + 1
    BY <1>1, <1>4, SMT
  <2> QED
    BY <1>1, <1>2, <1>4, <2>1, SMT
<1> QED
  BY <1>1, <1>3, <1>4, SMT

\* The ids of a machine are natural numbers.
LEMMA IdIsNumber ==
  ASSUME Ids!ValidIds, NEW t \in Ids!Clock, NEW i \in Ids!SequenceNumbers
  PROVE  Ids!Id(t, i) \in Nat
<1>1. t \in Int /\ Ids!epoch \in Int /\ t >= Ids!epoch
  BY ClockIsLate
<1>2. dataCenterId \in 0..31 /\ machineId \in 0..31
  BY DEF Ids!ValidIds, Ids!maxDataCenterId, Ids!maxMachineId
<1> QED
  BY <1>1, <1>2, SMT DEF Ids!Id, Ids!SequenceNumbers, Ids!sequenceMask

\* They grow with the time, and within a millisecond with the sequence.
LEMMA IdGrows ==
  ASSUME Ids!ValidIds, NEW t \in Ids!Clock, NEW u \in Ids!Clock,
         NEW i \in Ids!SequenceNumbers, NEW j \in Ids!SequenceNumbers,
         t < u \/ (t = u /\ i < j)
  PROVE  Ids!Id(t, i) < Ids!Id(u, j)
<1>1. t \in Int /\ u \in Int /\ Ids!epoch \in Int
  BY ClockIsLate
<1>2. dataCenterId \in Int /\ machineId \in Int
  BY SMT DEF Ids!ValidIds, Ids!maxDataCenterId, Ids!maxMachineId
<1> QED
  BY <1>1, <1>2, SMT DEF Ids!Id, Ids!SequenceNumbers, Ids!sequenceMask

\* The strengthened invariant of generateUniqueId is inductive.
THEOREM IdsInductive == Ids!Spec => []Ids!IInv
<1>1. Ids!Init => Ids!IInv
  BY ClockIsLate, SequenceRange, SMT DEF Ids!Init, Ids!IInv, Ids!TypeOK, Ids!LastIdStored, Ids!ClockAhead
<1>2. Ids!IInv /\ [Ids!Next]_(Ids!vars) => Ids!IInv'
  <2> SUFFICES ASSUME Ids!IInv, [Ids!Next]_(Ids!vars) PROVE Ids!IInv'
    OBVIOUS
  <2>0. clock \in Ids!Clock /\ sequence_ \in Ids!SequenceNumbers
    BY DEF Ids!IInv, Ids!TypeOK
  <2> USE DEF Ids!IInv, Ids!TypeOK, Ids!LastIdStored, Ids!ClockAhead
  <2>1. CASE Ids!SameMillisecond
    <3>1. Ids!NextInSequence = sequence_ + 1 /\ sequence_ < Ids!sequenceMask
      BY <2>1, SequenceAdvances DEF Ids!SameMillisecond
    <3>2. /\ Ids!ValidIds /\ clock' = clock /\ history' = history /\ pc' = "idle"
          /\ lastTimestamp_' = clock /\ sequence_' = sequence_ + 1
          /\ lastId' = Ids!Id(clock, sequence_ + 1)
      BY <2>1, <3>1 DEF Ids!SameMillisecond, Ids!Returns
    <3>3. sequence_ + 1 \in Ids!SequenceNumbers
      BY <2>0, <3>1, SequenceRange
    <3>4. Ids!Id(clock, sequence_ + 1) \in Nat
      BY <2>0, <3>2, <3>3, IdIsNumber, Zenon
    <3> QED
      BY <3>2, <3>3, <3>4, ClockIsLate, SMT DEF Ids!ValidIds, Ids!Id
  <2>2. CASE Ids!SequenceOverflows
    <3>1. sequence_ = Ids!sequenceMask
      BY <2>2, SequenceAdvances DEF Ids!SequenceOverflows
    <3>2. lastTimestamp_ # 0
      BY <2>2, ClockIsLate, SMT DEF Ids!SequenceOverflows
    <3> QED
      BY <2>2, <3>1, <3>2, SequenceRange, SMT DEF Ids!SequenceOverflows, Ids!ValidIds, Ids!Id
  <2>3. CASE Ids!NextMillisecondCame
    <3>1. Ids!ValidIds
      BY <2>3 DEF Ids!NextMillisecondCame
    <3>2. Ids!Id(clock, sequence_) \in Nat
      BY <2>0, <3>1, IdIsNumber, Zenon
    <3> QED
      BY <2>3, <3>1, <3>2, ClockIsLate, SMT DEF Ids!NextMillisecondCame, Ids!Returns, Ids!ValidIds, Ids!Id
  <2>4. CASE Ids!NewMillisecond
    <3>0. 0 \in Ids!SequenceNumbers
      BY SequenceRange
    <3>1. Ids!Id(clock, 0) \in Nat
      BY <2>0, <2>4, <3>0, IdIsNumber, Zenon DEF Ids!NewMillisecond
    <3> QED
      BY <2>4, <3>0, <3>1, ClockIsLate, SMT DEF Ids!NewMillisecond, Ids!Returns, Ids!ValidIds, Ids!Id
  <2>5. CASE Ids!ClockMoves
    BY <2>5, ClockIsLate, SMT DEF Ids!ClockMoves, Ids!ValidIds, Ids!Id
  <2>6. CASE UNCHANGED Ids!vars
    BY <2>6, SMT DEF Ids!vars, Ids!ValidIds, Ids!Id
  <2> QED
    BY <2>1, <2>2, <2>3, <2>4, <2>5, <2>6 DEF Ids!Next
<1> QED
  BY <1>1, <1>2, PTL DEF Ids!Spec

\* generateUniqueId never returns an id twice, nor a smaller one later.
THEOREM IdsIncreaseHolds == Ids!Spec => Ids!IdsIncrease
<1>1. Ids!IInv /\ [Ids!Next]_(Ids!vars) => [lastId < lastId' \/ history = "setBack"]_lastId
  <2> SUFFICES ASSUME Ids!IInv, Ids!Next, lastId' # lastId, history = "steady" PROVE lastId < lastId'
    BY DEF Ids!vars, Ids!IInv, Ids!TypeOK
  <2>0. clock \in Ids!Clock /\ sequence_ \in Ids!SequenceNumbers
    BY DEF Ids!IInv, Ids!TypeOK
  <2> USE DEF Ids!IInv, Ids!TypeOK, Ids!LastIdStored, Ids!ClockAhead
  <2>1. CASE Ids!SameMillisecond
    <3>0. Ids!NextInSequence = sequence_ + 1 /\ sequence_ < Ids!sequenceMask
      BY <2>1, SequenceAdvances DEF Ids!SameMillisecond
    <3>1. Ids!NextInSequence = sequence_ + 1 /\ sequence_ + 1 \in Ids!SequenceNumbers
      BY <2>0, <3>0, SequenceRange
    <3>2. lastTimestamp_ # 0
      BY <2>1, ClockIsLate, SMT DEF Ids!SameMillisecond
    <3>3. lastId = Ids!Id(clock, sequence_) /\ lastId' = Ids!Id(clock, sequence_ + 1) /\ Ids!ValidIds
      BY <2>1, <3>1, <3>2 DEF Ids!SameMillisecond, Ids!Returns
    <3>4. Ids!Id(clock, sequence_) < Ids!Id(clock, sequence_ + 1)
      <4>1. sequence_ < sequence_ + 1
        BY <2>0, SequenceRange
      <4> QED
        BY <2>0, <3>1, <3>3, <4>1, IdGrows, Zenon
    <3> QED
      BY <3>3, <3>4, Zenon
  <2>2. CASE Ids!NextMillisecondCame
    <3>1. /\ Ids!ValidIds /\ lastTimestamp_ \in Ids!Clock /\ clock > lastTimestamp_
          /\ lastId = Ids!Id(lastTimestamp_, Ids!sequenceMask) /\ lastId' = Ids!Id(clock, sequence_)
      BY <2>2 DEF Ids!NextMillisecondCame, Ids!Returns
    <3>2. lastTimestamp_ < clock /\ Ids!sequenceMask \in Ids!SequenceNumbers
      BY <2>0, <3>1, ClockIsLate, SequenceRange, SMT
    <3>3. Ids!Id(lastTimestamp_, Ids!sequenceMask) < Ids!Id(clock, sequence_)
      BY <2>0, <3>1, <3>2, IdGrows, Zenon
    <3> QED
      BY <3>1, <3>3, Zenon
  <2>3. CASE Ids!NewMillisecond
    <3>1. Ids!ValidIds /\ pc = "idle" /\ lastId' = Ids!Id(clock, 0) /\ clock # lastTimestamp_
      BY <2>3 DEF Ids!NewMillisecond, Ids!Returns
    <3>0. 0 \in Ids!SequenceNumbers
      BY SequenceRange
    <3>2. CASE lastTimestamp_ = 0
      <4>1. Ids!Id(clock, 0) \in Nat
        BY <2>0, <3>0, <3>1, IdIsNumber, Zenon
      <4>2. lastId = -1
        BY <3>2, ClockIsLate, SMT
      <4> QED
        BY <4>1, <4>2, <3>1, SMT
    <3>3. CASE lastTimestamp_ \in Ids!Clock
      <4>1. lastId = Ids!Id(lastTimestamp_, sequence_) /\ lastTimestamp_ < clock
        BY <3>1, <3>3, ClockIsLate, SMT
      <4>2. Ids!Id(lastTimestamp_, sequence_) < Ids!Id(clock, 0)
        BY <2>0, <3>0, <3>1, <3>3, <4>1, IdGrows, Zenon
      <4> QED
        BY <3>1, <4>1, <4>2, Zenon
    <3> QED
      BY <3>2, <3>3
  <2> QED
    BY <2>1, <2>2, <2>3 DEF Ids!Next, Ids!SequenceOverflows, Ids!ClockMoves
<1> QED
  BY <1>1, IdsInductive, PTL DEF Ids!Spec, Ids!IdsIncrease
=============================================================================
