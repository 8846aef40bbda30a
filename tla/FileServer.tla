----------------------------- MODULE FileServer -----------------------------
(***************************************************************************)
(* The file server (file_transfer/AsyncServer.hpp, FileManager.hpp): an    *)
(* accept loop and one coroutine per connection, which reads one HTTP      *)
(* request, answers it and ends.  Only one thread of the pool runs the     *)
(* io_context, so that what a coroutine does between two co_awaits is one  *)
(* step.  A file is sent in chunks that are read from the disk when they   *)
(* are due, so that an upload may fall between two of them.                *)
(***************************************************************************)
EXTENDS Integers, Sequences, SequencesExt

CONSTANTS
  Clients,       \* each makes one connection after the other, with one request each
  Directories,   \* the directories below res, as sequences of names
  InitialFiles,  \* the files below res and their contents
  Bodies,        \* what is uploaded; a content is a sequence of chunks
  Targets,       \* what is asked for: a path, and whether it ends in a slash
  UploadTargets, \* what is posted to, as paths
  SearchNames,   \* the names that begin with "search"
  MaxVersions,   \* bound: the contents a file has in the course of one download
  Absent         \* no such file

\* handle_upload: res/upload and the target, which is used as a file name.
UploadPath(target) == <<"upload">> \o target

Paths == DOMAIN InitialFiles \cup {UploadPath(u) : u \in UploadTargets}

\* What a file may hold.
Contents == Bodies \cup {InitialFiles[p] : p \in DOMAIN InitialFiles}

\* Chunks are strings.
ASSUME FileAssumption == Contents \subseteq Seq(STRING) /\ Absent \notin Contents

Requests ==
  [verb : {"get"}, target : Targets]
    \cup [verb : {"post"}, target : UploadTargets, body : Bodies] \cup [verb : {"other"}]

VARIABLES
  files,      \* the content of each path
  dirs,       \* the directories
  accepting,  \* the accept loop is running
  pc,         \* where the coroutine of each connection is
  response,   \* the response being sent
  sent,       \* the chunks of it that were sent
  held        \* history: what the file of a download has held, one after the other, since
              \* it was opened

vars == <<files, dirs, accepting, pc, response, sent, held>>

\* kind: "text" is a body in memory, "file" one that is read as it is sent.
Text(status) == [kind |-> "text", status |-> status, path |-> << >>, length |-> 1]

\* mutant: prepare_payload before open
FileBodyUnopened(path) ==
  [kind |-> "file", status |-> 200, path |-> path, length |-> 0]

FileBody(path) ==
  [kind |-> "file", status |-> 200, path |-> path, length |-> Len(files[path])]
NoResponse == [Text(0) EXCEPT !.kind = "none"]

\* The directory res/search, through which alone a search is reached, need not exist.
Init ==
  /\ files = [p \in Paths |-> IF p \in DOMAIN InitialFiles THEN InitialFiles[p] ELSE Absent]
  /\ dirs \in {Directories, Directories \cup {<<"search">>}}
  /\ accepting = TRUE
  /\ pc = [c \in Clients |-> "away"]
  /\ response = [c \in Clients |-> NoResponse]
  /\ sent = [c \in Clients |-> << >>]
  /\ held = [c \in Clients |-> << >>]

-----------------------------------------------------------------------------
(* The accept loop *)

Connect(c) ==
  /\ pc[c] = "away"
  /\ pc' = [pc EXCEPT ![c] = "connecting"]
  /\ UNCHANGED <<files, dirs, accepting, response, sent, held>>

\* The client has what it gets of its response, and is done with it.
Leave(c) ==
  /\ pc[c] \in {"sent", "broken"}
  /\ pc' = [pc EXCEPT ![c] = "away"]
  /\ response' = [response EXCEPT ![c] = NoResponse]
  /\ sent' = [sent EXCEPT ![c] = << >>]
  /\ held' = [held EXCEPT ![c] = << >>]
  /\ UNCHANGED <<files, dirs, accepting>>

\* The coroutine of the connection runs to its async_read at once.
Accept(c) ==
  /\ accepting
  /\ pc[c] = "connecting"
  /\ pc' = [pc EXCEPT ![c] = "reading"]
  /\ UNCHANGED <<files, dirs, accepting, response, sent, held>>

\* async_accept throws out of the while loop, and nobody catches it.
AcceptFails ==
  /\ accepting
  /\ accepting' = FALSE
  /\ UNCHANGED <<files, dirs, pc, response, sent, held>>

-----------------------------------------------------------------------------
(* One request *)

Exists(p) == p \in dirs \/ (p \in Paths /\ files[p] # Absent)

\* A file cannot be opened under a name that ends in a slash.
IsOpen(target) == Exists(target.path) /\ (target.slash => target.path \in dirs)

\* async_write: the response starts on its way.
Respond(c, r) ==
  /\ response' = [response EXCEPT ![c] = r]
  /\ pc' = [pc EXCEPT ![c] = "writing"]

NotFound(c, target) ==
  /\ ~IsOpen(target)
  /\ Respond(c, Text(404))
  /\ UNCHANGED held

\* The files of the directory, or those that were searched for.
DirectoryPage(c, target) ==
  /\ IsOpen(target) /\ target.path \in dirs
  /\ Respond(c, Text(200))
  /\ UNCHANGED held

SingleFile(c, target) ==
  /\ IsOpen(target) /\ target.path \notin dirs
  /\ Respond(c, FileBody(target.path))
  /\ held' = [held EXCEPT ![c] = <<files[target.path]>>]

\* starts_with("/search"): whatever follows, the path is cut to /search.
IsSearch(target) == target.path # << >> /\ Head(target.path) \in SearchNames
NewPath(target)  == IF IsSearch(target) THEN [path |-> <<"search">>, slash |-> FALSE] ELSE target

handle_request(c, r) ==
  /\ r.verb = "get"
  /\ \/ NotFound(c, NewPath(r.target))
     \/ DirectoryPage(c, NewPath(r.target))
     \/ SingleFile(c, NewPath(r.target))
  /\ UNCHANGED files

Downloading(d, path) == pc[d] = "writing" /\ response[d].kind = "file" /\ response[d].path = path

\* ofstream: an existing file is emptied and written again; one that cannot be opened is
\* written to all the same.
handle_upload(c, r) ==
  LET path   == UploadPath(r.target)
      opened == Front(path) \in dirs /\ path \notin dirs
  IN
  /\ r.verb = "post"
  /\ \A d \in Clients : Downloading(d, path) => Len(held[d]) < MaxVersions
  /\ files' = IF opened THEN [files EXCEPT ![path] = r.body] ELSE files
  /\ held' = [d \in Clients |->
                IF opened /\ Downloading(d, path) THEN Append(held[d], r.body) ELSE held[d]]
  /\ Respond(c, Text(200))

\* mutant: no response to another method
MethodIgnored(c, r) ==
  /\ r.verb = "other"
  /\ pc' = [pc EXCEPT ![c] = "ignored"]
  /\ UNCHANGED <<response, files, held>>

MethodNotAllowed(c, r) ==
  /\ r.verb = "other"
  /\ Respond(c, Text(405))
  /\ UNCHANGED <<files, held>>

handle_connection(c) ==
  /\ pc[c] = "reading"
  /\ \E r \in Requests : handle_request(c, r) \/ handle_upload(c, r) \/ MethodNotAllowed(c, r)
  /\ UNCHANGED <<dirs, accepting, sent>>

\* A read or a write fails: the coroutine ends with the exception.
ConnectionFails(c) ==
  /\ pc[c] \in {"reading", "writing"}
  /\ pc' = [pc EXCEPT ![c] = "broken"]
  /\ UNCHANGED <<files, dirs, accepting, response, sent, held>>

-----------------------------------------------------------------------------
(* async_write: the body goes out chunk by chunk *)

Sending(c) == pc[c] = "writing" /\ Len(sent[c]) < response[c].length

Chunk(c) ==
  IF response[c].kind = "text" THEN "text" ELSE files[response[c].path][Len(sent[c]) + 1]

AtEof(c) ==
  response[c].kind = "file" /\ Len(sent[c]) >= Len(files[response[c].path])

SendChunk(c) ==
  /\ Sending(c)
  /\ ~AtEof(c)
  /\ sent' = [sent EXCEPT ![c] = Append(@, Chunk(c))]
  /\ UNCHANGED <<files, dirs, accepting, pc, response, held>>

\* The file has become shorter than the length that was announced.
ShortRead(c) ==
  /\ Sending(c)
  /\ AtEof(c)
  /\ pc' = [pc EXCEPT ![c] = "broken"]
  /\ UNCHANGED <<files, dirs, accepting, response, sent, held>>

ResponseSent(c) ==
  /\ pc[c] = "writing"
  /\ Len(sent[c]) = response[c].length
  /\ pc' = [pc EXCEPT ![c] = "sent"]
  /\ UNCHANGED <<files, dirs, accepting, response, sent, held>>

-----------------------------------------------------------------------------
Next ==
  \/ AcceptFails
  \/ \E c \in Clients :
       \/ Connect(c) \/ Leave(c) \/ Accept(c) \/ handle_connection(c) \/ ConnectionFails(c)
       \/ SendChunk(c) \/ ShortRead(c) \/ ResponseSent(c)

Spec == Init /\ [][Next]_vars

(***************************************************************************)
(* The thread of the io_context keeps running what is ready, and a client  *)
(* that has connected sends its request and takes the response, or its     *)
(* connection fails.                                                       *)
(***************************************************************************)
Fairness ==
  \A c \in Clients :
    /\ WF_vars(Accept(c)) /\ WF_vars(handle_connection(c) \/ ConnectionFails(c))
    /\ WF_vars(SendChunk(c) \/ ShortRead(c) \/ ResponseSent(c))

FairSpec == Spec /\ Fairness

-----------------------------------------------------------------------------
(* Properties *)

(***************************************************************************)
(* What a client has of a download, complete or not, was in the file at    *)
(* those places, and later chunks are not of earlier versions, however     *)
(* many uploads replace the file between any two chunks; and a download    *)
(* that is complete is as long as the version that was opened.             *)
(***************************************************************************)
Versions(chunks, contents, version) ==
  \A i \in 1..Len(chunks) :
    /\ i <= Len(contents[version[i]]) /\ chunks[i] = contents[version[i]][i]
    /\ \A j \in 1..Len(chunks) : i <= j => version[i] <= version[j]

FromVersions(chunks, contents) ==
  \E version \in [1..Len(chunks) -> 1..Len(contents)] : Versions(chunks, contents, version)

DownloadInVersions ==
  \A c \in Clients :
    response[c].kind = "file" =>
      /\ FromVersions(sent[c], held[c])
      /\ pc[c] = "sent" => Len(sent[c]) = Len(held[c][1])

(***************************************************************************)
(* Every client that was accepted gets its response or sees its connection *)
(* fail, also when the accept loop dies of an error afterwards; and every  *)
(* client that connects is accepted unless it does.                        *)
(***************************************************************************)
EveryConnectionEnds ==
  \A c \in Clients :
    /\ pc[c] = "connecting" ~> pc[c] # "connecting" \/ ~accepting
    /\ pc[c] \in {"reading", "writing"} ~> pc[c] \in {"sent", "broken"}
=============================================================================
