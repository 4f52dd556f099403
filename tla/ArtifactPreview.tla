--------------------------- MODULE ArtifactPreview ---------------------------
(***************************************************************************)
(* An artifact on its way from the workspace of a run to the owner's       *)
(* screen: serveArtifact and openVerifiedFile (http.ts, verified-file.ts)  *)
(* copy its file chunk by chunk into a spool, compare the digest of what   *)
(* they copied with the row and stream the spool; openArtifact and         *)
(* closeArtifact (workspace-store.ts) ask for it, keep its bytes and show  *)
(* them, several requests being under way at a time.                       *)
(*                                                                         *)
(* The file can be rewritten, replaced or removed by the provider between  *)
(* any two reads.  A chunk is what the artifact's row speaks of ("own") or *)
(* something else; a file or a spool is one chunk after the other.         *)
(***************************************************************************)
EXTENDS Naturals, Sequences, FiniteSets

CONSTANTS
  Artifacts,
  Large,     \* artifacts that are only offered for download
  Requests,  \* content requests of the page that are under way at once
  Chunks,    \* chunks of a file
  None

ASSUME PreviewAssumption ==
  /\ Large \subseteq Artifacts /\ Chunks \in Nat \ {0}
  /\ None \notin Artifacts \cup Requests

VARIABLES
  file,    \* of each artifact, <<>> when it is missing, a link or of another size
  request,
  preview, \* what the page shows
  current, \* the request of the last openArtifact, unless something was opened or closed since
  cache,   \* the artifacts whose bytes the page keeps, with those bytes
  chosen   \* what the owner last opened and has not closed (history)

vars == <<file, request, preview, current, cache, chosen>>

Bytes  == [1..Chunks -> {"own", "other"}]
Partly == UNION {[1..n -> {"own", "other"}] : n \in 0..Chunks}
Own    == [i \in 1..Chunks |-> "own"]
Free   == [step |-> "free", art |-> None, opened |-> <<>>, spool |-> <<>>, sent |-> <<>>]
Closed == [status |-> "closed", art |-> None, text |-> <<>>]

TypeOK ==
  /\ file \in [Artifacts -> Bytes \cup {<<>>}]
  /\ request \in [Requests -> [step : {"free", "asked", "reading", "sending", "answered", "failed"},
                               art : Artifacts \cup {None}, opened : Bytes \cup {<<>>},
                               spool : Partly, sent : Partly]]
  /\ preview \in [status : {"closed", "loading", "ready", "error", "download_only"},
                  art : Artifacts \cup {None}, text : Partly]
  /\ current \in Requests \cup {None}
  /\ cache \in [Artifacts -> Partly]
  /\ chosen \in Artifacts \cup {None}

Init ==
  /\ file = [a \in Artifacts |-> Own]
  /\ request = [q \in Requests |-> Free]
  /\ preview = Closed /\ current = None
  /\ cache = [a \in Artifacts |-> <<>>]
  /\ chosen = None

page == <<preview, current, cache, chosen>>

-----------------------------------------------------------------------------
(* The daemon                                                              *)

\* Where a handler is through, and what the page is going to get from it
Through(q, step, sent) ==
  request' = [request EXCEPT ![q] = [step |-> step, art |-> request[q].art,
                                     opened |-> <<>>, spool |-> <<>>, sent |-> sent]]

\* Not found and not a file of the row's size: the conflict is answered
OpenFile(q) ==
  /\ request[q].step = "asked"
  /\ LET body == file[request[q].art]
     IN IF body = <<>>
        THEN Through(q, "failed", <<>>)
        ELSE request' = [request EXCEPT ![q].opened = body, ![q].step = "reading"]
  /\ UNCHANGED <<file, page>>

\* A chunk of the file that was opened, which is still the one in the workspace or not
Reads(q, i) ==
  {request[q].opened[i]} \cup
  IF file[request[q].art] = <<>> THEN {} ELSE {file[request[q].art][i]}

SpoolChunk(q) ==
  /\ request[q].step = "reading" /\ Len(request[q].spool) < Chunks
  /\ \E m \in Reads(q, Len(request[q].spool) + 1) :
        request' = [request EXCEPT ![q].spool = Append(@, m)]
  /\ UNCHANGED <<file, page>>

\* The digest of what was copied
Verify(q) ==
  /\ request[q].step = "reading" /\ Len(request[q].spool) = Chunks
  /\ IF request[q].spool = Own
     THEN request' = [request EXCEPT ![q].step = "sending"]
     ELSE Through(q, "failed", <<>>)
  /\ UNCHANGED <<file, page>>

\* Mutant: the file itself is streamed once it is verified
SendChunk_OfFile(q) ==
  /\ request[q].step = "sending" /\ Len(request[q].sent) < Chunks
  /\ \E m \in Reads(q, Len(request[q].sent) + 1) :
        request' = [request EXCEPT ![q].sent = Append(@, m)]
  /\ UNCHANGED <<file, page>>

SendChunk(q) ==
  /\ request[q].step = "sending" /\ Len(request[q].sent) < Chunks
  /\ request' = [request EXCEPT ![q].sent = Append(@, request[q].spool[Len(@) + 1])]
  /\ UNCHANGED <<file, page>>

SendEnds(q) ==
  /\ request[q].step = "sending" /\ Len(request[q].sent) = Chunks
  /\ Through(q, "answered", request[q].sent)
  /\ UNCHANGED <<file, page>>

\* An error of the copy, the session gone, the connection broken, the daemon stopped
RequestFails(q) ==
  /\ request[q].step \in {"asked", "reading", "sending"}
  /\ Through(q, "failed", <<>>)
  /\ UNCHANGED <<file, page>>

\* The provider rewrites, replaces, removes or restores the file (of an artifact the page asks for)
FileChanges(a) ==
  /\ a \notin Large
  /\ \E body \in Bytes \cup {<<>>} : body # file[a] /\ file' = [file EXCEPT ![a] = body]
  /\ UNCHANGED <<request, page>>

-----------------------------------------------------------------------------
(* The page                                                                *)

Shows(status, a, text) == preview' = [status |-> status, art |-> a, text |-> text]

\* openArtifact up to the request
OpenArtifact(a) ==
  /\ chosen' = a
  /\ \/ /\ a \in Large
        /\ Shows("download_only", a, <<>>) /\ current' = None /\ UNCHANGED request
     \/ /\ a \notin Large /\ cache[a] # <<>>
        /\ Shows("ready", a, cache[a]) /\ current' = None /\ UNCHANGED request
     \/ /\ a \notin Large /\ cache[a] = <<>>
        /\ Shows("loading", a, <<>>)
        /\ \E q \in Requests :
             /\ request[q].step = "free"
             /\ request' = [request EXCEPT ![q].step = "asked", ![q].art = a]
             /\ current' = q
  /\ UNCHANGED <<file, cache>>

\* Mutant: the generation is not compared
Receive_Any(q) ==
  /\ request[q].step = "answered"
  /\ Shows("ready", request[q].art, request[q].sent)
  /\ cache' = [cache EXCEPT ![request[q].art] = request[q].sent]
  /\ current' = None
  /\ request' = [request EXCEPT ![q] = Free]
  /\ UNCHANGED <<file, chosen>>

\* The bytes have arrived; they are dropped when the page has moved on
Receive(q) ==
  /\ request[q].step = "answered"
  /\ IF q = current
     THEN /\ Shows("ready", request[q].art, request[q].sent)
          /\ cache' = [cache EXCEPT ![request[q].art] = request[q].sent]
          /\ current' = None
     ELSE UNCHANGED <<preview, cache, current>>
  /\ request' = [request EXCEPT ![q] = Free]
  /\ UNCHANGED <<file, chosen>>

\* Mutant: an answer without bytes is ignored
ReceiveError_Ignored(q) ==
  /\ request[q].step = "failed"
  /\ current' = IF q = current THEN None ELSE current
  /\ request' = [request EXCEPT ![q] = Free]
  /\ UNCHANGED <<file, preview, cache, chosen>>

ReceiveError(q) ==
  /\ request[q].step = "failed"
  /\ IF q = current
     THEN Shows("error", request[q].art, <<>>) /\ current' = None
     ELSE UNCHANGED <<preview, current>>
  /\ request' = [request EXCEPT ![q] = Free]
  /\ UNCHANGED <<file, cache, chosen>>

CloseArtifact ==
  /\ preview.status # "closed"
  /\ preview' = Closed /\ current' = None /\ chosen' = None
  /\ UNCHANGED <<file, request, cache>>

-----------------------------------------------------------------------------
Next ==
  \/ \E q \in Requests :
       \/ OpenFile(q) \/ SpoolChunk(q) \/ Verify(q) \/ SendChunk(q) \/ SendEnds(q)
       \/ RequestFails(q) \/ Receive(q) \/ ReceiveError(q)
  \/ \E a \in Artifacts : FileChanges(a) \/ OpenArtifact(a)
  \/ CloseArtifact

Spec == Init /\ [][Next]_vars

\* Handlers go on and the page takes what arrives; nothing has to fail and nobody to click.
Fairness ==
  \A q \in Requests :
    /\ WF_vars(OpenFile(q)) /\ WF_vars(SpoolChunk(q)) /\ WF_vars(Verify(q))
    /\ WF_vars(SendChunk(q)) /\ WF_vars(SendEnds(q))
    /\ WF_vars(Receive(q)) /\ WF_vars(ReceiveError(q))

FairSpec == Spec /\ Fairness

-----------------------------------------------------------------------------
(* Properties                                                              *)

\* Not a byte reaches the page that is not the committed artifact's, whatever happens to the
\* file while it is copied and after it was verified (verified-file.ts:84-111; http.ts:203-231).
ServedIsCommitted ==
  \A q \in Requests : \A i \in 1..Len(request[q].sent) : request[q].sent[i] = "own"

\* The text on the screen belongs to the artifact the owner opened last, and nothing comes
\* up after it was closed, in whichever order the answers arrive (workspace-store.ts:308-344).
ShownIsChosen ==
  /\ preview.art = chosen
  /\ preview.status = "ready" => preview.text = Own

\* No preview loads forever: an answer, with bytes or without, ends it, unless the owner does
\* by opening another one (workspace-store.ts:317-338).
PreviewSettles ==
  \A q \in Requests :
    current = q ~> (preview.status # "loading" \/ current \in Requests \ {q})

\* docs/runtime/client-state-ownership.md:11: the bytes of a preview are "discarded on close".
ClosedKeepsNothing ==
  preview.status = "closed" => \A a \in Artifacts : cache[a] = <<>>
=============================================================================
