--------------------------- MODULE ArtifactProofs ----------------------------
(***************************************************************************)
(* The files of the runs, for any number of everything: first what the     *)
(* owner is shown of an artifact (ArtifactPreview), then the files that    *)
(* the daemon writes and reads itself (RunFiles).                          *)
(*                                                                         *)
(* `Honest' makes the first inductive: what a handler has verified or      *)
(* sent, what the page keeps and which artifact the current request is     *)
(* for.                                                                    *)
(***************************************************************************)
EXTENDS ArtifactPreview, RunFiles, TLAPS

OwnSoFar(text) == \A i \in 1..Len(text) : text[i] = "own"

Honest ==
  /\ \A q \in Requests :
       /\ request[q].step \in {"sending", "answered"} => OwnSoFar(request[q].sent)
       /\ request[q].step \notin {"sending", "answered"} => request[q].sent = <<>>
       /\ request[q].step = "sending" => request[q].spool = Own
       /\ request[q].step = "reading" => request[q].opened \in Bytes
       /\ request[q].step = "answered" => request[q].sent = Own
       /\ request[q].step # "free" => request[q].art \in Artifacts
  /\ \A a \in Artifacts : cache[a] \in {<<>>, Own}
  /\ current # None => current \in Requests /\ request[current].step # "free"
                       /\ request[current].art = chosen /\ preview.art = chosen

PreviewInv == TypeOK /\ Honest /\ ShownIsChosen

-----------------------------------------------------------------------------
(* Texts                                                                   *)

\* A text in the making is a sequence of no more than Chunks chunks, and conversely.
LEMMA PartlyIsSeq ==
  \A s : s \in Partly <=> s \in Seq({"own", "other"}) /\ Len(s) <= Chunks
<1>1. ASSUME NEW s \in Partly PROVE s \in Seq({"own", "other"}) /\ Len(s) <= Chunks
  <2>1. PICK n \in 0..Chunks : s \in [1..n -> {"own", "other"}]
    BY <1>1 DEF Partly
  <2> QED
    BY <2>1, PreviewAssumption
<1>2. ASSUME NEW s \in Seq({"own", "other"}), Len(s) <= Chunks PROVE s \in Partly
  <2>1. Len(s) \in 0..Chunks /\ s \in [1..Len(s) -> {"own", "other"}]
    BY <1>2, PreviewAssumption
  <2> QED
    BY <2>1 DEF Partly
<1> QED
  BY <1>1, <1>2

\* The whole text.
LEMMA OwnIsWhole ==
  /\ Own \in Bytes /\ Own \in Partly /\ <<>> \in Partly /\ Own # <<>>
  /\ Own \in Seq({"own", "other"}) /\ Len(Own) = Chunks /\ OwnSoFar(Own) /\ OwnSoFar(<<>>)
<1>1. Own \in Bytes /\ Own \in Seq({"own", "other"}) /\ Len(Own) = Chunks
  BY PreviewAssumption DEF Own, Bytes
<1>2. Own # <<>>
  BY <1>1, PreviewAssumption
<1>3. OwnSoFar(Own)
  <2>1. \A i \in 1..Chunks : Own[i] = "own"
    BY DEF Own
  <2> QED
    BY <1>1, <2>1 DEF OwnSoFar
<1>4. OwnSoFar(<<>>)
  <2>1. Len(<<>>) = 0 /\ 1..0 = {}
    OBVIOUS
  <2> QED
    BY <2>1 DEF OwnSoFar
<1>5. <<>> \in Seq({"own", "other"}) /\ Len(<<>>) <= Chunks
  BY PreviewAssumption
<1>6. Len(Own) <= Chunks
  BY <1>1, PreviewAssumption
<1>7. Own \in Partly /\ <<>> \in Partly
  BY <1>1, <1>5, <1>6, PartlyIsSeq, Zenon
<1> QED
  BY <1>1, <1>2, <1>3, <1>4, <1>7

\* A text of full length that is own so far is the whole text.
LEMMA FullIsOwn ==
  ASSUME NEW s \in Partly, Len(s) = Chunks, OwnSoFar(s)
  PROVE  s = Own
<1>1. s \in Seq({"own", "other"})
  BY PartlyIsSeq
<1> QED
  BY <1>1, PreviewAssumption DEF OwnSoFar, Own

\* One more chunk.
LEMMA AppendPartly ==
  ASSUME NEW s \in Partly, Len(s) < Chunks, NEW m \in {"own", "other"}
  PROVE  /\ Append(s, m) \in Partly
         /\ Append(s, m) # <<>>
         /\ OwnSoFar(s) /\ m = "own" => OwnSoFar(Append(s, m))
<1>1. s \in Seq({"own", "other"}) /\ Len(s) \in Nat
  BY PartlyIsSeq
<1>2. Append(s, m) \in Seq({"own", "other"}) /\ Len(Append(s, m)) <= Chunks
  BY <1>1, PreviewAssumption
<1>3. Append(s, m) \in Partly
  BY <1>2, PartlyIsSeq
<1>4. Len(Append(s, m)) = Len(s) + 1 /\ Append(s, m)[Len(s) + 1] = m
  BY <1>1
<1>5. \A i \in 1..Len(s) : Append(s, m)[i] = s[i]
  BY <1>1
<1>6. Append(s, m) # <<>>
  BY <1>1, <1>4
<1>7. ASSUME OwnSoFar(s), m = "own" PROVE OwnSoFar(Append(s, m))
  <2>1. \A i \in 1..(Len(s) + 1) : i \in 1..Len(s) \/ i = Len(s) + 1
    BY <1>1
  <2> QED
    BY <1>4, <1>5, <1>7, <2>1 DEF OwnSoFar
<1> QED
  BY <1>3, <1>6, <1>7

-----------------------------------------------------------------------------
(* The steps                                                               *)

RequestType ==
  [step : {"free", "asked", "reading", "sending", "answered", "failed"},
   art : Artifacts \cup {None}, opened : Bytes \cup {<<>>}, spool : Partly, sent : Partly]

\* What Honest says of one request
Fair(req) ==
  /\ req.step \in {"sending", "answered"} => OwnSoFar(req.sent)
  /\ req.step \notin {"sending", "answered"} => req.sent = <<>>
  /\ req.step = "sending" => req.spool = Own
  /\ req.step = "reading" => req.opened \in Bytes
  /\ req.step = "answered" => req.sent = Own
  /\ req.step # "free" => req.art \in Artifacts

LEMMA FreeIsFair == Free \in RequestType /\ Fair(Free)
BY OwnIsWhole DEF Free, RequestType, Fair

\* A handler's step leaves its request fair, in use and for the same artifact.
LEMMA HandlerStep ==
  ASSUME PreviewInv, NEW q \in Requests, NEW req \in RequestType, Fair(req),
         request[q].step # "free", req.step # "free", req.art = request[q].art,
         request' = [request EXCEPT ![q] = req], UNCHANGED <<file, page>>
  PROVE  PreviewInv'
BY DEF PreviewInv, TypeOK, Honest, ShownIsChosen, RequestType, Fair, page

\* A handler that gives up has sent nothing that counts.
LEMMA FailStep ==
  ASSUME PreviewInv, NEW q \in Requests, request[q].step # "free",
         Through(q, "failed", <<>>), UNCHANGED <<file, page>>
  PROVE  PreviewInv'
<1> DEFINE req == [step |-> "failed", art |-> request[q].art,
                   opened |-> <<>>, spool |-> <<>>, sent |-> <<>>]
<1>1. req \in RequestType /\ Fair(req) /\ req.step # "free" /\ req.art = request[q].art
  BY OwnIsWhole DEF RequestType, Fair, PreviewInv, TypeOK, Honest
<1>2. request' = [request EXCEPT ![q] = req]
  BY DEF Through
<1> QED
  BY <1>1, <1>2, HandlerStep

\* A handler that is through has sent the whole text.
LEMMA AnswerStep ==
  ASSUME PreviewInv, NEW q \in Requests, request[q].step # "free",
         Through(q, "answered", Own), UNCHANGED <<file, page>>
  PROVE  PreviewInv'
<1> DEFINE req == [step |-> "answered", art |-> request[q].art,
                   opened |-> <<>>, spool |-> <<>>, sent |-> Own]
<1>1. req \in RequestType /\ Fair(req) /\ req.step # "free" /\ req.art = request[q].art
  BY OwnIsWhole DEF RequestType, Fair, PreviewInv, TypeOK, Honest
<1>2. request' = [request EXCEPT ![q] = req]
  BY DEF Through
<1> QED
  BY <1>1, <1>2, HandlerStep

\* Every step keeps the invariant.
LEMMA PreviewStep == PreviewInv /\ [Next]_vars => PreviewInv'
<1> SUFFICES ASSUME PreviewInv, [Next]_vars PROVE PreviewInv'
  OBVIOUS
<1>t. \A q \in Requests : request[q] \in RequestType /\ Fair(request[q])
  BY DEF PreviewInv, TypeOK, Honest, RequestType, Fair
<1>1. ASSUME NEW q \in Requests, OpenFile(q) PROVE PreviewInv'
  <2>1. request[q].step = "asked" /\ request[q].art \in Artifacts
    BY <1>1, <1>t DEF OpenFile, Fair
  <2>2. CASE file[request[q].art] = <<>>
    <3>1. Through(q, "failed", <<>>) /\ UNCHANGED <<file, page>>
      BY <1>1, <2>2 DEF OpenFile
    <3> QED
      BY <2>1, <3>1, FailStep
  <2>3. CASE file[request[q].art] # <<>>
    <3> DEFINE req == [request[q] EXCEPT !.opened = file[request[q].art], !.step = "reading"]
    <3>1. req \in RequestType /\ Fair(req) /\ req.step # "free" /\ req.art = request[q].art
      BY <1>t, <2>1, <2>3 DEF RequestType, Fair, PreviewInv, TypeOK
    <3>2. request' = [request EXCEPT ![q] = req]
      BY <1>1, <2>3 DEF OpenFile, PreviewInv, TypeOK
    <3> QED
      BY <1>1, <2>1, <3>1, <3>2, HandlerStep DEF OpenFile
  <2> QED
    BY <2>2, <2>3
<1>2. ASSUME NEW q \in Requests, SpoolChunk(q) PROVE PreviewInv'
  <2>1. PICK m \in Reads(q, Len(request[q].spool) + 1) :
          request' = [request EXCEPT ![q].spool = Append(@, m)]
    BY <1>2 DEF SpoolChunk
  <2>2. /\ request[q].step = "reading" /\ Len(request[q].spool) < Chunks
        /\ request[q].opened \in Bytes /\ request[q].spool \in Partly
        /\ request[q].art \in Artifacts
    BY <1>2, <1>t DEF SpoolChunk, Fair, RequestType
  <2>3. Len(request[q].spool) + 1 \in 1..Chunks
    BY <2>2, PartlyIsSeq, PreviewAssumption
  <2>4. m \in {"own", "other"}
    <3>1. file[request[q].art] = <<>> \/ file[request[q].art] \in Bytes
      BY <2>2 DEF PreviewInv, TypeOK
    <3>2. \A b \in Bytes : b[Len(request[q].spool) + 1] \in {"own", "other"}
      BY <2>3 DEF Bytes
    <3> QED
      BY <2>1, <2>2, <3>1, <3>2 DEF Reads
  <2> DEFINE req == [request[q] EXCEPT !.spool = Append(request[q].spool, m)]
  <2>5. req \in RequestType /\ Fair(req) /\ req.step # "free" /\ req.art = request[q].art
    BY <1>t, <2>2, <2>4, AppendPartly DEF RequestType, Fair
  <2>6. request' = [request EXCEPT ![q] = req]
    BY <2>1 DEF PreviewInv, TypeOK
  <2> QED
    BY <1>2, <2>2, <2>5, <2>6, HandlerStep DEF SpoolChunk
<1>3. ASSUME NEW q \in Requests, Verify(q) PROVE PreviewInv'
  <2>1. request[q].step = "reading"
    BY <1>3 DEF Verify
  <2>2. CASE request[q].spool = Own
    <3> DEFINE req == [request[q] EXCEPT !.step = "sending"]
    <3>1. req \in RequestType /\ Fair(req) /\ req.step # "free" /\ req.art = request[q].art
      BY <1>t, <2>1, <2>2, OwnIsWhole DEF RequestType, Fair
    <3>2. request' = [request EXCEPT ![q] = req]
      BY <1>3, <2>2 DEF Verify, PreviewInv, TypeOK
    <3> QED
      BY <1>3, <2>1, <3>1, <3>2, HandlerStep DEF Verify
  <2>3. CASE request[q].spool # Own
    <3>1. Through(q, "failed", <<>>) /\ UNCHANGED <<file, page>>
      BY <1>3, <2>3 DEF Verify
    <3> QED
      BY <2>1, <3>1, FailStep
  <2> QED
    BY <2>2, <2>3
<1>4. ASSUME NEW q \in Requests, SendChunk(q) PROVE PreviewInv'
  <2>1. /\ request[q].step = "sending" /\ Len(request[q].sent) < Chunks
        /\ request[q].sent \in Partly /\ OwnSoFar(request[q].sent) /\ request[q].spool = Own
    BY <1>4, <1>t DEF SendChunk, Fair, RequestType
  <2>2. Len(request[q].sent) + 1 \in 1..Chunks
    BY <2>1, PartlyIsSeq, PreviewAssumption
  <2> DEFINE m == request[q].spool[Len(request[q].sent) + 1]
  <2>3. m = "own"
    BY <2>1, <2>2 DEF Own
  <2> DEFINE req == [request[q] EXCEPT !.sent = Append(request[q].sent, m)]
  <2>4. Append(request[q].sent, m) \in Partly /\ OwnSoFar(Append(request[q].sent, m))
    BY <2>1, <2>3, AppendPartly
  <2>5. req \in RequestType /\ Fair(req) /\ req.step # "free" /\ req.art = request[q].art
    BY <1>t, <2>1, <2>4 DEF RequestType, Fair
  <2>6. request' = [request EXCEPT ![q] = req]
    BY <1>4 DEF SendChunk, PreviewInv, TypeOK
  <2> QED
    BY <1>4, <2>1, <2>5, <2>6, HandlerStep DEF SendChunk
<1>5. ASSUME NEW q \in Requests, SendEnds(q) PROVE PreviewInv'
  <2>1. /\ request[q].step = "sending" /\ Len(request[q].sent) = Chunks
        /\ request[q].sent \in Partly /\ OwnSoFar(request[q].sent)
    BY <1>5, <1>t DEF SendEnds, Fair, RequestType
  <2>2. Through(q, "answered", Own) /\ UNCHANGED <<file, page>>
    BY <1>5, <2>1, FullIsOwn DEF SendEnds
  <2> QED
    BY <2>1, <2>2, AnswerStep
<1>6. ASSUME NEW q \in Requests, RequestFails(q) PROVE PreviewInv'
  <2>1. Through(q, "failed", <<>>) /\ UNCHANGED <<file, page>> /\ request[q].step # "free"
    BY <1>6 DEF RequestFails
  <2> QED
    BY <2>1, FailStep
<1>7. ASSUME NEW a \in Artifacts, FileChanges(a) PROVE PreviewInv'
  BY <1>7 DEF FileChanges, page, PreviewInv, TypeOK, Honest, ShownIsChosen
<1>8. ASSUME NEW a \in Artifacts, OpenArtifact(a) PROVE PreviewInv'
  <2>1. CASE UNCHANGED request
    <3>0. ~ \E q \in Requests :
              /\ request[q].step = "free"
              /\ request' = [request EXCEPT ![q].step = "asked", ![q].art = a]
      BY <2>1, <1>t DEF PreviewInv, TypeOK
    <3>1. chosen' = a /\ current' = None /\ UNCHANGED <<file, request, cache>>
      BY <1>8, <2>1, <3>0 DEF OpenArtifact
    <3>2. PICK status \in {"ready", "download_only"}, text \in {<<>>, Own} :
            /\ preview' = [status |-> status, art |-> a, text |-> text]
            /\ status = "ready" => text = Own
      <4>1. CASE Shows("download_only", a, <<>>)
        BY <4>1 DEF Shows
      <4>2. CASE cache[a] # <<>> /\ Shows("ready", a, cache[a])
        BY <4>2 DEF Shows, PreviewInv, Honest
      <4> QED
        BY <1>8, <3>0, <4>1, <4>2 DEF OpenArtifact
    <3>3. preview' \in [status : {"closed", "loading", "ready", "error", "download_only"},
                        art : Artifacts \cup {None}, text : Partly]
      BY <3>2, OwnIsWhole
    <3> QED
      BY <3>1, <3>2, <3>3 DEF PreviewInv, TypeOK, Honest, ShownIsChosen
  <2>2. CASE ~UNCHANGED request
    <3>1. PICK q \in Requests :
            /\ request[q].step = "free"
            /\ request' = [request EXCEPT ![q].step = "asked", ![q].art = a]
            /\ current' = q
      BY <1>8, <2>2 DEF OpenArtifact
    <3>2. Shows("loading", a, <<>>) /\ chosen' = a /\ UNCHANGED <<file, cache>>
      BY <1>8, <2>2 DEF OpenArtifact
    <3> QED
      <4>1. preview' = [status |-> "loading", art |-> a, text |-> <<>>]
        BY <3>2 DEF Shows
      <4>2. preview'.status # "ready" /\ preview'.art = a
        BY <4>1
      <4>3. TypeOK'
        <5>1. [request[q] EXCEPT !.step = "asked", !.art = a] \in RequestType
          BY <1>t DEF RequestType
        <5>2. request' \in [Requests -> RequestType]
          BY <3>1, <5>1, <1>t DEF PreviewInv, TypeOK
        <5>3. preview' \in [status : {"closed", "loading", "ready", "error", "download_only"},
                            art : Artifacts \cup {None}, text : Partly]
          BY <4>1, OwnIsWhole
        <5> QED
          BY <3>1, <3>2, <5>2, <5>3 DEF PreviewInv, TypeOK, RequestType
      <4>4. \A p \in Requests :
              /\ request'[p].step = IF p = q THEN "asked" ELSE request[p].step
              /\ request'[p].art = IF p = q THEN a ELSE request[p].art
              /\ request'[p].sent = request[p].sent
              /\ request'[p].spool = request[p].spool
              /\ request'[p].opened = request[p].opened
        BY <3>1 DEF PreviewInv, TypeOK
      <4>5. Honest'
        <5>1. request[q].sent = <<>> /\ request'[q].step = "asked" /\ request'[q].art = a
          BY <3>1, <4>4 DEF PreviewInv, Honest
        <5>2. current' = q /\ chosen' = a /\ preview'.art = a /\ UNCHANGED cache
          BY <3>1, <3>2, <4>2
        <5>3. ASSUME NEW p \in Requests PROVE Fair(request'[p])
          <6>1. CASE p = q
            BY <3>1, <4>4, <5>1, <6>1 DEF Fair
          <6>2. CASE p # q
            BY <4>4, <6>2, <1>t DEF Fair
          <6> QED BY <6>1, <6>2
        <5> QED
          BY <5>1, <5>2, <5>3 DEF PreviewInv, Honest, Fair
      <4> QED
        BY <3>2, <4>2, <4>3, <4>5 DEF PreviewInv, ShownIsChosen
  <2> QED
    BY <2>1, <2>2
<1>9. ASSUME NEW q \in Requests, Receive(q) PROVE PreviewInv'
  <2>1. request[q].sent = Own /\ request[q].art \in Artifacts
    BY <1>9, <1>t DEF Receive, Fair
  <2>2. request' = [request EXCEPT ![q] = Free] /\ UNCHANGED <<file, chosen>>
    BY <1>9 DEF Receive
  <2>3. CASE q = current
    <3>1. request[q].art = chosen
      BY <2>3, PreviewAssumption DEF PreviewInv, Honest
    <3>2. /\ Shows("ready", chosen, Own) /\ current' = None
          /\ cache' = [cache EXCEPT ![chosen] = Own]
      BY <1>9, <2>1, <2>3, <3>1 DEF Receive
    <3> QED
      BY <2>1, <2>2, <3>1, <3>2, FreeIsFair, OwnIsWhole
         DEF Shows, PreviewInv, TypeOK, Honest, ShownIsChosen, RequestType, Fair
  <2>4. CASE q # current
    <3>1. UNCHANGED <<preview, cache, current>>
      BY <1>9, <2>4 DEF Receive
    <3> QED
      BY <2>2, <2>4, <3>1, FreeIsFair
         DEF PreviewInv, TypeOK, Honest, ShownIsChosen, RequestType, Fair
  <2> QED
    BY <2>3, <2>4
<1>10. ASSUME NEW q \in Requests, ReceiveError(q) PROVE PreviewInv'
  <2>1. request[q].art \in Artifacts
    BY <1>10, <1>t DEF ReceiveError, Fair
  <2>2. request' = [request EXCEPT ![q] = Free] /\ UNCHANGED <<file, chosen, cache>>
    BY <1>10 DEF ReceiveError
  <2>3. CASE q = current
    <3>1. request[q].art = chosen
      BY <2>3, PreviewAssumption DEF PreviewInv, Honest
    <3>2. Shows("error", chosen, <<>>) /\ current' = None
      BY <1>10, <2>3, <3>1 DEF ReceiveError
    <3> QED
      BY <2>1, <2>2, <3>1, <3>2, FreeIsFair, OwnIsWhole
         DEF Shows, PreviewInv, TypeOK, Honest, ShownIsChosen, RequestType, Fair
  <2>4. CASE q # current
    <3>1. UNCHANGED <<preview, current>>
      BY <1>10, <2>4 DEF ReceiveError
    <3> QED
      BY <2>2, <2>4, <3>1, FreeIsFair
         DEF PreviewInv, TypeOK, Honest, ShownIsChosen, RequestType, Fair
  <2> QED
    BY <2>3, <2>4
<1>11. CASE CloseArtifact
  BY <1>11, OwnIsWhole DEF CloseArtifact, Closed, PreviewInv, TypeOK, Honest, ShownIsChosen
<1>12. CASE UNCHANGED vars
  BY <1>12 DEF vars, PreviewInv, TypeOK, Honest, ShownIsChosen
<1> QED
  BY <1>1, <1>2, <1>3, <1>4, <1>5, <1>6, <1>7, <1>8, <1>9, <1>10, <1>11, <1>12 DEF Next

LEMMA PreviewInit == Init => PreviewInv
BY FreeIsFair, OwnIsWhole
   DEF Init, Closed, Free, Fair, RequestType, PreviewInv, TypeOK, Honest, ShownIsChosen

\* The invariant holds of every behaviour.
LEMMA PreviewAlways == Spec => []PreviewInv
BY PreviewInit, PreviewStep, PTL DEF Spec

\* What an answer has sent is the committed artifact's, whatever its file became meanwhile.
THEOREM OnlyCommittedServed == Spec => []ServedIsCommitted
<1>1. PreviewInv => ServedIsCommitted
  <2>1. ASSUME NEW text, text = <<>> PROVE OwnSoFar(text)
    BY <2>1, OwnIsWhole
  <2> QED
    BY <2>1 DEF PreviewInv, Honest, ServedIsCommitted, OwnSoFar
<1> QED
  BY <1>1, PreviewAlways, PTL

\* The screen shows what the owner opened last, in whichever order the answers arrive.
THEOREM OnlyChosenShown == Spec => []ShownIsChosen
BY PreviewAlways, PTL DEF PreviewInv

-----------------------------------------------------------------------------
(* The files of the runs                                                   *)

\* What makes the invariants of RunFiles inductive: what the daemon's thread holds between a
\* file and its row, that a result is written again only for a fake run, and that only a run
\* with a row has a container.
Staging ==
  /\ \A r \in boxed : row[r] # "none"
  /\ thread.job = "submit" =>
       thread.run \in Runs /\ row[thread.run] = "none" /\ source[thread.run] = "own"
  /\ torn \subseteq Fakes
  /\ thread.job = "write" =>
       thread.run \in Runs /\ (row[thread.run] = "succeeded" => thread.run \in torn)
  /\ thread.job = "finish" =>
       thread.run \in Runs /\ (thread.run \in touched \/ result[thread.run] = "own")

FilesInv ==
  /\ FilesTypeOK /\ Staging
  /\ NothingChangedGoesOut /\ RowsHaveFiles /\ OnlyCutShortLeaves

\* The type invariant is inductive by itself.
LEMMA FilesTypeStep == FilesTypeOK /\ [FilesNext]_fileVars => FilesTypeOK'
<1> SUFFICES ASSUME FilesTypeOK, [FilesNext]_fileVars PROVE FilesTypeOK'
  OBVIOUS
<1> USE DEF FilesTypeOK, File, Idle, files, seen, past
<1>1. ASSUME NEW r \in Runs, Stages(r) \/ StageFails(r) \/ SubmitTask(r)
      \/ RollsBack(r)
      PROVE  FilesTypeOK'
  BY <1>1, RunFilesAssumption DEF Stages, StageFails, SubmitTask, RollsBack
<1>2. ASSUME NEW s \in Runs, NEW r \in Runs, ProposeHandoff(s, r) PROVE FilesTypeOK'
  BY <1>2, RunFilesAssumption DEF ProposeHandoff
<1>3. ASSUME NEW r \in Runs, Launch(r) PROVE FilesTypeOK'
  <2>1. due' \in [Runs -> 0..MaxDrives]
    BY <1>3, RunFilesAssumption DEF Launch
  <2>2. CASE Refuses(r) /\ UNCHANGED Writing
    BY <1>3, <2>1, <2>2 DEF Launch, Refuses, Writing
  <2>3. CASE Drives(r) /\ DriveFake(r)
    BY <1>3, <2>1, <2>3 DEF Launch, Drives, DriveFake, Writes
  <2>4. CASE Drives(r) /\ UNCHANGED Writing
    BY <1>3, <2>1, <2>4 DEF Launch, Drives, Writing
  <2> QED
    BY <1>3, <2>2, <2>3, <2>4 DEF Launch
<1>4. ASSUME NEW r \in Runs, Retry(r) \/ MarkRunning(r) \/ LoadSession(r)
      \/ Answer(r)
      PROVE  FilesTypeOK'
  BY <1>4, RunFilesAssumption DEF Retry, MarkRunning, LoadSession, Answer
<1>5. ASSUME NEW r \in Runs, FinishAllowedFake(r) \/ Finish(r) PROVE FilesTypeOK'
  BY <1>5 DEF FinishAllowedFake, Finish, Writes, Writing, Refuses
<1>6. ASSUME NEW r \in Runs, Written(r) \/ FinishFails(r) \/ Completes(r) \/ Ends(r)
      \/ BoxRemoved(r) \/ WorkspaceChanges(r)
      PROVE  FilesTypeOK'
  BY <1>6 DEF Written, FinishFails, Completes, Ends, BoxRemoved, WorkspaceChanges
<1>7. CASE Restart
  BY <1>7, RunFilesAssumption DEF Restart
<1>8. CASE UNCHANGED fileVars
  BY <1>8 DEF fileVars
<1> QED
  BY <1>1, <1>2, <1>3, <1>4, <1>5, <1>6, <1>7, <1>8 DEF FilesNext

-----------------------------------------------------------------------------
\* Every step keeps the invariant.
LEMMA FilesStep == FilesInv /\ [FilesNext]_fileVars => FilesInv'
<1> SUFFICES ASSUME FilesInv, [FilesNext]_fileVars PROVE FilesInv'
  OBVIOUS
<1>t. FilesTypeOK /\ FilesTypeOK'
  BY FilesTypeStep DEF FilesInv
<1> USE <1>t, RunFilesAssumption
    DEF FilesTypeOK, FilesInv, Staging,
        NothingChangedGoesOut, RowsHaveFiles, OnlyCutShortLeaves,
        File, Idle, Active, Verified, files, seen, past
<1>1. ASSUME NEW r \in Runs, Stages(r) PROVE FilesInv'
  BY <1>1 DEF Stages
<1>2. ASSUME NEW r \in Runs, StageFails(r) PROVE FilesInv'
  BY <1>2 DEF StageFails
<1>3. ASSUME NEW r \in Runs, SubmitTask(r) PROVE FilesInv'
  BY <1>3 DEF SubmitTask
<1>4. ASSUME NEW r \in Runs, RollsBack(r) PROVE FilesInv'
  BY <1>4 DEF RollsBack
<1>5. ASSUME NEW s \in Runs, NEW r \in Runs, ProposeHandoff(s, r) PROVE FilesInv'
  BY <1>5 DEF ProposeHandoff
<1>6. ASSUME NEW r \in Runs, Launch(r) PROVE FilesInv'
  <2>1. CASE Refuses(r) /\ UNCHANGED Writing
    BY <1>6, <2>1 DEF Launch, Refuses, Writing
  <2>2. CASE Verified(source[origin[r]]) /\ Drives(r) /\ DriveFake(r)
    BY <1>6, <2>2 DEF Launch, Drives, DriveFake, Writes
  <2>3. CASE Verified(source[origin[r]]) /\ Drives(r) /\ UNCHANGED Writing
    BY <1>6, <2>3 DEF Launch, Drives, Writing
  <2> QED
    BY <1>6, <2>1, <2>2, <2>3 DEF Launch
<1>7. ASSUME NEW r \in Runs, Retry(r) \/ MarkRunning(r) \/ Answer(r)
      PROVE FilesInv'
  BY <1>7 DEF Retry, MarkRunning, Answer
<1>8. ASSUME NEW r \in Runs, LoadSession(r) PROVE FilesInv'
  BY <1>8 DEF LoadSession
<1>9. ASSUME NEW r \in Runs, FinishAllowedFake(r) PROVE FilesInv'
  <2>1. CASE Writes(r) /\ UNCHANGED <<row, boxed, given>>
    BY <1>9, <2>1 DEF FinishAllowedFake, Writes
  <2>2. CASE Refuses(r) /\ UNCHANGED Writing
    BY <1>9, <2>2 DEF FinishAllowedFake, Refuses, Writing
  <2> QED
    BY <1>9, <2>1, <2>2 DEF FinishAllowedFake
<1>10. ASSUME NEW r \in Runs, Finish(r) PROVE FilesInv'
  BY <1>10 DEF Finish, Writes
<1>11. ASSUME NEW r \in Runs, Completes(r) PROVE FilesInv'
  BY <1>11 DEF Completes
<1>12. ASSUME NEW r \in Runs, Ends(r) \/ BoxRemoved(r) PROVE FilesInv'
  BY <1>12 DEF Ends, BoxRemoved
<1>13. ASSUME NEW r \in Runs, WorkspaceChanges(r) PROVE FilesInv'
  BY <1>13 DEF WorkspaceChanges
<1>14. CASE Restart
  BY <1>14 DEF Restart
<1>15. ASSUME NEW r \in Runs, Written(r) PROVE FilesInv'
  BY <1>15 DEF Written
<1>16. ASSUME NEW r \in Runs, FinishFails(r) PROVE FilesInv'
  BY <1>16 DEF FinishFails
<1>17. CASE UNCHANGED fileVars
  BY <1>17 DEF fileVars
<1> QED
  BY <1>1, <1>2, <1>3, <1>4, <1>5, <1>6, <1>7, <1>8, <1>9, <1>10, <1>11, <1>12, <1>13,
     <1>14, <1>15, <1>16, <1>17 DEF FilesNext

\* And the first states have it.
LEMMA FilesInvInit == FilesInit => FilesInv
BY RunFilesAssumption DEF FilesInit, FilesInv, FilesTypeOK, File, Idle,
    Staging, NothingChangedGoesOut, RowsHaveFiles,
       OnlyCutShortLeaves

\* The invariant holds of every behaviour.
LEMMA FilesAlways == FilesSpec => []FilesInv
BY FilesInvInit, FilesStep, PTL DEF FilesSpec

\* The types of the files, the rows and the daemon's thread.
THEOREM FilesTyped == FilesSpec => []FilesTypeOK
BY FilesAlways, PTL DEF FilesInv

\* Briefs and envelopes carry only what the owner submitted and what a run completed with,
\* for any number of runs and whoever writes to their workspaces.
THEOREM UnchangedGoesOut == FilesSpec => []NothingChangedGoesOut
BY FilesAlways, PTL DEF FilesInv

\* The files that the rows speak of were written, after crashes, rollbacks, late dispatches
\* and failing writes; only a fake run that was driven twice may lose its result.
THEOREM FilesBehindRows == FilesSpec => []RowsHaveFiles
BY FilesAlways, PTL DEF FilesInv

\* A rolled back submission leaves no file, unless its ROLLBACK threw.
THEOREM RollbackIsClean == FilesSpec => []OnlyCutShortLeaves
BY FilesAlways, PTL DEF FilesInv

\* Files and rows agree (store.ts:614-619, 1396-1399; engine.ts:341-356).
THEOREM FilesFitTheirRows == FilesSpec => []FilesFitRows
<1>1. RowsHaveFiles /\ OnlyCutShortLeaves => FilesFitRows
  BY DEF FilesFitRows
<1>. QED BY <1>1, FilesBehindRows, RollbackIsClean, PTL

=============================================================================
