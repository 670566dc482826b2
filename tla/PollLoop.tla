------------------------------ MODULE PollLoop ------------------------------
(***************************************************************************)
(* The main loop of PanelDue as the client of the printer: which M409      *)
(* request is sent when, how a response is attributed to an entry of the   *)
(* seqs table, and how timeouts, restarts of the printer and damaged lines *)
(* are recovered from (src/PanelDue.cpp).                                   *)
(*                                                                         *)
(* An entry of seqs is a number of 1..N in table order; 0 is nullptr.  The *)
(* object model of the printer is a version number per entry; a response   *)
(* carries the versions that were current when the printer wrote it.  The  *)
(* serial line is a FIFO of requests and a FIFO of responses.  The message *)
(* CheckInput is in the middle of stays at the head of resp, and stage     *)
(* says how far the parser is.                                             *)
(*                                                                         *)
(* Time is counted in periods of printerPollInterval +                     *)
(* printerResponseTimeout: pollAge and respAge are the whole periods since *)
(* lastPollTime and lastResponseTime, answered stands for the comparison   *)
(* lastResponseTime >= lastPollTime, quiet for SerialLineQuiet().          *)
(***************************************************************************)
EXTENDS Integers, Sequences

CONSTANTS
    N,               \* entries of the seqs table
    StateKey,        \* the entry whose key is "state"
    Outputs,         \* general purpose outputs the printer reports
    LivePollPeriod,  \* every so many live polls ask for K"state" (5 in the code)
    PrinterStatuses, \* statuses the printer reports, a subset of Statuses
    FirstVer,        \* version of every model key when the printer has booted
    MaxVer,          \* bound: versions of a model key
    MaxBoot,         \* bound: times the printer has been switched on
    MaxLine,         \* bound: requests, and responses, on the line
    MaxUser,         \* bound: things the user does
    FaultKinds,      \* what may go wrong on the line, a subset of Faults
    MaxFaults,       \* bound: how often it does
    Late             \* TRUE: the printer may take longer than a period to answer

Keys == 1..N
NoSeq == 0
NoQuery == -1
Statuses == {"idle", "busy"}
SeqStates == {"Init", "Ok", "Update", "Error"}
Names == {"", "own", "other"}
Stages == {"idle", "key", "seqs", "fields", "closing"}
Faults == {"lose", "garbled", "cut", "oob"}
Damages == {"garbled", "cut"}
ReconnectAge == 3

ASSUME ConstantsAssumption ==
    /\ N \in Nat /\ StateKey \in Keys
    /\ Outputs \subseteq 0..7
    /\ LivePollPeriod \in Nat \ {0}
    /\ PrinterStatuses \subseteq Statuses
    /\ FirstVer \in Nat /\ MaxVer \in Nat /\ FirstVer <= MaxVer
    /\ MaxBoot \in Nat \ {0} /\ MaxLine \in Nat /\ MaxUser \in Nat /\ MaxFaults \in Nat
    /\ FaultKinds \subseteq Faults

ASSUME LateAssumption == Late \in BOOLEAN

VARIABLES
    \* the seqs table and the two pointers into it
    seqState, lastSeq, currentReqSeq, currentRespSeq, outOfBuffers,
    \* the connection
    initialized, status, remoteBoot,
    \* time
    answered, pollAge, respAge, quiet,
    \* names of the general purpose outputs
    gpMask, gpInFlight, gpCounter, gpName,
    \* what the user does: the page shown, a file or thumbnail request waiting
    setupTab, side, userSteps,
    \* the parser and the line
    stage, req, resp,
    \* the printer
    ver, boot, faults,
    \* history: the version shown of each key
    got

table == <<seqState, lastSeq>>
cursors == <<currentReqSeq, currentRespSeq, outOfBuffers>>
link == <<initialized, status, remoteBoot>>
times == <<answered, pollAge, respAge>>
outs == <<gpMask, gpInFlight, gpCounter, gpName>>
user == <<setupTab, side, userSteps>>
printer == <<ver, boot, faults>>
panel == <<table, cursors, link, times, quiet, outs, got>>
vars == <<seqState, lastSeq, currentReqSeq, currentRespSeq, outOfBuffers,
          initialized, status, remoteBoot, answered, pollAge, respAge, quiet,
          gpMask, gpInFlight, gpCounter, gpName, setupTab, side, userSteps,
          stage, req, resp, ver, boot, faults, got>>

Vers == 0..MaxVer
Boots == 0..MaxBoot
Requests == [kind : {"detail", "state", "live", "echo", "user", "side"},
             key : Keys \cup {NoSeq}, out : Outputs \cup {NoQuery}]
Responses == [kind : {"detail", "state", "live", "resp", "side", "oob"},
              key : Keys \cup {NoSeq}, out : Outputs \cup {NoQuery},
              boot : Boots, ver : [Keys -> Vers], status : Statuses,
              fate : {"whole"} \cup Damages]

FlagsOK ==
    /\ outOfBuffers \in BOOLEAN /\ initialized \in BOOLEAN /\ answered \in BOOLEAN
    /\ quiet \in BOOLEAN /\ setupTab \in BOOLEAN

\* The variables that are not flags; and a message is in the parser's hands only
\* while there is one.
DataOK ==
    /\ seqState \in [Keys -> SeqStates] /\ lastSeq \in [Keys -> Vers]
    /\ currentReqSeq \in Keys \cup {NoSeq} /\ currentRespSeq \in Keys \cup {NoSeq}
    /\ status \in Statuses \cup {"connecting"} /\ remoteBoot \in Boots
    /\ pollAge \in 0..1 /\ respAge \in 0..ReconnectAge
    /\ gpMask \subseteq Outputs /\ gpInFlight \in Outputs \cup {NoQuery}
    /\ gpCounter \in 0..(LivePollPeriod - 1) /\ gpName \in [Outputs -> Names]
    /\ side \in {"none", "file", "thumbnail"} /\ userSteps \in 0..MaxUser
    /\ stage \in Stages /\ req \in Seq(Requests) /\ resp \in Seq(Responses)
    /\ ver \in [Keys -> Vers] /\ boot \in Boots /\ faults \in 0..MaxFaults
    /\ got \in [Keys -> Boots \X Vers]
    /\ stage # "idle" => resp # <<>>

TypeOK == FlagsOK /\ DataOK

Init ==
    /\ seqState = [k \in Keys |-> "Init"] /\ lastSeq = [k \in Keys |-> 0]
    /\ currentReqSeq = NoSeq /\ currentRespSeq = NoSeq /\ outOfBuffers = FALSE
    /\ initialized = FALSE /\ status = "connecting" /\ remoteBoot = 0
    /\ answered = TRUE /\ pollAge = 0 /\ respAge = 0 /\ quiet = TRUE
    /\ gpMask = {} /\ gpInFlight = NoQuery /\ gpCounter = 0
    /\ gpName = [o \in Outputs |-> ""]
    /\ setupTab = FALSE /\ side = "none" /\ userSteps = 0
    /\ stage = "idle" /\ req = <<>> /\ resp = <<>>
    /\ ver = [k \in Keys |-> FirstVer] /\ boot = 1 /\ faults = 0
    /\ got = [k \in Keys |-> <<0, 0>>]

-----------------------------------------------------------------------------
(* The seqs table.                                                         *)

\* The entries GetNextSeq(current) would return, were they not behind others.
Pending(current) == {k \in Keys : k >= current /\ seqState[k] \in {"Init", "Update"}}

\* GetNextSeq(current) is k, the first such entry at or after current (of the
\* whole table when current is nullptr).  It is nullptr when Pending is empty.
IsNextSeq(k, current) == k \in Pending(current) /\ \A j \in Pending(current) : k <= j

\* Mutant: entries in error are passed over and left as they are.
SkippedErrorsStay(current) == seqState

\* The other effect of GetNextSeq: an entry in error that it passes on the way
\* is put back to Init, and skipped this time round.
SkippedErrors(current) ==
    [k \in Keys |->
        IF /\ k >= current /\ seqState[k] = "Error"
           /\ \A j \in Pending(current) : k < j
        THEN "Init" ELSE seqState[k]]

\* Mutant: the number is stored but the entry is not marked.
UpdateSeqsUnmarked(v) == lastSeq' = v /\ UNCHANGED seqState

\* UpdateSeq for every number of the "seqs" object v of a live response.
UpdateSeqs(v) ==
    /\ lastSeq' = v
    /\ seqState' = [k \in Keys |-> IF lastSeq[k] # v[k] THEN "Update" ELSE seqState[k]]

OkToSend == status = "idle"

\* Mutant: the seqs table is not reset.
ReconnectKeepsSeqs ==
    /\ initialized' = FALSE
    /\ answered' = TRUE /\ pollAge' = 1 /\ respAge' = 0
    /\ gpInFlight' = NoQuery
    /\ status' = "connecting"
    /\ UNCHANGED table

\* Reconnect.  lastPollTime becomes 0 and lastResponseTime the current time.
\* currentReqSeq keeps its value.
Reconnect ==
    /\ initialized' = FALSE
    /\ answered' = TRUE /\ pollAge' = 1 /\ respAge' = 0
    /\ gpInFlight' = NoQuery
    /\ status' = "connecting"
    /\ seqState' = [k \in Keys |-> "Init"]
    /\ lastSeq' = [k \in Keys |-> 0]

-----------------------------------------------------------------------------
(* CheckInput and its callbacks.                                           *)

msg == Head(resp)

StartReceivedMessage ==
    /\ stage = "idle" /\ resp # <<>>
    /\ stage' = "key" /\ quiet' = FALSE
    /\ UNCHANGED <<table, cursors, link, times, outs, user, req, resp, printer, got>>

\* A response to M409 says which key it is about.
Keyed(m) == m.kind \in {"detail", "state", "live"} \/ (m.kind = "oob" /\ m.key # NoSeq)

\* Mutant: a response is taken to be for the last request, whatever its key.
ReceiveKeyOfRequest ==
    /\ stage = "key"
    /\ currentRespSeq' = IF msg.kind = "live" THEN NoSeq ELSE currentReqSeq
    /\ stage' = IF msg.kind = "live" THEN "seqs" ELSE "fields"
    /\ quiet' = FALSE
    /\ UNCHANGED <<table, currentReqSeq, outOfBuffers, link, times, outs, user,
                   req, resp, printer, got>>

ReceiveKey ==
    /\ stage = "key"
    /\ currentRespSeq' = IF Keyed(msg) THEN msg.key ELSE currentRespSeq
    /\ stage' = IF msg.kind = "live" THEN "seqs" ELSE "fields"
    /\ quiet' = FALSE
    /\ UNCHANGED <<table, currentReqSeq, outOfBuffers, link, times, outs, user,
                   req, resp, printer, got>>

ReceiveSeqs ==
    /\ stage = "seqs"
    /\ UpdateSeqs(msg.ver)
    /\ stage' = "fields" /\ quiet' = FALSE
    /\ UNCHANGED <<cursors, link, times, outs, user, req, resp, printer, got>>

\* The detailed model of a key other than "state".
ReceiveDetail ==
    /\ stage = "fields" /\ msg.kind = "detail" /\ msg.key # StateKey
    /\ got' = [got EXCEPT ![msg.key] = <<msg.boot, msg.ver[msg.key]>>]
    /\ stage' = "closing" /\ quiet' = FALSE
    /\ UNCHANGED <<table, cursors, link, times, outs, user, req, resp, printer>>

\* The fields of "state", which every kind of M409 response may have, gpOut only
\* the unfiltered ones.  Their order is gpOut, status, upTime: an uptime that
\* went back is the last thing seen and undoes the status.
ReceiveState ==
    /\ stage = "fields"
    /\ msg.kind \in {"state", "live"} \/ (msg.kind = "detail" /\ msg.key = StateKey)
    /\ gpMask' = gpMask \cup {o \in Outputs : msg.kind # "live" /\ gpName[o] = ""}
    /\ remoteBoot' = msg.boot
    /\ got' = IF msg.kind = "detail"
              THEN [got EXCEPT ![StateKey] = <<msg.boot, msg.ver[StateKey]>>] ELSE got
    /\ \/ /\ remoteBoot # 0 /\ msg.boot # remoteBoot
          /\ Reconnect
       \/ /\ remoteBoot = 0 \/ msg.boot = remoteBoot
          /\ status' = msg.status
          /\ UNCHANGED <<table, initialized, times, gpInFlight>>
    /\ stage' = "closing" /\ quiet' = FALSE
    /\ UNCHANGED <<cursors, gpCounter, gpName, user, req, resp, printer>>

\* "resp": the reply to a command.  While a name is asked for, any reply is
\* taken to be that name; otherwise it goes to the message log.
ReceiveResp ==
    /\ stage = "fields" /\ msg.kind = "resp"
    /\ IF gpInFlight # NoQuery
       THEN /\ gpName' = [gpName EXCEPT ![gpInFlight] =
                             IF msg.out = gpInFlight THEN "own" ELSE "other"]
            /\ gpInFlight' = NoQuery
       ELSE UNCHANGED <<gpName, gpInFlight>>
    /\ stage' = "closing" /\ quiet' = FALSE
    /\ UNCHANGED <<table, cursors, link, times, gpMask, gpCounter, user, req, resp,
                   printer, got>>

\* "err":-1, the printer has run out of output buffers; or the reply to a file
\* or thumbnail request, which concerns other components.
ReceiveOther ==
    /\ stage = "fields" /\ msg.kind \in {"oob", "side"}
    /\ outOfBuffers' = (msg.kind = "oob" \/ outOfBuffers)
    /\ stage' = "closing" /\ quiet' = FALSE
    /\ UNCHANGED <<table, currentReqSeq, currentRespSeq, link, times, outs, user, req,
                   resp, printer, got>>

\* Mutant: lastResponseTime is not updated.
EndReceivedMessageUntimed ==
    /\ stage = "closing" /\ msg.fate = "whole"
    /\ seqState' = IF currentRespSeq = NoSeq THEN seqState
                   ELSE [seqState EXCEPT ![currentRespSeq] =
                            IF outOfBuffers THEN "Error" ELSE "Ok"]
    /\ currentRespSeq' = NoSeq /\ outOfBuffers' = FALSE
    /\ stage' = "idle" /\ quiet' = FALSE /\ resp' = Tail(resp)
    /\ UNCHANGED <<lastSeq, currentReqSeq, link, times, outs, user, req, printer, got>>

\* The entry the response was for, if any, is done, or in error if the printer
\* ran out of buffers.
EndReceivedMessage ==
    /\ stage = "closing" /\ msg.fate = "whole"
    /\ answered' = TRUE /\ respAge' = 0
    /\ seqState' = IF currentRespSeq = NoSeq THEN seqState
                   ELSE [seqState EXCEPT ![currentRespSeq] =
                            IF outOfBuffers THEN "Error" ELSE "Ok"]
    /\ currentRespSeq' = NoSeq /\ outOfBuffers' = FALSE
    /\ stage' = "idle" /\ quiet' = FALSE /\ resp' = Tail(resp)
    /\ UNCHANGED <<lastSeq, currentReqSeq, link, pollAge, outs, user, req, printer, got>>

\* The newline after a line the parser could not make sense of.
ParserErrorEncountered ==
    /\ stage # "idle" /\ msg.fate = "garbled"
    /\ seqState' = IF currentRespSeq = NoSeq THEN seqState
                   ELSE [seqState EXCEPT ![currentRespSeq] = "Error"]
    /\ stage' = "idle" /\ quiet' = FALSE /\ resp' = Tail(resp)
    /\ UNCHANGED <<lastSeq, cursors, link, times, outs, user, req, printer, got>>

\* The newline after a line whose end was dropped (receiveError): the parser
\* starts again and tells nobody.
AbandonLine ==
    /\ stage # "idle" /\ msg.fate = "cut"
    /\ stage' = "idle" /\ quiet' = FALSE /\ resp' = Tail(resp)
    /\ UNCHANGED <<table, cursors, link, times, outs, user, req, printer, got>>

CheckInput ==
    \/ StartReceivedMessage \/ ReceiveKey \/ ReceiveSeqs \/ ReceiveDetail \/ ReceiveState
    \/ ReceiveResp \/ ReceiveOther \/ EndReceivedMessage \/ ParserErrorEncountered
    \/ AbandonLine

-----------------------------------------------------------------------------
(* The printer communication part of the main loop.                        *)

Request(kind, key, out) == [kind |-> kind, key |-> key, out |-> out]

Send(r) == Len(req) < MaxLine /\ req' = Append(req, r)

\* lastPollTime becomes the current time, so no response is as late.
Polled == answered' = FALSE /\ pollAge' = 0 /\ UNCHANGED respAge

\* Mutant: the next request does not wait for the response to the last one.
MayPollUnanswered == ~setupTab /\ respAge < ReconnectAge /\ quiet

MayPoll == ~setupTab /\ respAge < ReconnectAge /\ answered /\ quiet

\* M36.1, before anything else.
PollThumbnail ==
    /\ MayPoll /\ side = "thumbnail"
    /\ Send(Request("side", NoSeq, NoQuery)) /\ Polled
    /\ side' = "none"
    /\ UNCHANGED <<table, cursors, link, quiet, outs, setupTab, userSteps, stage, resp,
                   printer, got>>

\* M409 for the next entry that needs one.
PollSeq ==
    /\ MayPoll /\ side # "thumbnail"
    /\ \E k \in Keys :
          /\ IsNextSeq(k, currentReqSeq)
          /\ currentReqSeq' = k
          /\ Send(Request("detail", k, NoQuery))
    /\ seqState' = SkippedErrors(currentReqSeq) /\ Polled
    /\ UNCHANGED <<lastSeq, currentRespSeq, outOfBuffers, link, quiet, outs, user, stage,
                   resp, printer, got>>

\* Mutant: the loop over the outputs does not stop at the first.
QueryNameNoBreak(o) ==
    /\ OkToSend /\ gpInFlight = NoQuery
    /\ o \in gpMask /\ \A p \in gpMask : o <= p
    /\ gpMask' = {}
    /\ \E h \in gpMask :
          /\ \A p \in gpMask : p <= h
          /\ gpInFlight' = h
          /\ req' = Append(req, Request("echo", NoSeq, o))
                    \o (IF h = o THEN <<>> ELSE <<Request("echo", NoSeq, h)>>)
    /\ UNCHANGED <<gpCounter, gpName, user>>

\* The name of the lowest output asked for.
QueryName(o) ==
    /\ OkToSend /\ gpInFlight = NoQuery
    /\ o \in gpMask /\ \A p \in gpMask : o <= p
    /\ gpMask' = gpMask \ {o} /\ gpInFlight' = o
    /\ Send(Request("echo", NoSeq, o))
    /\ UNCHANGED <<gpCounter, gpName, user>>

NoNameWanted == ~OkToSend \/ gpInFlight # NoQuery \/ gpMask = {}

\* FileManager::ProcessTimers.
QueryFiles ==
    /\ NoNameWanted /\ OkToSend /\ side = "file"
    /\ side' = "none"
    /\ Send(Request("side", NoSeq, NoQuery))
    /\ UNCHANGED <<outs, setupTab, userSteps>>

\* Mutant: the counter is not put back to zero.
QueryLiveNoReset ==
    /\ NoNameWanted /\ ~(OkToSend /\ side = "file")
    /\ gpCounter' = gpCounter + 1
    /\ Send(Request(IF gpCounter' >= LivePollPeriod THEN "state" ELSE "live",
                    IF gpCounter' >= LivePollPeriod THEN StateKey ELSE NoSeq, NoQuery))
    /\ UNCHANGED <<gpMask, gpInFlight, gpName, user>>

\* The live poll, every so often replaced by the live fields of "state".
QueryLive ==
    /\ NoNameWanted /\ ~(OkToSend /\ side = "file")
    /\ gpCounter' = IF gpCounter + 1 >= LivePollPeriod THEN 0 ELSE gpCounter + 1
    /\ Send(Request(IF gpCounter' = 0 THEN "state" ELSE "live",
                    IF gpCounter' = 0 THEN StateKey ELSE NoSeq, NoQuery))
    /\ UNCHANGED <<gpMask, gpInFlight, gpName, user>>

\* No entry needs a request.
PollIdle ==
    /\ MayPoll /\ side # "thumbnail" /\ Pending(currentReqSeq) = {}
    /\ currentReqSeq' = NoSeq
    /\ seqState' = SkippedErrors(currentReqSeq)
    /\ initialized' = TRUE
    /\ (\E o \in Outputs : QueryName(o)) \/ QueryFiles \/ QueryLive
    /\ Polled
    /\ UNCHANGED <<lastSeq, currentRespSeq, outOfBuffers, status, remoteBoot, quiet, stage,
                   resp, printer, got>>

Poll == PollThumbnail \/ PollSeq \/ PollIdle

\* Mutant: the query of a name stays in flight.
RequestTimeoutKeepsQuery ==
    /\ ~setupTab /\ respAge < ReconnectAge /\ ~(answered /\ quiet) /\ pollAge = 1
    /\ gpCounter' = 0
    /\ Send(Request("state", StateKey, NoQuery)) /\ Polled
    /\ UNCHANGED <<table, cursors, link, quiet, gpMask, gpInFlight, gpName, user, stage, resp,
                   printer, got>>

RequestTimeout ==
    /\ ~setupTab /\ respAge < ReconnectAge /\ ~(answered /\ quiet) /\ pollAge = 1
    /\ gpInFlight' = NoQuery /\ gpCounter' = 0
    /\ Send(Request("state", StateKey, NoQuery)) /\ Polled
    /\ UNCHANGED <<table, cursors, link, quiet, gpMask, gpName, user, stage, resp, printer,
                   got>>

ResponseTimeout ==
    /\ ~setupTab /\ respAge = ReconnectAge
    /\ Reconnect
    /\ UNCHANGED <<cursors, remoteBoot, quiet, gpMask, gpCounter, gpName, user, stage, req,
                   resp, printer, got>>

-----------------------------------------------------------------------------
(* Time, the user and the printer.                                         *)

\* The line has been quiet for MinimumLineQuietTime.
LineFallsQuiet ==
    /\ ~quiet /\ (stage = "idle" \/ Late)
    /\ quiet' = TRUE
    /\ UNCHANGED <<table, cursors, link, times, outs, user, stage, req, resp, printer,
                   got>>

\* A period goes by while the loop waits for a response, or the user is on the
\* Setup page.  A printer that answers in time lets the former happen only when
\* the answer was lost.  (A loop that has its response polls long before.)
Tick ==
    /\ respAge < ReconnectAge
    /\ setupTab \/ (pollAge = 0 /\ ~answered)
    /\ Late \/ setupTab \/ (req = <<>> /\ resp = <<>>)
    /\ pollAge' = 1 /\ respAge' = respAge + 1
    /\ UNCHANGED <<table, cursors, link, answered, quiet, outs, user, stage, req, resp,
                   printer, got>>

UserActs ==
    /\ userSteps < MaxUser
    /\ userSteps' = userSteps + 1
    /\ \/ Send(Request("user", NoSeq, NoQuery)) /\ UNCHANGED <<setupTab, side>>
       \/ side = "none" /\ side' \in {"file", "thumbnail"} /\ UNCHANGED <<setupTab, req>>
       \/ ~setupTab /\ setupTab' = TRUE /\ UNCHANGED <<side, req>>
    /\ UNCHANGED <<panel, stage, resp, printer>>

LeaveSetup ==
    /\ setupTab /\ setupTab' = FALSE
    /\ UNCHANGED <<panel, side, userSteps, stage, req, resp, printer>>

\* What the printer writes back to request r.
Response(r, st, fate) ==
    [kind |-> IF r.kind \in {"echo", "user"} THEN "resp" ELSE r.kind,
     key |-> r.key, out |-> r.out, boot |-> boot, ver |-> ver, status |-> st,
     fate |-> fate]

Reply(m) == Len(resp) < MaxLine /\ resp' = Append(resp, m) /\ req' = Tail(req)

PrinterAnswers ==
    /\ req # <<>>
    /\ \E st \in PrinterStatuses : Reply(Response(Head(req), st, "whole"))
    /\ UNCHANGED <<panel, user, stage, printer>>

LineFault ==
    /\ req # <<>> /\ faults < MaxFaults
    /\ faults' = faults + 1
    /\ \/ "lose" \in FaultKinds /\ req' = Tail(req) /\ UNCHANGED resp
       \/ \E st \in PrinterStatuses, d \in FaultKinds \cap Damages :
             Reply(Response(Head(req), st, d))
       \/ /\ "oob" \in FaultKinds
          /\ \E st \in PrinterStatuses, k \in {Head(req).key, NoSeq} :
                Reply([Response(Head(req), st, "whole") EXCEPT !.kind = "oob", !.key = k])
    /\ UNCHANGED <<panel, user, stage, ver, boot>>

ModelChanges ==
    /\ \E k \in Keys : ver[k] < MaxVer /\ ver' = [ver EXCEPT ![k] = @ + 1]
    /\ UNCHANGED <<panel, user, stage, req, resp, boot, faults>>

\* The printer restarts: what it had received is forgotten.
Reboot ==
    /\ boot < MaxBoot
    /\ boot' = boot + 1 /\ ver' = [k \in Keys |-> FirstVer] /\ req' = <<>>
    /\ UNCHANGED <<panel, user, stage, resp, faults>>

Next ==
    \/ CheckInput \/ Poll \/ RequestTimeout \/ ResponseTimeout
    \/ LineFallsQuiet \/ Tick \/ UserActs \/ LeaveSetup
    \/ PrinterAnswers \/ LineFault \/ ModelChanges \/ Reboot

\* The loop never stops and time goes on; the printer answers what it is asked.
Fairness ==
    /\ WF_vars(CheckInput) /\ WF_vars(Poll)
    /\ WF_vars(RequestTimeout) /\ WF_vars(ResponseTimeout)
    /\ WF_vars(LineFallsQuiet) /\ WF_vars(Tick) /\ WF_vars(PrinterAnswers)

Spec == Init /\ [][Next]_vars

FairSpec == Spec /\ Fairness

-----------------------------------------------------------------------------
(* Properties.                                                             *)

\* Lexicographic order of <<boot, version>>.
AtLeast(g, h) == g[1] > h[1] \/ (g[1] = h[1] /\ g[2] >= h[2])

\* An entry is Ok only when its model has been received in full, and once a
\* number for it was announced, at least as new as that number says.  Requests,
\* responses and announcements overlap, and nothing in EndReceivedMessage
\* compares versions.  "state" is left out: its live fields alone make it Ok.
OkMeansFetched ==
    \A k \in Keys \ {StateKey} : seqState[k] = "Ok" =>
        /\ got[k][1] # 0
        /\ lastSeq[k] # 0 => AtLeast(got[k], <<remoteBoot, lastSeq[k]>>)

\* While the printer answers in time, the panel has one request or response on the line,
\* and at most one more for each restart of the printer and each thing the user did: polls,
\* timeouts and Reconnect, of which there may be several in a row, do not pile requests up.
RequestsAreFew == Len(req) + Len(resp) <= boot + userSteps

\* A name shown for an output is the printer's name for that output, whatever
\* reply was taken for it.
NamesAreOwn == \A o \in Outputs : gpName[o] \in {"", "own"}

Shown(k) == seqState[k] = "Ok" /\ got[k] = <<boot, ver[k]>>
PollingResumes == []<>(~setupTab)

\* Whatever was lost, damaged or forgotten, and whenever the printer restarted,
\* the panel ends up initialized and showing the printer's current model, unless
\* the user stays on the Setup page.  "state" is left out, see ConvergesFully.
Converges ==
    PollingResumes => <>[](initialized /\ \A k \in Keys \ {StateKey} : Shown(k))

\* The same with "state", when the line loses and damages nothing and the printer
\* does not restart.  (Otherwise a request timeout asks for the live fields of "state",
\* and their arrival drops a pending request for the rest of "state".)
ConvergesFully ==
    PollingResumes /\ [](faults = 0 /\ boot = 1)
        => <>[](initialized /\ \A k \in Keys : Shown(k))

\* "shows up on the panel labeled": every output ends up with its name.
NamesLearned == PollingResumes => <>[](\A o \in Outputs : gpName[o] = "own")
=============================================================================
