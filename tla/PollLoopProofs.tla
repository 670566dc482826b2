--------------------------- MODULE PollLoopProofs ---------------------------
(***************************************************************************)
(* Proofs about PollLoop, for every size of the seqs table, every bound    *)
(* and every combination of faults.                                        *)
(***************************************************************************)
EXTENDS PollLoop, TLAPS

-----------------------------------------------------------------------------
(* Type correctness.                                                       *)

\* The fields of the message the parser is in the middle of.
LEMMA MsgFields ==
    ASSUME DataOK, stage # "idle"
    PROVE  /\ msg \in Responses
           /\ msg.kind \in {"detail", "state", "live", "resp", "side", "oob"}
           /\ msg.key \in Keys \cup {NoSeq} /\ msg.out \in Outputs \cup {NoQuery}
           /\ msg.boot \in Boots /\ msg.ver \in [Keys -> Vers] /\ msg.status \in Statuses
           /\ msg.fate \in {"whole"} \cup Damages
           /\ Tail(resp) \in Seq(Responses)
<1>1. resp \in Seq(Responses) /\ resp # <<>>  BY DEF DataOK
<1>2. Head(resp) \in Responses /\ Tail(resp) \in Seq(Responses)  BY <1>1
<1> QED  BY <1>2 DEF msg, Responses

\* Requests of the loop and of the user, and the responses to them, are typed.
LEMMA RequestTyped ==
    /\ Request("side", NoSeq, NoQuery) \in Requests
    /\ Request("user", NoSeq, NoQuery) \in Requests
    /\ Request("live", NoSeq, NoQuery) \in Requests
    /\ Request("state", StateKey, NoQuery) \in Requests
    /\ \A k \in Keys : Request("detail", k, NoQuery) \in Requests
    /\ \A o \in Outputs : Request("echo", NoSeq, o) \in Requests
BY ConstantsAssumption DEF Request, Requests

LEMMA ResponseTyped ==
    ASSUME DataOK, req # <<>>, NEW st \in PrinterStatuses, NEW fate \in {"whole"} \cup Damages
    PROVE  /\ Tail(req) \in Seq(Requests)
           /\ Response(Head(req), st, fate) \in Responses
           /\ \A k \in {Head(req).key, NoSeq} :
                 [Response(Head(req), st, fate) EXCEPT !.kind = "oob", !.key = k] \in Responses
<1>1. Head(req) \in Requests /\ Tail(req) \in Seq(Requests)  BY DEF DataOK
<1> QED  BY <1>1, ConstantsAssumption DEF DataOK, Response, Responses, Requests

LEMMA ReconnectTyped ==
    ASSUME Reconnect
    PROVE  /\ pollAge' \in 0..1 /\ respAge' \in 0..ReconnectAge
           /\ gpInFlight' \in Outputs \cup {NoQuery}
           /\ status' \in Statuses \cup {"connecting"}
           /\ seqState' \in [Keys -> SeqStates] /\ lastSeq' \in [Keys -> Vers]
BY ConstantsAssumption DEF Reconnect, ReconnectAge, SeqStates, Vers

LEMMA InitialValues ==
    /\ 0 \in Vers /\ FirstVer \in Vers
    /\ 0 \in Boots /\ 1 \in Boots
    /\ 0 \in 0..(LivePollPeriod - 1) /\ 0 \in 0..MaxUser /\ 0 \in 0..MaxFaults
    /\ 0 \in 0..1 /\ 0 \in 0..ReconnectAge
BY ConstantsAssumption DEF Vers, Boots, ReconnectAge

LEMMA DataInit == Init => DataOK
<1> SUFFICES ASSUME Init PROVE DataOK  OBVIOUS
<1>1. req = <<>> /\ resp = <<>>  BY DEF Init
<1>2. req \in Seq(Requests) /\ resp \in Seq(Responses)  BY <1>1
<1>3. /\ seqState \in [Keys -> SeqStates] /\ lastSeq \in [Keys -> Vers]
      /\ ver \in [Keys -> Vers] /\ got \in [Keys -> Boots \X Vers]
      /\ gpName \in [Outputs -> Names]
  BY InitialValues DEF Init, SeqStates, Names
<1>4. /\ pollAge \in 0..1 /\ respAge \in 0..ReconnectAge /\ remoteBoot \in Boots
      /\ boot \in Boots /\ gpCounter \in 0..(LivePollPeriod - 1)
      /\ userSteps \in 0..MaxUser /\ faults \in 0..MaxFaults
  BY InitialValues DEF Init
<1>5. /\ currentReqSeq \in Keys \cup {NoSeq} /\ currentRespSeq \in Keys \cup {NoSeq}
      /\ gpMask \subseteq Outputs /\ gpInFlight \in Outputs \cup {NoQuery}
  BY DEF Init
<1> QED  BY <1>2, <1>3, <1>4, <1>5 DEF Init, DataOK, Stages

\* One step of the parser.
LEMMA DataCheckInput == DataOK /\ CheckInput => DataOK'
<1> SUFFICES ASSUME DataOK, CheckInput PROVE DataOK'  OBVIOUS
<1> USE DEF DataOK, table, cursors, link, times, outs, user, printer
<1>1. CASE StartReceivedMessage  BY <1>1 DEF StartReceivedMessage, Stages
<1>2. CASE ReceiveKey  BY <1>2, MsgFields DEF ReceiveKey, Stages
<1>3. CASE ReceiveSeqs  BY <1>3, MsgFields DEF ReceiveSeqs, UpdateSeqs, Stages, SeqStates
<1>4. CASE ReceiveDetail  BY <1>4, MsgFields DEF ReceiveDetail, Stages
<1>5. CASE ReceiveState  BY <1>5, MsgFields, ReconnectTyped, ConstantsAssumption DEF ReceiveState, Stages
<1>6. CASE ReceiveResp  BY <1>6, MsgFields DEF ReceiveResp, Stages, Names
<1>7. CASE ReceiveOther  BY <1>7, MsgFields DEF ReceiveOther, Stages
<1>8. CASE EndReceivedMessage  BY <1>8, MsgFields DEF EndReceivedMessage, Stages, SeqStates, NoSeq, ReconnectAge
<1>9. CASE ParserErrorEncountered  BY <1>9, MsgFields DEF ParserErrorEncountered, Stages, SeqStates, NoSeq
<1>10. CASE AbandonLine  BY <1>10, MsgFields DEF AbandonLine, Stages
<1> QED  BY <1>1, <1>2, <1>3, <1>4, <1>5, <1>6, <1>7, <1>8, <1>9, <1>10 DEF CheckInput

\* One step of the communication part of the main loop.
LEMMA DataPoll ==
    DataOK /\ (Poll \/ RequestTimeout \/ ResponseTimeout) => DataOK'
<1> SUFFICES ASSUME DataOK, Poll \/ RequestTimeout \/ ResponseTimeout PROVE DataOK'
    OBVIOUS
<1> USE RequestTyped
    DEF DataOK, table, cursors, link, times, outs, user, printer, Send, Polled
<1>1. SkippedErrors(currentReqSeq) \in [Keys -> SeqStates]  BY DEF SkippedErrors, SeqStates
<1>2. CASE PollThumbnail  BY <1>2 DEF PollThumbnail
<1>3. CASE PollSeq  BY <1>1, <1>3 DEF PollSeq
<1>4. CASE PollIdle
  <2> DEFINE Queried == /\ gpMask' \subseteq Outputs /\ gpInFlight' \in Outputs \cup {NoQuery}
                        /\ gpCounter' \in 0..(LivePollPeriod - 1)
                        /\ gpName' \in [Outputs -> Names]
                        /\ side' \in {"none", "file", "thumbnail"}
                        /\ userSteps' \in 0..MaxUser /\ req' \in Seq(Requests)
  <2>1. ASSUME NEW o \in Outputs, QueryName(o) PROVE Queried  BY <2>1 DEF QueryName
  <2>2. ASSUME QueryFiles PROVE Queried  BY <2>2 DEF QueryFiles
  <2>3. ASSUME QueryLive PROVE Queried
    <3>1. gpCounter' \in 0..(LivePollPeriod - 1)  BY <2>3, ConstantsAssumption DEF QueryLive
    <3>2. req' \in Seq(Requests)
      <4>1. CASE gpCounter' = 0  BY <2>3, <4>1 DEF QueryLive
      <4>2. CASE gpCounter' # 0  BY <2>3, <4>2 DEF QueryLive
      <4> QED  BY <4>1, <4>2
    <3> QED  BY <2>3, <3>1, <3>2 DEF QueryLive
  <2>4. Queried  BY <1>4, <2>1, <2>2, <2>3 DEF PollIdle
  <2> QED  BY <1>1, <1>4, <2>4 DEF PollIdle
<1>5. CASE RequestTimeout  BY <1>5, ConstantsAssumption DEF RequestTimeout
<1>6. CASE ResponseTimeout  BY <1>6, ReconnectTyped DEF ResponseTimeout
<1> QED  BY <1>2, <1>3, <1>4, <1>5, <1>6 DEF Poll

LEMMA VersionStep ==
    ASSUME NEW v \in [Keys -> Vers], NEW k \in Keys, v[k] < MaxVer
    PROVE  [v EXCEPT ![k] = @ + 1] \in [Keys -> Vers]
<1>1. v[k] \in 0..MaxVer /\ MaxVer \in Nat  BY ConstantsAssumption DEF Vers
<1>2. v[k] + 1 \in Vers  BY <1>1 DEF Vers
<1> QED  BY <1>2

\* One step of the user, the printer, the line or time.
LEMMA DataOutside ==
    DataOK /\ (LineFallsQuiet \/ Tick \/ UserActs \/ LeaveSetup \/ PrinterAnswers
               \/ LineFault \/ ModelChanges \/ Reboot) => DataOK'
<1> SUFFICES ASSUME DataOK, LineFallsQuiet \/ Tick \/ UserActs \/ LeaveSetup
                            \/ PrinterAnswers \/ LineFault \/ ModelChanges \/ Reboot
             PROVE  DataOK'
    OBVIOUS
<1> USE DEF DataOK, panel, table, cursors, link, times, outs, user, printer
<1>1. CASE LineFallsQuiet  BY <1>1 DEF LineFallsQuiet
<1>2. CASE Tick  BY <1>2 DEF Tick, ReconnectAge
<1>3. CASE UserActs
  <2>1. userSteps' \in 0..MaxUser  BY <1>3, ConstantsAssumption DEF UserActs
  <2>2. req' \in Seq(Requests)
    <3>1. req' = Append(req, Request("user", NoSeq, NoQuery)) \/ req' = req
      BY <1>3, Zenon DEF UserActs, Send
    <3>2. Append(req, Request("user", NoSeq, NoQuery)) \in Seq(Requests)
      <4>1. req \in Seq(Requests) /\ Request("user", NoSeq, NoQuery) \in Requests
        BY RequestTyped
      <4> QED  BY <4>1
    <3>3. req \in Seq(Requests)  OBVIOUS
    <3> QED  BY <3>1, <3>2, <3>3, Zenon
  <2>3. side' \in {"none", "file", "thumbnail"}  BY <1>3 DEF UserActs
  <2> QED  BY <1>3, <2>1, <2>2, <2>3 DEF UserActs
<1>4. CASE LeaveSetup  BY <1>4 DEF LeaveSetup
<1>5. CASE PrinterAnswers
  <2>1. req' \in Seq(Requests) /\ resp' \in Seq(Responses) /\ resp' # <<>>
    <3>1. PICK st \in PrinterStatuses : Reply(Response(Head(req), st, "whole"))
      BY <1>5 DEF PrinterAnswers
    <3>2. req # <<>>  BY <1>5 DEF PrinterAnswers
    <3>3. Response(Head(req), st, "whole") \in Responses /\ Tail(req) \in Seq(Requests)
      BY <3>2, ResponseTyped
    <3>4. PICK m \in Responses : resp' = Append(resp, m) /\ req' = Tail(req)
      BY <3>1, <3>3, Zenon DEF Reply
    <3>5. resp \in Seq(Responses)  OBVIOUS
    <3>6. resp' \in Seq(Responses) /\ resp' # <<>>  BY <3>4, <3>5, SMTT(60)
    <3> QED  BY <3>3, <3>4, <3>6, Zenon
  <2> QED  BY <1>5, <2>1 DEF PrinterAnswers
<1>6. CASE LineFault
  <2> DEFINE LineTyped == /\ req' \in Seq(Requests) /\ resp' \in Seq(Responses)
                          /\ (resp # <<>> => resp' # <<>>)
  <2>1. req # <<>> /\ faults < MaxFaults /\ faults' = faults + 1  BY <1>6 DEF LineFault
  <2>2. Tail(req) \in Seq(Requests)  BY <2>1
  <2>3. ASSUME NEW m \in Responses, Reply(m) PROVE LineTyped
    BY <2>2, <2>3, SMTT(60) DEF Reply
  <2>4. LineTyped
    <3>1. CASE req' = Tail(req) /\ UNCHANGED resp  BY <2>2, <3>1
    <3>2. CASE \E st \in PrinterStatuses, d \in FaultKinds \cap Damages :
                  Reply(Response(Head(req), st, d))
      BY <2>1, <2>3, <3>2, ResponseTyped
    <3>3. CASE \E st \in PrinterStatuses, k \in {Head(req).key, NoSeq} :
                  Reply([Response(Head(req), st, "whole") EXCEPT !.kind = "oob", !.key = k])
      BY <2>1, <2>3, <3>3, ResponseTyped
    <3> QED  BY <1>6, <3>1, <3>2, <3>3 DEF LineFault
  <2>5. faults' \in 0..MaxFaults  BY <2>1, ConstantsAssumption
  <2>6. UNCHANGED <<panel, user, stage, ver, boot>>  BY <1>6 DEF LineFault
  <2> QED  BY <2>4, <2>5, <2>6
<1>7. CASE ModelChanges
  <2>1. PICK k \in Keys : ver[k] < MaxVer /\ ver' = [ver EXCEPT ![k] = @ + 1]
    BY <1>7 DEF ModelChanges
  <2>2. ver \in [Keys -> Vers]  OBVIOUS
  <2>3. [ver EXCEPT ![k] = @ + 1] \in [Keys -> Vers]  BY <2>1, <2>2, VersionStep
  <2>4. ver' \in [Keys -> Vers]  BY <2>1, <2>3
  <2> QED  BY <1>7, <2>4 DEF ModelChanges
<1>8. CASE Reboot
  <2>1. boot' \in Boots  BY <1>8, ConstantsAssumption DEF Reboot, Boots
  <2>2. ver' \in [Keys -> Vers]  BY <1>8, InitialValues DEF Reboot
  <2>3. req' \in Seq(Requests)  BY <1>8 DEF Reboot
  <2> QED  BY <1>8, <2>1, <2>2, <2>3 DEF Reboot
<1> QED  BY <1>1, <1>2, <1>3, <1>4, <1>5, <1>6, <1>7, <1>8

LEMMA FlagsInit == Init => FlagsOK
BY DEF Init, FlagsOK

\* What a whole response sets: its flags are flags, in every step.
LEMMA FlagsStep == FlagsOK /\ Next => FlagsOK'
<1> SUFFICES ASSUME FlagsOK, Next PROVE FlagsOK'  OBVIOUS
<1> USE DEF FlagsOK, panel, table, cursors, link, times, outs, user, printer,
            Polled, Reconnect
<1>1. CASE StartReceivedMessage  BY <1>1, Zenon DEF StartReceivedMessage
<1>2. CASE ReceiveKey  BY <1>2, Zenon DEF ReceiveKey
<1>3. CASE ReceiveSeqs  BY <1>3, Zenon DEF ReceiveSeqs
<1>4. CASE ReceiveDetail  BY <1>4, Zenon DEF ReceiveDetail
<1>5. CASE ReceiveState  BY <1>5, Zenon DEF ReceiveState
<1>6. CASE ReceiveResp  BY <1>6, Zenon DEF ReceiveResp
<1>7. CASE ReceiveOther  BY <1>7, Zenon DEF ReceiveOther
<1>8. CASE EndReceivedMessage  BY <1>8, Zenon DEF EndReceivedMessage
<1>9. CASE ParserErrorEncountered  BY <1>9, Zenon DEF ParserErrorEncountered
<1>10. CASE AbandonLine  BY <1>10, Zenon DEF AbandonLine
<1>11. CASE PollThumbnail  BY <1>11, Zenon DEF PollThumbnail
<1>12. CASE PollSeq  BY <1>12, Zenon DEF PollSeq
<1>13. CASE PollIdle
  <2>1. setupTab' = setupTab
    BY <1>13, Zenon DEF PollIdle, QueryName, QueryFiles, QueryLive
  <2> QED  BY <1>13, <2>1, Zenon DEF PollIdle
<1>14. CASE RequestTimeout  BY <1>14, Zenon DEF RequestTimeout
<1>15. CASE ResponseTimeout  BY <1>15, Zenon DEF ResponseTimeout
<1>16. CASE LineFallsQuiet  BY <1>16, Zenon DEF LineFallsQuiet
<1>17. CASE Tick  BY <1>17, Zenon DEF Tick
<1>18. CASE UserActs  BY <1>18, Zenon DEF UserActs
<1>19. CASE LeaveSetup  BY <1>19, Zenon DEF LeaveSetup
<1>20. CASE PrinterAnswers  BY <1>20, Zenon DEF PrinterAnswers
<1>21. CASE LineFault  BY <1>21, Zenon DEF LineFault
<1>22. CASE ModelChanges  BY <1>22, Zenon DEF ModelChanges
<1>23. CASE Reboot  BY <1>23, Zenon DEF Reboot
<1> QED
  BY <1>1, <1>2, <1>3, <1>4, <1>5, <1>6, <1>7, <1>8, <1>9, <1>10, <1>11, <1>12, <1>13,
     <1>14, <1>15, <1>16, <1>17, <1>18, <1>19, <1>20, <1>21, <1>22, <1>23, Zenon
  DEF Next, CheckInput, Poll

\* Every variable keeps its type, whatever is lost, damaged, late or restarted:
\* in particular a message stays in the parser's hands until it is closed or
\* abandoned, and the pointers into the seqs table stay inside it.
THEOREM TypeCorrect == Spec => []TypeOK
<1>1. Init => TypeOK  BY DataInit, FlagsInit DEF TypeOK
<1>2. TypeOK /\ [Next]_vars => TypeOK'
  <2> SUFFICES ASSUME TypeOK, [Next]_vars PROVE TypeOK'  OBVIOUS
  <2>1. CASE Next
    <3>1. DataOK /\ FlagsOK  BY DEF TypeOK
    <3>2. FlagsOK'  BY <2>1, <3>1, FlagsStep
    <3>3. DataOK'
      BY <2>1, <3>1, DataCheckInput, DataPoll, DataOutside, Zenon DEF Next
    <3> QED  BY <3>2, <3>3 DEF TypeOK
  <2>2. CASE UNCHANGED vars
    <3>1. DataOK'  BY <2>2, Zenon DEF TypeOK, DataOK, vars, msg
    <3>2. FlagsOK'  BY <2>2, Zenon DEF TypeOK, FlagsOK, vars
    <3> QED  BY <3>1, <3>2 DEF TypeOK
  <2> QED  BY <2>1, <2>2
<1> QED  BY <1>1, <1>2, PTL DEF Spec

-----------------------------------------------------------------------------
(* An entry that is Ok has been fetched.  The numbers of the model only grow *)
(* from one response to the next, so it is enough that a response is counted *)
(* for the entry it is about (Attributed) and that no announced number is    *)
(* ahead of the responses still to be parsed (Announced).                    *)

\* What makes OkMeansFetched inductive on a line that damages nothing, a fact at a
\* time.

\* Message m was written no earlier than message p.
NotOlder(m, p) ==
    \A k \in Keys : AtLeast(<<m.boot, m.ver[k]>>, <<p.boot, p.ver[k]>>)

\* Live requests and responses name no key, and those for the live fields of "state"
\* name that.
WellFormed(m) ==
    /\ m.kind = "live" => m.key = NoSeq
    /\ m.kind = "state" => m.key = StateKey

Shapes ==
    /\ \A i \in 1..Len(req) : WellFormed(req[i])
    /\ \A i \in 1..Len(resp) : WellFormed(resp[i]) /\ resp[i].fate = "whole"

\* Responses arrive in the order they were written in, after those already parsed.
InOrder ==
    /\ boot # 0
    /\ \A i \in 1..Len(resp) :
          /\ resp[i].boot # 0 /\ resp[i].boot >= remoteBoot
          /\ \A k \in Keys : AtLeast(<<boot, ver[k]>>, <<resp[i].boot, resp[i].ver[k]>>)
          /\ \A j \in i..Len(resp) : NotOlder(resp[j], resp[i])
    /\ boot >= remoteBoot

\* A number announced is that of the printer, or of what is still to come, or older.
Announced ==
    \A k \in Keys : lastSeq[k] # 0 =>
        /\ AtLeast(<<boot, ver[k]>>, <<remoteBoot, lastSeq[k]>>)
        /\ \A i \in 1..Len(resp) :
              AtLeast(<<resp[i].boot, resp[i].ver[k]>>, <<remoteBoot, lastSeq[k]>>)

\* Numbers announced before any uptime are those of the message being parsed, and
\* no entry with such a number is Ok.
FirstAnnounced ==
    remoteBoot = 0 => \A k \in Keys : lastSeq[k] # 0 =>
        /\ stage = "fields" /\ msg.kind = "live" /\ lastSeq = msg.ver
        /\ seqState[k] # "Ok"

\* The entry a message will be counted for is the one it is about, and when it is
\* about to be, the entry's model has been taken from it.
Attributed ==
    /\ stage \in {"idle", "key"} => currentRespSeq = NoSeq
    /\ stage \notin {"idle", "key"} =>
          currentRespSeq = IF Keyed(msg) THEN msg.key ELSE NoSeq
    /\ stage = "seqs" => msg.kind = "live"
    /\ stage = "closing" /\ msg.kind = "oob" => outOfBuffers
    /\ stage = "closing" /\ msg.kind = "detail" /\ msg.key \in Keys \ {StateKey} =>
          got[msg.key] = <<msg.boot, msg.ver[msg.key]>>

OkInv == Shapes /\ InOrder /\ Announced /\ FirstAnnounced /\ Attributed /\ OkMeansFetched

\* Sequences by index.
LEMMA HeadIndex ==
    ASSUME NEW S, NEW s \in Seq(S), s # <<>>
    PROVE  1 \in 1..Len(s) /\ Head(s) = s[1] /\ Head(s) \in S
OBVIOUS

LEMMA TailIndex ==
    ASSUME NEW S, NEW s \in Seq(S), s # <<>>
    PROVE  /\ Tail(s) \in Seq(S)
           /\ \A i \in 1..Len(Tail(s)) : i + 1 \in 1..Len(s) /\ Tail(s)[i] = s[i + 1]
OBVIOUS

LEMMA AppendIndex ==
    ASSUME NEW S, NEW s \in Seq(S), NEW x \in S
    PROVE  /\ Append(s, x) \in Seq(S) /\ Append(s, x) # <<>>
           /\ Len(Append(s, x)) = Len(s) + 1
           /\ Append(s, x)[Len(s) + 1] = x
           /\ \A i \in 1..Len(s) : i \in 1..Len(Append(s, x)) /\ Append(s, x)[i] = s[i]
           /\ \A i \in 1..Len(Append(s, x)) : i \in 1..Len(s) \/ i = Len(s) + 1
           /\ s # <<>> => Head(Append(s, x)) = Head(s)
OBVIOUS

\* The lexicographic order is one.
LEMMA AtLeastReflexive ==
    ASSUME NEW a \in Nat, NEW b \in Nat PROVE AtLeast(<<a, b>>, <<a, b>>)
BY DEF AtLeast

LEMMA AtLeastTransitive ==
    ASSUME NEW a \in Nat, NEW b \in Nat, NEW c \in Nat, NEW d \in Nat,
           NEW e \in Nat, NEW f \in Nat,
           AtLeast(<<a, b>>, <<c, d>>), AtLeast(<<c, d>>, <<e, f>>)
    PROVE  AtLeast(<<a, b>>, <<e, f>>)
BY DEF AtLeast

\* A message of a later life of the printer is newer than the same number before it.
LEMMA AtLeastOlderBoot ==
    ASSUME NEW a \in Nat, NEW b \in Nat, NEW c \in Nat, NEW d \in Nat,
           NEW e \in Nat, e <= c, AtLeast(<<a, b>>, <<c, d>>)
    PROVE  AtLeast(<<a, b>>, <<e, d>>)
BY DEF AtLeast

\* Steps of the loop, of time and of the user: nothing is received, no entry becomes
\* Ok, and at most a request is sent.
LoopStep ==
    /\ UNCHANGED <<lastSeq, currentRespSeq, outOfBuffers, remoteBoot, stage, resp, ver,
                   boot, got>>
    /\ \A k \in Keys : seqState'[k] = "Ok" => seqState[k] = "Ok"
    /\ req' = req \/ \E r \in Requests : WellFormed(r) /\ req' = Append(req, r)

\* Steps of the printer and the line.
LineStep ==
    /\ UNCHANGED <<seqState, lastSeq, currentRespSeq, outOfBuffers, remoteBoot, stage, ver,
                   boot, got>>
    /\ req # <<>> /\ req' = Tail(req)
    /\ \/ resp' = resp
       \/ \E m \in Responses : /\ WellFormed(Head(req)) => WellFormed(m)
                              /\ m.fate = "whole" /\ m.boot = boot /\ m.ver = ver
                              /\ resp' = Append(resp, m)

LEMMA RequestWellFormed ==
    /\ WellFormed(Request("side", NoSeq, NoQuery))
    /\ WellFormed(Request("user", NoSeq, NoQuery))
    /\ WellFormed(Request("live", NoSeq, NoQuery))
    /\ WellFormed(Request("state", StateKey, NoQuery))
    /\ \A k \in Keys : WellFormed(Request("detail", k, NoQuery))
    /\ \A o \in Outputs : WellFormed(Request("echo", NoSeq, o))
BY DEF WellFormed, Request

LEMMA SkippedErrorsOk ==
    ASSUME NEW c, NEW k \in Keys, SkippedErrors(c)[k] = "Ok" PROVE seqState[k] = "Ok"
BY DEF SkippedErrors

LEMMA LoopSteps ==
    DataOK /\ (Poll \/ RequestTimeout \/ LineFallsQuiet \/ Tick \/ UserActs \/ LeaveSetup)
        => LoopStep
<1> SUFFICES ASSUME DataOK, Poll \/ RequestTimeout \/ LineFallsQuiet \/ Tick \/ UserActs
                            \/ LeaveSetup
             PROVE  LoopStep
    OBVIOUS
<1> USE RequestTyped, RequestWellFormed
    DEF LoopStep, panel, table, cursors, link, times, outs, user, printer, Send
<1>1. CASE PollThumbnail  BY <1>1 DEF PollThumbnail
<1>2. CASE PollSeq
  <2>1. PICK k \in Keys : req' = Append(req, Request("detail", k, NoQuery))
    BY <1>2 DEF PollSeq
  <2>2. \A j \in Keys : seqState'[j] = "Ok" => seqState[j] = "Ok"
    BY <1>2, SkippedErrorsOk DEF PollSeq
  <2>3. UNCHANGED <<lastSeq, currentRespSeq, outOfBuffers, remoteBoot, stage, resp, ver,
                    boot, got>>
    BY <1>2 DEF PollSeq
  <2> QED  BY <2>1, <2>2, <2>3
<1>3. CASE PollIdle
  <2>1. \E r \in Requests : WellFormed(r) /\ req' = Append(req, r)
    <3>1. CASE \E o \in Outputs : QueryName(o)  BY <3>1 DEF QueryName
    <3>2. CASE QueryFiles  BY <3>2 DEF QueryFiles
    <3>3. CASE QueryLive
      <4>1. CASE gpCounter' = 0  BY <3>3, <4>1 DEF QueryLive
      <4>2. CASE gpCounter' # 0  BY <3>3, <4>2 DEF QueryLive
      <4> QED  BY <4>1, <4>2
    <3> QED  BY <1>3, <3>1, <3>2, <3>3 DEF PollIdle
  <2>2. \A j \in Keys : seqState'[j] = "Ok" => seqState[j] = "Ok"
    BY <1>3, SkippedErrorsOk DEF PollIdle
  <2>3. UNCHANGED <<lastSeq, currentRespSeq, outOfBuffers, remoteBoot, stage, resp, ver,
                    boot, got>>
    BY <1>3 DEF PollIdle
  <2> QED  BY <2>1, <2>2, <2>3
<1>4. CASE RequestTimeout  BY <1>4 DEF RequestTimeout
<1>5. CASE LineFallsQuiet  BY <1>5 DEF LineFallsQuiet
<1>6. CASE Tick  BY <1>6 DEF Tick
<1>7. CASE UserActs
  <2>1. req' = Append(req, Request("user", NoSeq, NoQuery)) \/ req' = req
    BY <1>7, Zenon DEF UserActs
  <2>2. UNCHANGED <<panel, stage, resp, printer>>  BY <1>7, Zenon DEF UserActs
  <2> QED  BY <2>1, <2>2
<1>8. CASE LeaveSetup  BY <1>8 DEF LeaveSetup
<1> QED  BY <1>1, <1>2, <1>3, <1>4, <1>5, <1>6, <1>7, <1>8 DEF Poll

LEMMA LineSteps ==
    ASSUME FaultKinds \cap Damages = {}, DataOK, PrinterAnswers \/ LineFault
    PROVE  LineStep
<1>1. /\ req # <<>> /\ Head(req) \in Requests
      /\ UNCHANGED <<seqState, lastSeq, currentRespSeq, outOfBuffers, remoteBoot, stage, ver,
                     boot, got>>
  <2>1. CASE PrinterAnswers
    BY <2>1 DEF PrinterAnswers, DataOK, panel, table, cursors, link, printer
  <2>2. CASE LineFault
    <3>1. req # <<>> /\ UNCHANGED <<panel, stage, ver, boot>>  BY <2>2, Zenon DEF LineFault
    <3> QED  BY <3>1 DEF DataOK, panel, table, cursors, link
  <2> QED  BY <2>1, <2>2
<1>2. ASSUME NEW st \in PrinterStatuses
      PROVE  LET m == Response(Head(req), st, "whole") IN
             /\ WellFormed(Head(req)) => WellFormed(m)
             /\ m \in Responses /\ m.fate = "whole" /\ m.boot = boot /\ m.ver = ver
  <2>1. Response(Head(req), st, "whole") \in Responses  BY <1>1, <1>2, ResponseTyped
  <2> QED  BY <2>1, <1>1 DEF Response, WellFormed, Requests
<1>3. ASSUME NEW st \in PrinterStatuses, NEW k \in {Head(req).key, NoSeq}
      PROVE  LET m == [Response(Head(req), st, "whole") EXCEPT !.kind = "oob", !.key = k] IN
             /\ WellFormed(m)
             /\ m \in Responses /\ m.fate = "whole" /\ m.boot = boot /\ m.ver = ver
  <2>1. [Response(Head(req), st, "whole") EXCEPT !.kind = "oob", !.key = k] \in Responses
    BY <1>1, <1>3, ResponseTyped
  <2> QED  BY <2>1, <1>1 DEF Response, WellFormed
<1>4. CASE PrinterAnswers  BY <1>1, <1>2, <1>4 DEF PrinterAnswers, Reply, LineStep
<1>5. CASE LineFault
  <2>1. CASE req' = Tail(req) /\ UNCHANGED resp  BY <1>1, <2>1 DEF LineStep
  <2>2. CASE \E st \in PrinterStatuses, k \in {Head(req).key, NoSeq} :
                Reply([Response(Head(req), st, "whole") EXCEPT !.kind = "oob", !.key = k])
    BY <1>1, <1>3, <2>2 DEF Reply, LineStep
  <2> QED  BY <1>5, <2>1, <2>2 DEF LineFault
<1> QED  BY <1>4, <1>5

\* Shapes.
LEMMA ShapesStep ==
    ASSUME FaultKinds \cap Damages = {}, DataOK, Shapes, Next PROVE Shapes'
<1>1. resp \in Seq(Responses) /\ req \in Seq(Requests)  BY DEF DataOK
<1>2. \A i \in 1..Len(req') : WellFormed(req'[i])
  <2>1. CASE req' = req  BY <2>1 DEF Shapes
  <2>2. CASE req # <<>> /\ req' = Tail(req)  BY <1>1, <2>2, TailIndex DEF Shapes
  <2>3. CASE req' = <<>>  BY <2>3
  <2>4. ASSUME NEW r \in Requests, WellFormed(r), req' = Append(req, r)
        PROVE  \A i \in 1..Len(req') : WellFormed(req'[i])
    BY <1>1, <2>4, AppendIndex DEF Shapes
  <2>5. CASE CheckInput \/ ResponseTimeout \/ ModelChanges
    <3>1. req' = req
      BY <2>5, Zenon DEF CheckInput, StartReceivedMessage, ReceiveKey, ReceiveSeqs,
         ReceiveDetail, ReceiveState, ReceiveResp, ReceiveOther, EndReceivedMessage,
         ParserErrorEncountered, AbandonLine, ResponseTimeout, ModelChanges
    <3> QED  BY <2>1, <3>1
  <2>6. CASE LoopStep  BY <2>1, <2>4, <2>6 DEF LoopStep
  <2>7. CASE LineStep  BY <2>2, <2>7 DEF LineStep
  <2>8. CASE Reboot  BY <2>3, <2>8 DEF Reboot
  <2> QED  BY <2>5, <2>6, <2>7, <2>8, LoopSteps, LineSteps, Zenon DEF Next
<1>3. \A i \in 1..Len(resp') : WellFormed(resp'[i]) /\ resp'[i].fate = "whole"
  <2>1. CASE resp' = resp  BY <2>1 DEF Shapes
  <2>2. CASE resp # <<>> /\ resp' = Tail(resp)  BY <1>1, <2>2, TailIndex DEF Shapes
  <2>3. CASE LineStep
    <3>1. req # <<>>  BY <2>3 DEF LineStep
    <3>2. WellFormed(Head(req))  BY <1>1, <3>1, HeadIndex DEF Shapes
    <3>3. ASSUME NEW m \in Responses, WellFormed(m), m.fate = "whole",
                 resp' = Append(resp, m)
          PROVE  \A i \in 1..Len(resp') : WellFormed(resp'[i]) /\ resp'[i].fate = "whole"
      BY <1>1, <3>3, AppendIndex DEF Shapes
    <3> QED  BY <2>1, <2>3, <3>2, <3>3 DEF LineStep
  <2>4. CASE LoopStep  BY <2>1, <2>4 DEF LoopStep
  <2>5. CASE CheckInput
    <3>1. resp' = resp \/ (stage # "idle" /\ resp' = Tail(resp))
      BY <2>5, Zenon DEF CheckInput, StartReceivedMessage, ReceiveKey, ReceiveSeqs,
         ReceiveDetail, ReceiveState, ReceiveResp, ReceiveOther, EndReceivedMessage,
         ParserErrorEncountered, AbandonLine
    <3> QED  BY <2>1, <2>2, <3>1 DEF DataOK
  <2>6. CASE ResponseTimeout \/ ModelChanges \/ Reboot
    BY <2>1, <2>6, Zenon DEF ResponseTimeout, ModelChanges, Reboot
  <2> QED  BY <2>3, <2>4, <2>5, <2>6, LoopSteps, LineSteps, Zenon DEF Next
<1> QED  BY <1>2, <1>3 DEF Shapes

\* The numbers compared are naturals.
LEMMA Numbers ==
    ASSUME DataOK
    PROVE  /\ resp \in Seq(Responses) /\ boot \in Nat /\ remoteBoot \in Nat
           /\ \A k \in Keys : ver[k] \in Nat /\ lastSeq[k] \in Nat
           /\ \A i \in 1..Len(resp) :
                 resp[i].boot \in Nat /\ \A k \in Keys : resp[i].ver[k] \in Nat
<1>1. /\ resp \in Seq(Responses) /\ boot \in Boots /\ remoteBoot \in Boots
      /\ ver \in [Keys -> Vers] /\ lastSeq \in [Keys -> Vers]
  BY DEF DataOK
<1>2. Boots \subseteq Nat /\ Vers \subseteq Nat  BY ConstantsAssumption DEF Boots, Vers
<1>3. \A i \in 1..Len(resp) : resp[i] \in Responses  BY <1>1
<1>4. \A i \in 1..Len(resp) : resp[i].boot \in Boots /\ resp[i].ver \in [Keys -> Vers]
  BY <1>3 DEF Responses
<1> QED  BY <1>1, <1>2, <1>4

\* InOrder.  What the printer writes now is newer than all it has written.
LEMMA InOrderAppend ==
    ASSUME DataOK, InOrder, NEW m \in Responses, m.boot = boot, m.ver = ver,
           resp' = Append(resp, m), UNCHANGED <<ver, boot, remoteBoot>>
    PROVE  InOrder'
<1>1. \A i \in 1..Len(resp') : \/ i \in 1..Len(resp) /\ resp'[i] = resp[i]
                               \/ i = Len(resp) + 1 /\ resp'[i] = m
  BY Numbers, AppendIndex
<1>2. Len(resp) \in Nat  BY Numbers
<1>3. \A k \in Keys : AtLeast(<<boot, ver[k]>>, <<boot, ver[k]>>)
  BY Numbers, AtLeastReflexive
<1>4. ASSUME NEW i \in 1..Len(resp')
      PROVE  /\ resp'[i].boot # 0 /\ resp'[i].boot >= remoteBoot
             /\ \A k \in Keys : AtLeast(<<boot, ver[k]>>, <<resp'[i].boot, resp'[i].ver[k]>>)
  BY <1>1, <1>3 DEF InOrder
<1>5. ASSUME NEW i \in 1..Len(resp'), NEW j \in i..Len(resp') PROVE NotOlder(resp'[j], resp'[i])
  <2>1. j \in 1..Len(resp')  BY <1>2
  <2>2. CASE j \in 1..Len(resp) /\ resp'[j] = resp[j]
    <3>1. i \in 1..Len(resp) /\ j \in i..Len(resp)  BY <1>2, <2>2
    <3>2. resp'[i] = resp[i]  BY <1>1, <1>2, <3>1
    <3> QED  BY <2>2, <3>1, <3>2 DEF InOrder
  <2>3. CASE resp'[j] = m  BY <1>4, <2>3 DEF NotOlder
  <2> QED  BY <1>1, <2>1, <2>2, <2>3
<1>6. boot' # 0 /\ boot' >= remoteBoot' /\ boot' = boot /\ ver' = ver /\ remoteBoot' = remoteBoot
  BY DEF InOrder
<1> QED  BY <1>4, <1>5, <1>6 DEF InOrder, NotOlder

\* A line that has been parsed is behind us.
LEMMA InOrderTail ==
    ASSUME DataOK, InOrder, resp # <<>>, resp' = Tail(resp), UNCHANGED <<ver, boot, remoteBoot>>
    PROVE  InOrder'
<1>1. \A i \in 1..Len(resp') : i + 1 \in 1..Len(resp) /\ resp'[i] = resp[i + 1]
  BY Numbers, TailIndex
<1>2. ASSUME NEW i \in 1..Len(resp')
      PROVE  /\ resp'[i].boot # 0 /\ resp'[i].boot >= remoteBoot
             /\ \A k \in Keys : AtLeast(<<boot, ver[k]>>, <<resp'[i].boot, resp'[i].ver[k]>>)
  BY <1>1 DEF InOrder
<1>3. ASSUME NEW i \in 1..Len(resp'), NEW j \in i..Len(resp') PROVE NotOlder(resp'[j], resp'[i])
  <2>1. Len(resp') \in Nat /\ Len(resp) \in Nat  BY Numbers
  <2>2. j \in 1..Len(resp')  BY <2>1
  <2>3. i + 1 \in 1..Len(resp) /\ j + 1 \in 1..Len(resp) /\ resp'[i] = resp[i + 1]
        /\ resp'[j] = resp[j + 1]
    BY <1>1, <2>2
  <2>4. j + 1 \in (i + 1)..Len(resp)  BY <2>1, <2>3
  <2> QED  BY <2>3, <2>4 DEF InOrder
<1>4. boot' # 0 /\ boot' >= remoteBoot' /\ boot' = boot /\ ver' = ver /\ remoteBoot' = remoteBoot
  BY DEF InOrder
<1> QED  BY <1>2, <1>3, <1>4 DEF InOrder, NotOlder

\* The printer's model changes, or the printer restarts.
Newer == \A k \in Keys : AtLeast(<<boot', ver'[k]>>, <<boot, ver[k]>>)

LEMMA NewerSteps ==
    ASSUME DataOK, ModelChanges \/ Reboot
    PROVE  /\ Newer /\ boot' \in Nat /\ boot' >= boot
           /\ \A k \in Keys : ver'[k] \in Nat
           /\ UNCHANGED <<seqState, lastSeq, currentRespSeq, outOfBuffers, remoteBoot, stage,
                          resp, got>>
<1>1. UNCHANGED <<seqState, lastSeq, currentRespSeq, outOfBuffers, remoteBoot, stage, resp, got>>
  <2>1. CASE ModelChanges  BY <2>1, Zenon DEF ModelChanges, panel, table, cursors, link
  <2>2. CASE Reboot  BY <2>2, Zenon DEF Reboot, panel, table, cursors, link
  <2> QED  BY <2>1, <2>2
<1>2. CASE ModelChanges
  <2>1. PICK k \in Keys : ver' = [ver EXCEPT ![k] = @ + 1] /\ boot' = boot
    BY <1>2 DEF ModelChanges
  <2>2. ver \in [Keys -> Vers]  BY DEF DataOK
  <2>3. \A j \in Keys : ver'[j] = ver[j] \/ ver'[j] = ver[j] + 1  BY <2>1, <2>2
  <2> QED  BY <1>1, <2>1, <2>3, Numbers DEF Newer, AtLeast
<1>3. CASE Reboot
  <2>1. boot' = boot + 1 /\ ver' = [k \in Keys |-> FirstVer]  BY <1>3 DEF Reboot
  <2> QED  BY <1>1, <2>1, Numbers, ConstantsAssumption DEF Newer, AtLeast
<1> QED  BY <1>2, <1>3

LEMMA InOrderNewer ==
    ASSUME DataOK, InOrder, Newer, boot' \in Nat, boot' >= boot, \A k \in Keys : ver'[k] \in Nat,
           UNCHANGED <<resp, remoteBoot>>
    PROVE  InOrder'
<1>1. ASSUME NEW i \in 1..Len(resp), NEW k \in Keys
      PROVE  AtLeast(<<boot', ver'[k]>>, <<resp[i].boot, resp[i].ver[k]>>)
  <2>1. AtLeast(<<boot', ver'[k]>>, <<boot, ver[k]>>)  BY DEF Newer
  <2>2. AtLeast(<<boot, ver[k]>>, <<resp[i].boot, resp[i].ver[k]>>)  BY DEF InOrder
  <2>3. /\ boot' \in Nat /\ ver'[k] \in Nat /\ boot \in Nat /\ ver[k] \in Nat
        /\ resp[i].boot \in Nat /\ resp[i].ver[k] \in Nat
    BY Numbers
  <2> QED  BY <2>1, <2>2, <2>3 DEF AtLeast
<1>2. boot' # 0 /\ boot' >= remoteBoot  BY Numbers DEF InOrder
<1> QED  BY <1>1, <1>2 DEF InOrder, NotOlder

\* The uptime of the message being parsed is taken over.
LEMMA InOrderUptime ==
    ASSUME DataOK, InOrder, resp # <<>>, remoteBoot' = msg.boot, UNCHANGED <<resp, ver, boot>>
    PROVE  InOrder'
<1>1. 1 \in 1..Len(resp) /\ msg = resp[1]  BY Numbers, HeadIndex DEF msg
<1>2. ASSUME NEW i \in 1..Len(resp) PROVE resp[i].boot >= msg.boot
  <2>1. i \in 1..Len(resp) /\ 1 \in Keys  BY ConstantsAssumption DEF Keys
  <2>2. NotOlder(resp[i], resp[1])  BY <1>1, Numbers DEF InOrder
  <2> QED  BY <1>1, <2>1, <2>2, Numbers DEF NotOlder, AtLeast
<1>3. boot >= msg.boot
  <2>1. 1 \in Keys  BY ConstantsAssumption DEF Keys
  <2>2. AtLeast(<<boot, ver[1]>>, <<resp[1].boot, resp[1].ver[1]>>)  BY <1>1, <2>1 DEF InOrder
  <2> QED  BY <1>1, <2>1, <2>2, Numbers DEF AtLeast
<1> QED  BY <1>2, <1>3 DEF InOrder, NotOlder

\* What a step of the parser does to the line and to the uptime known.
LEMMA ParserSteps ==
    ASSUME DataOK, CheckInput
    PROVE  /\ UNCHANGED <<ver, boot>>
           /\ \/ resp' = resp /\ remoteBoot' = remoteBoot
              \/ resp # <<>> /\ resp' = resp /\ remoteBoot' = msg.boot /\ ReceiveState
              \/ resp # <<>> /\ resp' = Tail(resp) /\ remoteBoot' = remoteBoot
<1>1. UNCHANGED <<ver, boot>>
  BY Zenon DEF CheckInput, StartReceivedMessage, ReceiveKey, ReceiveSeqs, ReceiveDetail,
     ReceiveState, ReceiveResp, ReceiveOther, EndReceivedMessage, ParserErrorEncountered,
     AbandonLine, printer
<1>2. CASE ReceiveState
  <2>1. resp' = resp /\ remoteBoot' = msg.boot /\ stage # "idle"  BY <1>2 DEF ReceiveState
  <2> QED  BY <1>1, <1>2, <2>1 DEF DataOK
<1>3. CASE EndReceivedMessage \/ ParserErrorEncountered \/ AbandonLine
  <2>1. resp' = Tail(resp) /\ remoteBoot' = remoteBoot /\ stage # "idle"
    BY <1>3 DEF EndReceivedMessage, ParserErrorEncountered, AbandonLine, link
  <2> QED  BY <1>1, <2>1 DEF DataOK
<1>4. CASE \/ StartReceivedMessage \/ ReceiveKey \/ ReceiveSeqs \/ ReceiveDetail
           \/ ReceiveResp \/ ReceiveOther
  <2>1. resp' = resp /\ remoteBoot' = remoteBoot
    BY <1>4, Zenon DEF StartReceivedMessage, ReceiveKey, ReceiveSeqs, ReceiveDetail,
       ReceiveResp, ReceiveOther, link
  <2> QED  BY <1>1, <2>1
<1> QED  BY <1>2, <1>3, <1>4, Zenon DEF CheckInput

LEMMA InOrderStep ==
    ASSUME FaultKinds \cap Damages = {}, DataOK, InOrder, Next PROVE InOrder'
<1>1. CASE UNCHANGED <<resp, ver, boot, remoteBoot>>
  BY <1>1 DEF InOrder, NotOlder
<1>2. CASE LoopStep  BY <1>1, <1>2 DEF LoopStep
<1>3. CASE LineStep  BY <1>1, <1>3, InOrderAppend DEF LineStep
<1>4. CASE ResponseTimeout  BY <1>1, <1>4, Zenon DEF ResponseTimeout, printer
<1>5. CASE ModelChanges \/ Reboot  BY <1>5, NewerSteps, InOrderNewer
<1>6. CASE CheckInput  BY <1>1, <1>6, ParserSteps, InOrderUptime, InOrderTail
<1> QED  BY <1>2, <1>3, <1>4, <1>5, <1>6, LoopSteps, LineSteps, Zenon DEF Next

\* Announced.
LEMMA AnnouncedAppend ==
    ASSUME DataOK, Announced, NEW m \in Responses, m.boot = boot, m.ver = ver,
           resp' = Append(resp, m), UNCHANGED <<ver, boot, remoteBoot, lastSeq>>
    PROVE  Announced'
<1>1. \A i \in 1..Len(resp') : \/ i \in 1..Len(resp) /\ resp'[i] = resp[i]
                               \/ i = Len(resp) + 1 /\ resp'[i] = m
  BY Numbers, AppendIndex
<1> QED  BY <1>1 DEF Announced

LEMMA AnnouncedTail ==
    ASSUME DataOK, Announced, resp # <<>>, resp' = Tail(resp),
           UNCHANGED <<ver, boot, remoteBoot, lastSeq>>
    PROVE  Announced'
<1>1. \A i \in 1..Len(resp') : i + 1 \in 1..Len(resp) /\ resp'[i] = resp[i + 1]
  BY Numbers, TailIndex
<1> QED  BY <1>1 DEF Announced

LEMMA AnnouncedNewer ==
    ASSUME DataOK, Announced, Newer, boot' \in Nat, \A k \in Keys : ver'[k] \in Nat,
           UNCHANGED <<resp, remoteBoot, lastSeq>>
    PROVE  Announced'
<1>1. ASSUME NEW k \in Keys, lastSeq[k] # 0
      PROVE  AtLeast(<<boot', ver'[k]>>, <<remoteBoot, lastSeq[k]>>)
  <2>1. AtLeast(<<boot', ver'[k]>>, <<boot, ver[k]>>)  BY DEF Newer
  <2>2. AtLeast(<<boot, ver[k]>>, <<remoteBoot, lastSeq[k]>>)  BY <1>1 DEF Announced
  <2>3. /\ boot' \in Nat /\ ver'[k] \in Nat /\ boot \in Nat /\ ver[k] \in Nat
        /\ remoteBoot \in Nat /\ lastSeq[k] \in Nat
    BY Numbers
  <2> QED  BY <2>1, <2>2, <2>3, AtLeastTransitive
<1> QED  BY <1>1 DEF Announced

\* The numbers of the message being parsed are those of what is still to come, or older.
LEMMA HeadAnnounced ==
    ASSUME DataOK, InOrder, resp # <<>>, NEW k \in Keys, NEW b \in Nat, b <= msg.boot
    PROVE  /\ AtLeast(<<boot, ver[k]>>, <<b, msg.ver[k]>>)
           /\ \A i \in 1..Len(resp) :
                 AtLeast(<<resp[i].boot, resp[i].ver[k]>>, <<b, msg.ver[k]>>)
<1>1. 1 \in 1..Len(resp) /\ msg = resp[1]  BY Numbers, HeadIndex DEF msg
<1>2. msg.boot \in Nat /\ msg.ver[k] \in Nat /\ boot \in Nat /\ ver[k] \in Nat
  BY <1>1, Numbers
<1>3. AtLeast(<<boot, ver[k]>>, <<b, msg.ver[k]>>)
  <2>1. AtLeast(<<boot, ver[k]>>, <<msg.boot, msg.ver[k]>>)  BY <1>1 DEF InOrder
  <2> QED  BY <1>2, <2>1, AtLeastOlderBoot
<1>4. ASSUME NEW i \in 1..Len(resp)
      PROVE  AtLeast(<<resp[i].boot, resp[i].ver[k]>>, <<b, msg.ver[k]>>)
  <2>1. NotOlder(resp[i], resp[1])  BY <1>1, Numbers DEF InOrder
  <2>2. AtLeast(<<resp[i].boot, resp[i].ver[k]>>, <<msg.boot, msg.ver[k]>>)
    BY <1>1, <2>1 DEF NotOlder
  <2>3. resp[i].boot \in Nat /\ resp[i].ver[k] \in Nat  BY Numbers
  <2> QED  BY <1>2, <2>2, <2>3, AtLeastOlderBoot
<1> QED  BY <1>3, <1>4

\* What a step of the parser does to the numbers announced.
LEMMA ParserNumbers ==
    ASSUME DataOK, CheckInput
    PROVE  \/ lastSeq' = lastSeq
           \/ ReceiveSeqs /\ lastSeq' = msg.ver /\ resp # <<>>
           \/ ReceiveState /\ lastSeq' = [k \in Keys |-> 0]
<1>1. CASE ReceiveSeqs
  <2>1. lastSeq' = msg.ver /\ stage # "idle"  BY <1>1 DEF ReceiveSeqs, UpdateSeqs
  <2> QED  BY <1>1, <2>1 DEF DataOK
<1>2. CASE ReceiveState  BY <1>2, Zenon DEF ReceiveState, Reconnect, table
<1>3. CASE \/ StartReceivedMessage \/ ReceiveKey \/ ReceiveDetail \/ ReceiveResp
           \/ ReceiveOther \/ EndReceivedMessage \/ ParserErrorEncountered \/ AbandonLine
  BY <1>3, Zenon DEF StartReceivedMessage, ReceiveKey, ReceiveDetail, ReceiveResp,
     ReceiveOther, EndReceivedMessage, ParserErrorEncountered, AbandonLine, table
<1> QED  BY <1>1, <1>2, <1>3, Zenon DEF CheckInput

LEMMA AnnouncedStep ==
    ASSUME FaultKinds \cap Damages = {}, DataOK, InOrder, Announced, FirstAnnounced, Next
    PROVE  Announced'
<1>1. CASE UNCHANGED <<resp, ver, boot, remoteBoot, lastSeq>>  BY <1>1 DEF Announced
<1>2. CASE LoopStep  BY <1>1, <1>2 DEF LoopStep
<1>3. CASE LineStep  BY <1>1, <1>3, AnnouncedAppend DEF LineStep
<1>4. CASE lastSeq' = [k \in Keys |-> 0]  BY <1>4 DEF Announced
<1>5. CASE ResponseTimeout  BY <1>4, <1>5 DEF ResponseTimeout, Reconnect
<1>6. CASE ModelChanges \/ Reboot  BY <1>6, NewerSteps, AnnouncedNewer
<1>7. CASE CheckInput
  <2>1. UNCHANGED <<ver, boot>>  BY <1>7, ParserSteps
  <2>2. CASE ReceiveSeqs
    <3>1. /\ resp # <<>> /\ resp' = resp /\ remoteBoot' = remoteBoot /\ lastSeq' = msg.ver
      BY <2>2 DEF ReceiveSeqs, UpdateSeqs, link, DataOK
    <3>2. remoteBoot \in Nat /\ remoteBoot <= msg.boot
      BY <3>1, Numbers, HeadIndex DEF InOrder, msg
    <3> QED  BY <2>1, <3>1, <3>2, HeadAnnounced DEF Announced
  <2>3. CASE ReceiveState
    <3>1. resp # <<>> /\ resp' = resp /\ remoteBoot' = msg.boot
      BY <2>3 DEF ReceiveState, DataOK
    <3>2. CASE lastSeq' = lastSeq /\ msg.boot = remoteBoot  BY <1>1, <2>1, <3>1, <3>2
    <3>3. CASE lastSeq' = lastSeq /\ remoteBoot = 0
      <4>1. \A k \in Keys : lastSeq[k] # 0 => lastSeq = msg.ver  BY <3>3 DEF FirstAnnounced
      <4>2. msg.boot \in Nat  BY <3>1, Numbers, HeadIndex DEF msg
      <4> QED  BY <2>1, <3>1, <3>3, <4>1, <4>2, HeadAnnounced DEF Announced
    <3> QED  BY <1>4, <2>3, <3>2, <3>3, Zenon DEF ReceiveState, Reconnect, table
  <2>4. CASE ~ReceiveSeqs /\ ~ReceiveState
    <3>1. lastSeq' = lastSeq  BY <1>7, <2>4, ParserNumbers
    <3> QED  BY <1>1, <1>7, <2>1, <2>4, <3>1, ParserSteps, AnnouncedTail
  <2> QED  BY <2>2, <2>3, <2>4
<1> QED  BY <1>2, <1>3, <1>5, <1>6, <1>7, LoopSteps, LineSteps, Zenon DEF Next

\* The message in the parser's hands stays at the head while more is written.
LEMMA SameMessage ==
    ASSUME DataOK, LineStep, stage # "idle" PROVE msg' = msg
<1>1. resp # <<>> /\ resp \in Seq(Responses)  BY DEF DataOK
<1> QED  BY <1>1, AppendIndex DEF LineStep, msg

\* FirstAnnounced.
LEMMA FirstAnnouncedStep ==
    ASSUME FaultKinds \cap Damages = {}, DataOK, Shapes, InOrder, FirstAnnounced,
           Attributed, Next
    PROVE  FirstAnnounced'
<1>1. CASE LoopStep
  <2>1. /\ remoteBoot' = remoteBoot /\ lastSeq' = lastSeq /\ stage' = stage /\ msg' = msg
        /\ \A k \in Keys : seqState'[k] = "Ok" => seqState[k] = "Ok"
    BY <1>1 DEF LoopStep, msg
  <2> QED  BY <2>1 DEF FirstAnnounced
<1>2. CASE LineStep
  <2>1. /\ remoteBoot' = remoteBoot /\ lastSeq' = lastSeq /\ stage' = stage
        /\ seqState' = seqState /\ (stage = "fields" => msg' = msg)
    BY <1>2, SameMessage DEF LineStep
  <2> QED  BY <2>1 DEF FirstAnnounced
<1>3. CASE lastSeq' = [k \in Keys |-> 0]  BY <1>3 DEF FirstAnnounced
<1>4. CASE ResponseTimeout  BY <1>3, <1>4 DEF ResponseTimeout, Reconnect
<1>5. CASE ModelChanges \/ Reboot
  <2>1. UNCHANGED <<seqState, lastSeq, remoteBoot, stage, resp>>  BY <1>5, NewerSteps
  <2>2. msg' = msg  BY <2>1 DEF msg
  <2> QED  BY <2>1, <2>2 DEF FirstAnnounced
<1>6. CASE CheckInput
  <2>1. CASE ReceiveState
    <3>1. resp # <<>> /\ remoteBoot' = msg.boot  BY <2>1 DEF ReceiveState, DataOK
    <3>2. msg.boot # 0  BY <3>1, Numbers, HeadIndex DEF InOrder, msg
    <3> QED  BY <3>1, <3>2 DEF FirstAnnounced
  <2>2. CASE ReceiveSeqs
    <3>1. /\ remoteBoot' = remoteBoot /\ stage' = "fields" /\ stage = "seqs"
          /\ resp' = resp /\ lastSeq' = msg.ver /\ resp # <<>>
          /\ seqState' = [k \in Keys |->
                             IF lastSeq[k] # msg.ver[k] THEN "Update" ELSE seqState[k]]
      BY <2>2 DEF ReceiveSeqs, UpdateSeqs, link, DataOK
    <3>2. remoteBoot = 0 => \A k \in Keys : lastSeq[k] = 0  BY <3>1 DEF FirstAnnounced
    <3>3. msg' = msg /\ msg.kind = "live"  BY <3>1 DEF msg, Attributed
    <3>4. \A k \in Keys : remoteBoot = 0 /\ msg.ver[k] # 0 => seqState'[k] # "Ok"
      BY <3>1, <3>2
    <3> QED  BY <3>1, <3>3, <3>4 DEF FirstAnnounced
  <2>3. CASE ~ReceiveSeqs /\ ~ReceiveState
    <3>1. lastSeq' = lastSeq /\ remoteBoot' = remoteBoot
      BY <1>6, <2>3, ParserNumbers, ParserSteps
    <3>2. stage # "fields" \/ msg.kind # "live"
      <4>1. CASE ReceiveDetail \/ ReceiveResp \/ ReceiveOther
        BY <4>1 DEF ReceiveDetail, ReceiveResp, ReceiveOther
      <4>2. CASE StartReceivedMessage \/ ReceiveKey \/ EndReceivedMessage
        BY <4>2 DEF StartReceivedMessage, ReceiveKey, EndReceivedMessage
      <4>3. CASE ParserErrorEncountered \/ AbandonLine
        <5>1. stage # "idle" /\ msg.fate # "whole"
          BY <4>3 DEF ParserErrorEncountered, AbandonLine
        <5>2. resp # <<>>  BY <5>1 DEF DataOK
        <5>3. msg.fate = "whole"  BY <5>2, Numbers, HeadIndex DEF Shapes, msg
        <5> QED  BY <5>1, <5>3
      <4> QED  BY <1>6, <2>3, <4>1, <4>2, <4>3, Zenon DEF CheckInput
    <3> QED  BY <3>1, <3>2 DEF FirstAnnounced
  <2> QED  BY <2>1, <2>2, <2>3
<1> QED  BY <1>1, <1>2, <1>4, <1>5, <1>6, LoopSteps, LineSteps, Zenon DEF Next

\* Attributed.
LEMMA AttributedUnchanged ==
    ASSUME Attributed, UNCHANGED <<currentRespSeq, outOfBuffers, stage, got>>,
           stage # "idle" => msg' = msg
    PROVE  Attributed'
<1>1. CASE stage = "idle"  BY <1>1 DEF Attributed
<1>2. CASE stage # "idle"
  <2>1. msg' = msg  BY <1>2
  <2>2. Keyed(msg') = Keyed(msg)  BY <2>1 DEF Keyed
  <2> QED  BY <2>1, <2>2 DEF Attributed
<1> QED  BY <1>1, <1>2

LEMMA AttributedStep ==
    ASSUME FaultKinds \cap Damages = {}, DataOK, Shapes, Attributed, Next PROVE Attributed'
<1>1. CASE LoopStep
  <2>1. UNCHANGED <<currentRespSeq, outOfBuffers, stage, got>> /\ msg' = msg
    BY <1>1, Zenon DEF LoopStep, msg
  <2> QED  BY <2>1, AttributedUnchanged
<1>2. CASE LineStep
  <2>1. UNCHANGED <<currentRespSeq, outOfBuffers, stage, got>>  BY <1>2, Zenon DEF LineStep
  <2> QED  BY <1>2, <2>1, SameMessage, AttributedUnchanged
<1>3. CASE ResponseTimeout
  <2>1. UNCHANGED <<currentRespSeq, outOfBuffers, stage, got>> /\ msg' = msg
    BY <1>3, Zenon DEF ResponseTimeout, cursors, msg
  <2> QED  BY <2>1, AttributedUnchanged
<1>4. CASE ModelChanges \/ Reboot
  <2>1. UNCHANGED <<currentRespSeq, outOfBuffers, stage, got>> /\ resp' = resp
    BY <1>4, Zenon DEF ModelChanges, Reboot, panel, cursors
  <2>2. msg' = msg  BY <2>1 DEF msg
  <2> QED  BY <2>1, <2>2, AttributedUnchanged
<1>5. CASE StartReceivedMessage
  BY <1>5 DEF StartReceivedMessage, Attributed, cursors
<1>6. CASE ReceiveKey
  <2>1. /\ stage = "key" /\ stage' = (IF msg.kind = "live" THEN "seqs" ELSE "fields")
        /\ currentRespSeq' = (IF Keyed(msg) THEN msg.key ELSE currentRespSeq)
        /\ resp' = resp
    BY <1>6 DEF ReceiveKey
  <2>2. msg' = msg /\ Keyed(msg') = Keyed(msg)  BY <2>1 DEF msg, Keyed
  <2> QED  BY <2>1, <2>2 DEF Attributed
<1>7. CASE ReceiveSeqs
  <2>1. /\ stage = "seqs" /\ stage' = "fields" /\ currentRespSeq' = currentRespSeq
        /\ resp' = resp
    BY <1>7 DEF ReceiveSeqs, cursors
  <2>2. msg' = msg /\ Keyed(msg') = Keyed(msg)  BY <2>1 DEF msg, Keyed
  <2> QED  BY <2>1, <2>2 DEF Attributed
<1>8. CASE ReceiveDetail
  <2>1. /\ stage = "fields" /\ stage' = "closing" /\ currentRespSeq' = currentRespSeq
        /\ resp' = resp /\ msg.kind = "detail"
        /\ got' = [got EXCEPT ![msg.key] = <<msg.boot, msg.ver[msg.key]>>]
    BY <1>8 DEF ReceiveDetail, cursors
  <2>2. msg' = msg /\ Keyed(msg') = Keyed(msg)  BY <2>1 DEF msg, Keyed
  <2>3. msg.key \in Keys => got'[msg.key] = <<msg.boot, msg.ver[msg.key]>>
    BY <2>1 DEF DataOK
  <2> QED  BY <2>1, <2>2, <2>3 DEF Attributed
<1>9. CASE ReceiveState
  <2>1. /\ stage = "fields" /\ stage' = "closing" /\ currentRespSeq' = currentRespSeq
        /\ resp' = resp /\ msg.kind # "oob"
        /\ msg.kind = "detail" => msg.key = StateKey
    BY <1>9 DEF ReceiveState, cursors
  <2>2. msg' = msg /\ Keyed(msg') = Keyed(msg)  BY <2>1 DEF msg, Keyed
  <2> QED  BY <2>1, <2>2 DEF Attributed
<1>10. CASE ReceiveResp
  <2>1. /\ stage = "fields" /\ stage' = "closing" /\ currentRespSeq' = currentRespSeq
        /\ resp' = resp /\ msg.kind = "resp"
    BY <1>10 DEF ReceiveResp, cursors
  <2>2. msg' = msg /\ Keyed(msg') = Keyed(msg)  BY <2>1 DEF msg, Keyed
  <2> QED  BY <2>1, <2>2 DEF Attributed
<1>11. CASE ReceiveOther
  <2>1. /\ stage = "fields" /\ stage' = "closing" /\ currentRespSeq' = currentRespSeq
        /\ resp' = resp /\ msg.kind \in {"oob", "side"}
    BY <1>11 DEF ReceiveOther
  <2>2. msg.kind = "oob" => outOfBuffers'  BY <1>11, Zenon DEF ReceiveOther
  <2>3. msg' = msg /\ Keyed(msg') = Keyed(msg)  BY <2>1 DEF msg, Keyed
  <2> QED  BY <2>1, <2>2, <2>3 DEF Attributed
<1>12. CASE EndReceivedMessage
  BY <1>12 DEF EndReceivedMessage, Attributed
<1>13. CASE ParserErrorEncountered \/ AbandonLine
  <2>1. stage # "idle" /\ msg.fate # "whole"
    BY <1>13 DEF ParserErrorEncountered, AbandonLine
  <2>2. resp # <<>>  BY <2>1 DEF DataOK
  <2>3. msg.fate = "whole"  BY <2>2, Numbers, HeadIndex DEF Shapes, msg
  <2> QED  BY <2>1, <2>3
<1> QED
  BY <1>1, <1>2, <1>3, <1>4, <1>5, <1>6, <1>7, <1>8, <1>9, <1>10, <1>11, <1>12, <1>13,
     LoopSteps, LineSteps, Zenon DEF Next, CheckInput

\* OkMeansFetched.
LEMMA OkUnchanged ==
    ASSUME OkMeansFetched, UNCHANGED <<lastSeq, remoteBoot, got>>,
           \A k \in Keys : seqState'[k] = "Ok" => seqState[k] = "Ok"
    PROVE  OkMeansFetched'
BY DEF OkMeansFetched

LEMMA OkStep ==
    ASSUME FaultKinds \cap Damages = {}, DataOK, OkInv, Next PROVE OkMeansFetched'
<1> USE DEF OkInv
<1>1. CASE LoopStep  BY <1>1, OkUnchanged DEF LoopStep
<1>2. CASE LineStep  BY <1>2, OkUnchanged DEF LineStep
<1>3. CASE seqState' = [k \in Keys |-> "Init"]  BY <1>3 DEF OkMeansFetched
<1>4. CASE ResponseTimeout  BY <1>3, <1>4 DEF ResponseTimeout, Reconnect
<1>5. CASE ModelChanges \/ Reboot  BY <1>5, NewerSteps, OkUnchanged
<1>6. CASE StartReceivedMessage \/ ReceiveKey \/ ReceiveResp \/ ReceiveOther
  <2>1. UNCHANGED <<seqState, lastSeq, remoteBoot, got>>
    BY <1>6, Zenon DEF StartReceivedMessage, ReceiveKey, ReceiveResp, ReceiveOther, table,
       link
  <2> QED  BY <2>1, OkUnchanged
<1>7. CASE ReceiveSeqs
  <2>1. /\ remoteBoot' = remoteBoot /\ got' = got /\ lastSeq' = msg.ver
        /\ seqState' = [k \in Keys |->
                           IF lastSeq[k] # msg.ver[k] THEN "Update" ELSE seqState[k]]
    BY <1>7 DEF ReceiveSeqs, UpdateSeqs, link
  <2>2. \A k \in Keys : seqState'[k] = "Ok" => seqState[k] = "Ok" /\ lastSeq'[k] = lastSeq[k]
    BY <2>1
  <2> QED  BY <2>1, <2>2 DEF OkMeansFetched
<1>8. CASE ReceiveDetail
  <2>1. /\ UNCHANGED <<seqState, lastSeq, remoteBoot>> /\ resp # <<>>
        /\ got' = [got EXCEPT ![msg.key] = <<msg.boot, msg.ver[msg.key]>>]
    BY <1>8 DEF ReceiveDetail, table, link, DataOK
  <2>2. 1 \in 1..Len(resp) /\ msg = resp[1]  BY <2>1, Numbers, HeadIndex DEF msg
  <2>3. /\ msg.boot # 0
        /\ \A k \in Keys : lastSeq[k] # 0 =>
              AtLeast(<<msg.boot, msg.ver[k]>>, <<remoteBoot, lastSeq[k]>>)
    BY <2>2 DEF InOrder, Announced
  <2>4. \A k \in Keys : got'[k] = got[k] \/ got'[k] = <<msg.boot, msg.ver[k]>>
    BY <2>1 DEF DataOK
  <2> QED  BY <2>1, <2>3, <2>4 DEF OkMeansFetched
<1>9. CASE ReceiveState
  <2>1. \A k \in Keys \ {StateKey} : got'[k] = got[k]  BY <1>9 DEF ReceiveState, DataOK
  <2>2. CASE UNCHANGED <<seqState, lastSeq>> /\ msg.boot = remoteBoot
    <3>1. remoteBoot' = remoteBoot  BY <1>9, <2>2 DEF ReceiveState
    <3> QED  BY <2>1, <2>2, <3>1 DEF OkMeansFetched
  <2>3. CASE UNCHANGED <<seqState, lastSeq>> /\ remoteBoot = 0
    BY <2>1, <2>3 DEF OkMeansFetched, FirstAnnounced
  <2> QED  BY <1>3, <1>9, <2>2, <2>3, Zenon DEF ReceiveState, Reconnect, table
<1>10. CASE EndReceivedMessage
  <2>1. /\ stage = "closing" /\ UNCHANGED <<lastSeq, remoteBoot, got>> /\ resp # <<>>
        /\ seqState' = IF currentRespSeq = NoSeq THEN seqState
                       ELSE [seqState EXCEPT ![currentRespSeq] =
                                IF outOfBuffers THEN "Error" ELSE "Ok"]
    BY <1>10 DEF EndReceivedMessage, link, DataOK
  <2>2. 1 \in 1..Len(resp) /\ msg = resp[1]  BY <2>1, Numbers, HeadIndex DEF msg
  <2>3. ASSUME NEW k \in Keys \ {StateKey}, seqState'[k] = "Ok", seqState[k] # "Ok"
        PROVE  got[k] = <<msg.boot, msg.ver[k]>>
    <3>1. currentRespSeq = k  BY <2>1, <2>3 DEF DataOK
    <3>2. ~outOfBuffers
      <4>1. ASSUME outOfBuffers PROVE FALSE
        <5>1. seqState' = [seqState EXCEPT ![currentRespSeq] = "Error"]
          BY <2>1, <2>3, <3>1, <4>1 DEF Keys, NoSeq
        <5> QED  BY <2>3, <3>1, <5>1 DEF DataOK
      <4> QED  BY <4>1
    <3>3. msg.kind # "oob"  BY <2>1, <3>2, Zenon DEF Attributed
    <3>4. Keyed(msg) /\ msg.key = k  BY <2>1, <3>1 DEF Attributed, Keys, NoSeq
    <3>5. msg.kind = "detail"
      BY <2>2, <3>3, <3>4 DEF Keyed, Shapes, WellFormed, Keys, NoSeq
    <3> QED  BY <2>1, <3>4, <3>5 DEF Attributed
  <2>4. /\ msg.boot # 0
        /\ \A k \in Keys : lastSeq[k] # 0 =>
              AtLeast(<<msg.boot, msg.ver[k]>>, <<remoteBoot, lastSeq[k]>>)
    BY <2>2 DEF InOrder, Announced
  <2> QED  BY <2>1, <2>3, <2>4 DEF OkMeansFetched
<1>11. CASE ParserErrorEncountered \/ AbandonLine
  <2>1. stage # "idle" /\ msg.fate # "whole"
    BY <1>11 DEF ParserErrorEncountered, AbandonLine
  <2>2. resp # <<>>  BY <2>1 DEF DataOK
  <2>3. msg.fate = "whole"  BY <2>2, Numbers, HeadIndex DEF Shapes, msg
  <2> QED  BY <2>1, <2>3
<1> QED
  BY <1>1, <1>2, <1>4, <1>5, <1>6, <1>7, <1>8, <1>9, <1>10, <1>11, LoopSteps, LineSteps,
     Zenon DEF Next, CheckInput

LEMMA OkInvInit == Init => OkInv
<1> SUFFICES ASSUME Init PROVE OkInv  OBVIOUS
<1>1. /\ req = <<>> /\ resp = <<>> /\ boot = 1 /\ remoteBoot = 0 /\ stage = "idle"
      /\ currentRespSeq = NoSeq /\ lastSeq = [k \in Keys |-> 0]
      /\ seqState = [k \in Keys |-> "Init"]
  BY DEF Init
<1>2. Shapes /\ InOrder  BY <1>1 DEF Shapes, InOrder
<1>3. Announced /\ FirstAnnounced  BY <1>1 DEF Announced, FirstAnnounced
<1>4. Attributed  BY <1>1 DEF Attributed
<1>5. OkMeansFetched  BY <1>1 DEF OkMeansFetched
<1> QED  BY <1>2, <1>3, <1>4, <1>5 DEF OkInv

\* On a line that loses requests and responses, delivers them late, and to a printer
\* that restarts and runs out of buffers, but where nothing is damaged: an entry is Ok
\* only when its model was received in full, at least as new as announced.
THEOREM OkIsFetched ==
    ASSUME FaultKinds \cap Damages = {} PROVE Spec => []OkMeansFetched
<1>1. Init => OkInv  BY OkInvInit
<1>2. TypeOK /\ OkInv /\ [Next]_vars => OkInv'
  <2> SUFFICES ASSUME TypeOK, OkInv, [Next]_vars PROVE OkInv'  OBVIOUS
  <2>1. DataOK  BY DEF TypeOK
  <2>2. CASE Next
    <3>1. Shapes'  BY <2>1, <2>2, ShapesStep DEF OkInv
    <3>2. InOrder'  BY <2>1, <2>2, InOrderStep DEF OkInv
    <3>3. Announced'  BY <2>1, <2>2, AnnouncedStep DEF OkInv
    <3>4. FirstAnnounced'  BY <2>1, <2>2, FirstAnnouncedStep DEF OkInv
    <3>5. Attributed'  BY <2>1, <2>2, AttributedStep DEF OkInv
    <3>6. OkMeansFetched'  BY <2>1, <2>2, OkStep
    <3> QED  BY <3>1, <3>2, <3>3, <3>4, <3>5, <3>6 DEF OkInv
  <2>3. CASE UNCHANGED vars
    BY <2>3, Zenon DEF OkInv, Shapes, InOrder, Announced, FirstAnnounced, Attributed,
       OkMeansFetched, vars, msg, NotOlder
  <2> QED  BY <2>2, <2>3
<1>3. OkInv => OkMeansFetched  BY DEF OkInv
<1> QED  BY <1>1, <1>2, <1>3, TypeCorrect, PTL DEF Spec

-----------------------------------------------------------------------------
(* Requests do not pile up, as long as the printer answers in time.  What is *)
(* on the line, and the request the loop may send without waiting for more,  *)
(* are paid for: by each life of the printer the panel has taken notice of,  *)
(* and by each thing the user has done.                                      *)

\* The loop may send whatever is still on the line: it has been answered, has waited
\* long enough, or is or was on the Setup page, where it sends and expects nothing.
MaySend == answered \/ pollAge = 1 \/ setupTab \/ respAge = ReconnectAge

OnLine == Len(req) + Len(resp)
Due == OnLine + (IF MaySend THEN 1 ELSE 0)
Paid == userSteps + (IF remoteBoot = 0 THEN 1 ELSE remoteBoot)

\* Responses arrive in the order the printer's lives had, none before what was seen.
LivesInOrder ==
    /\ boot >= 1 /\ remoteBoot <= boot
    /\ \A i \in 1..Len(resp) : /\ 1 <= resp[i].boot /\ resp[i].boot <= boot
                              /\ remoteBoot <= resp[i].boot
    /\ \A i, j \in 1..Len(resp) : i < j => resp[i].boot <= resp[j].boot

FewInv == LivesInOrder /\ Due <= Paid

\* The numbers counted, and how far apart the two sums are.
Counts ==
    /\ req \in Seq(Requests) /\ resp \in Seq(Responses)
    /\ Len(req) \in Nat /\ Len(resp) \in Nat /\ userSteps \in Nat
    /\ boot \in Nat /\ remoteBoot \in Nat
    /\ \A i \in 1..Len(resp) : resp[i].boot \in Nat
    /\ Due \in Nat /\ OnLine \in Nat /\ Due - 1 <= OnLine /\ OnLine <= Due

LEMMA Counted == TypeOK => Counts
<1> SUFFICES ASSUME TypeOK PROVE Counts  OBVIOUS
<1>1. DataOK /\ req \in Seq(Requests) /\ userSteps \in Nat
  BY ConstantsAssumption DEF TypeOK, DataOK
<1>2. Len(req) \in Nat /\ Len(resp) \in Nat  BY <1>1, Numbers
<1>3. OnLine \in Nat  BY <1>2 DEF OnLine
<1>4. Due \in Nat /\ Due - 1 <= OnLine /\ OnLine <= Due  BY <1>3 DEF Due
<1> QED  BY <1>1, <1>2, <1>3, <1>4, Numbers DEF Counts

\* A step that leaves the printer's lives alone and takes no more than it gives.
LEMMA FewKept ==
    ASSUME TypeOK, Counts, Counts', FewInv, UNCHANGED <<boot, remoteBoot, resp>>,
           \/ userSteps' = userSteps /\ Due' <= Due
           \/ userSteps' = userSteps + 1 /\ Due' <= Due + 1
    PROVE  FewInv'
<1>1. LivesInOrder'  BY DEF FewInv, LivesInOrder
<1>2. Paid \in Nat /\ Due \in Nat /\ Due' \in Nat /\ Due <= Paid  BY DEF Paid, FewInv, Counts
<1>3. CASE userSteps' = userSteps /\ Due' <= Due
  <2>1. Paid' = Paid  BY <1>3 DEF Paid
  <2> QED  BY <1>1, <1>2, <1>3, <2>1 DEF FewInv
<1>4. CASE userSteps' = userSteps + 1 /\ Due' <= Due + 1
  <2>1. Paid' = Paid + 1  BY <1>4 DEF Paid, Counts
  <2>2. Due' <= Paid'  BY <1>2, <1>4, <2>1
  <2> QED  BY <1>1, <2>2 DEF FewInv
<1> QED  BY <1>3, <1>4

\* The loop sends a request when it has been answered or has waited long enough.
LEMMA LoopSends ==
    ASSUME TypeOK, Poll \/ RequestTimeout
    PROVE  /\ answered \/ pollAge = 1
           /\ answered' = FALSE /\ pollAge' = 0 /\ respAge' # ReconnectAge /\ ~setupTab'
           /\ \E r \in Requests : req' = Append(req, r)
           /\ UNCHANGED <<setupTab, remoteBoot, gpName, resp, boot, userSteps>>
<1> USE RequestTyped DEF MayPoll, Polled, ReconnectAge, Send
<1>1. CASE PollThumbnail  BY <1>1 DEF PollThumbnail, link, outs, printer
<1>2. CASE PollSeq  BY <1>2 DEF PollSeq, link, outs, user, printer
<1>3. CASE PollIdle
  <2>1. UNCHANGED <<gpName, setupTab, userSteps>> /\ \E r \in Requests : req' = Append(req, r)
    <3>1. ASSUME NEW o \in Outputs, QueryName(o) PROVE <2>1  BY <3>1 DEF QueryName, user
    <3>2. CASE QueryFiles  BY <3>2 DEF QueryFiles, outs
    <3>3. CASE QueryLive
      <4>1. CASE gpCounter' = 0  BY <3>3, <4>1 DEF QueryLive, user
      <4>2. CASE gpCounter' # 0  BY <3>3, <4>2 DEF QueryLive, user
      <4> QED  BY <4>1, <4>2
    <3> QED  BY <1>3, <3>1, <3>2, <3>3 DEF PollIdle
  <2> QED  BY <1>3, <2>1 DEF PollIdle, printer
<1>4. CASE RequestTimeout  BY <1>4 DEF RequestTimeout, link, user, printer
<1> QED  BY <1>1, <1>2, <1>3, <1>4 DEF Poll

\* The loop sends one request, and then has to wait.
LEMMA LoopFew ==
    ASSUME TypeOK, Counts, Counts', FewInv, Poll \/ RequestTimeout
    PROVE  FewInv'
<1>1. /\ answered \/ pollAge = 1
      /\ ~answered' /\ pollAge' = 0 /\ ~setupTab' /\ respAge' # ReconnectAge
      /\ \E r \in Requests : req' = Append(req, r)
      /\ UNCHANGED <<boot, remoteBoot, resp, userSteps>>
  BY LoopSends
<1>2. Len(req') = Len(req) + 1  BY <1>1 DEF Counts
<1>3. MaySend /\ ~MaySend'  BY <1>1 DEF MaySend
<1>4. Due' <= Due  BY <1>1, <1>2, <1>3 DEF Due, OnLine, Counts
<1> QED  BY <1>1, <1>4, FewKept

LEMMA Below ==
    \A d, n, m \in Nat : (d - 1 <= n /\ n = m - 1) => d <= m
OBVIOUS

LEMMA Above ==
    \A d, n \in Nat : d - 1 <= n => d <= n + 1
OBVIOUS

\* A message has been parsed: there is one less on the line.
LEMMA EndFew ==
    ASSUME TypeOK, Counts, Counts', FewInv, resp # <<>>, resp' = Tail(resp),
           UNCHANGED <<req, boot, remoteBoot, userSteps>>
    PROVE  FewInv'
<1>1. Len(resp') = Len(resp) - 1 /\ OnLine' = OnLine - 1  BY DEF OnLine, Counts
<1>2. \A i \in 1..Len(resp') : i + 1 \in 1..Len(resp) /\ resp'[i] = resp[i + 1]
  BY TailIndex DEF Counts
<1>3. LivesInOrder'
  <2>1. \A i, j \in 1..Len(resp') : i < j => i + 1 < j + 1  BY DEF Counts
  <2> QED  BY <1>2, <2>1 DEF FewInv, LivesInOrder
<1>4. Due' - 1 <= OnLine' /\ OnLine <= Due /\ Due \in Nat /\ Due' \in Nat /\ OnLine \in Nat
      /\ OnLine' \in Nat
  BY DEF Counts
<1>5. Paid' = Paid /\ Due <= Paid  BY DEF FewInv, Paid
<1>6. Paid \in Nat  BY DEF Paid, Counts
<1>7. Due' <= OnLine
  <2>1. OnLine' = OnLine - 1  BY <1>1
  <2> QED  BY <1>4, <2>1, Below
<1>8. Due' <= Paid
  <2>1. OnLine <= Paid  BY <1>4, <1>5, <1>6
  <2> QED  BY <1>4, <1>6, <1>7, <2>1
<1>9. Due' <= Paid'  BY <1>5, <1>8
<1> QED  BY <1>3, <1>9 DEF FewInv

\* An uptime that went back lets the loop send once more; it shows a life not seen before.
LEMMA StateFew ==
    ASSUME TypeOK, Counts, Counts', FewInv, ReceiveState
    PROVE  FewInv'
<1>1. /\ UNCHANGED <<req, resp, setupTab, userSteps, boot>> /\ remoteBoot' = msg.boot
      /\ \/ remoteBoot # 0 /\ msg.boot # remoteBoot
         \/ UNCHANGED <<answered, pollAge, respAge>>
  BY DEF ReceiveState, Reconnect, user, printer, times
<1>2. 1 \in 1..Len(resp) /\ msg = resp[1]
  <2>1. resp # <<>>  BY DEF ReceiveState, TypeOK, DataOK
  <2> QED  BY <2>1, HeadIndex DEF msg, Counts
<1>3. /\ remoteBoot <= msg.boot /\ 1 <= msg.boot /\ msg.boot <= boot
      /\ \A i \in 1..Len(resp) : msg.boot <= resp[i].boot
  <2>1. \A i \in 1..Len(resp) : i = 1 \/ 1 < i  BY DEF Counts
  <2>2. \A i \in 1..Len(resp) : resp[1].boot <= resp[i].boot
    BY <1>2, <2>1, SMTT(60) DEF FewInv, LivesInOrder, Counts
  <2> QED  BY <1>2, <2>2 DEF FewInv, LivesInOrder
<1>4. LivesInOrder'  BY <1>1, <1>3 DEF FewInv, LivesInOrder
<1>5. /\ msg.boot \in Nat /\ remoteBoot \in Nat /\ OnLine' = OnLine /\ userSteps \in Nat
      /\ OnLine \in Nat
  BY <1>1, <1>2 DEF OnLine, Counts
<1>6. CASE remoteBoot # 0 /\ msg.boot # remoteBoot
  <2>1. Paid' = userSteps + msg.boot /\ Paid = userSteps + remoteBoot
        /\ remoteBoot + 1 <= msg.boot
    BY <1>1, <1>3, <1>5, <1>6 DEF Paid
  <2>2. Due' <= OnLine + 1 /\ OnLine <= Due /\ Due <= Paid
    <3>1. Due' - 1 <= OnLine' /\ OnLine <= Due /\ Due <= Paid  BY DEF FewInv, Counts
    <3>2. Due' - 1 <= OnLine /\ Due' \in Nat /\ OnLine \in Nat  BY <1>5, <3>1 DEF Counts
    <3>3. Due' <= OnLine + 1  BY <3>2, Above
    <3> QED  BY <3>1, <3>3
  <2>3. Due \in Nat /\ Due' \in Nat  BY DEF Counts
  <2>4. OnLine <= Paid /\ Paid \in Nat  BY <1>5, <2>1, <2>2, <2>3
  <2>5. Due' <= Paid + 1  BY <1>5, <2>2, <2>3, <2>4
  <2>6. Due' <= Paid'  BY <1>5, <2>1, <2>3, <2>5
  <2> QED  BY <1>4, <2>6 DEF FewInv
<1>7. CASE UNCHANGED <<answered, pollAge, respAge>>
  <2>1. Due' = Due  BY <1>1, <1>7 DEF Due, OnLine, MaySend
  <2>2. Paid <= Paid' /\ Paid \in Nat /\ Paid' \in Nat  BY <1>1, <1>3, <1>5 DEF Paid
  <2>3. Due \in Nat /\ Due <= Paid  BY DEF FewInv, Counts
  <2>4. Due' <= Paid'  BY <2>1, <2>2, <2>3
  <2> QED  BY <1>4, <2>4 DEF FewInv
<1> QED  BY <1>1, <1>6, <1>7

LEMMA ParserFew ==
    ASSUME TypeOK, Counts, Counts', FewInv, CheckInput
    PROVE  FewInv'
<1>1. CASE \/ StartReceivedMessage \/ ReceiveKey \/ ReceiveSeqs \/ ReceiveDetail
           \/ ReceiveResp \/ ReceiveOther
  <2>1. UNCHANGED <<req, resp, boot, remoteBoot, userSteps, setupTab, answered, pollAge, respAge>>
    BY <1>1, Zenon DEF StartReceivedMessage, ReceiveKey, ReceiveSeqs, ReceiveDetail,
       ReceiveResp, ReceiveOther, user, link, times, printer
  <2>2. Due' <= Due  BY <2>1 DEF Due, OnLine, MaySend, Counts
  <2> QED  BY <2>1, <2>2, FewKept
<1>2. CASE ReceiveState  BY <1>2, StateFew
<1>3. CASE EndReceivedMessage \/ ParserErrorEncountered \/ AbandonLine
  <2>1. resp' = Tail(resp) /\ stage # "idle" /\ UNCHANGED <<req, remoteBoot, userSteps, boot>>
    BY <1>3 DEF EndReceivedMessage, ParserErrorEncountered, AbandonLine, user, link, printer
  <2>2. resp # <<>>  BY <2>1 DEF TypeOK, DataOK
  <2> QED  BY <2>1, <2>2, EndFew
<1> QED  BY <1>1, <1>2, <1>3, Zenon DEF CheckInput

\* What was a request is at most one response.
LEMMA LineFew ==
    ASSUME TypeOK, Counts, Counts', FewInv, PrinterAnswers \/ LineFault
    PROVE  FewInv'
<1>1. /\ req # <<>> /\ req' = Tail(req) /\ UNCHANGED <<panel, user, boot>>
      /\ \/ resp' = resp
         \/ \E m : m.boot = boot /\ resp' = Append(resp, m)
  <2>1. CASE PrinterAnswers
    <3>1. PICK st \in PrinterStatuses : Reply(Response(Head(req), st, "whole"))
      BY <2>1 DEF PrinterAnswers
    <3>2. Response(Head(req), st, "whole").boot = boot  BY DEF Response
    <3> QED  BY <2>1, <3>1, <3>2, Zenon DEF PrinterAnswers, Reply, printer
  <2>2. CASE LineFault
    <3>1. req # <<>> /\ UNCHANGED <<panel, user, boot>>  BY <2>2, Zenon DEF LineFault
    <3>2. \/ req' = Tail(req) /\ resp' = resp
          \/ \E st, d : Reply(Response(Head(req), st, d))
          \/ \E st, k : Reply([Response(Head(req), st, "whole") EXCEPT !.kind = "oob", !.key = k])
      BY <2>2, Zenon DEF LineFault
    <3>3. /\ \A st, d : Response(Head(req), st, d).boot = boot
          /\ \A st, k : [Response(Head(req), st, "whole") EXCEPT !.kind = "oob",
                                                                 !.key = k].boot = boot
      BY DEF Response
    <3> QED  BY <3>1, <3>2, <3>3, Zenon DEF Reply
  <2> QED  BY <2>1, <2>2
<1>2. UNCHANGED <<answered, pollAge, respAge, setupTab, remoteBoot, userSteps>>
  BY <1>1 DEF panel, link, times, user
<1>3. /\ resp \in Seq(Responses) /\ resp' \in Seq(Responses) /\ Len(resp) \in Nat
      /\ Len(req') = Len(req) - 1 /\ Len(req) \in Nat
  BY <1>1 DEF Counts
<1>4. CASE resp' = resp
  <2>1. Due' <= Due  BY <1>2, <1>3, <1>4 DEF Due, OnLine, MaySend
  <2> QED  BY <1>1, <1>2, <1>4, <2>1, FewKept
<1>5. ASSUME NEW m, m.boot = boot, resp' = Append(resp, m) PROVE FewInv'
  <2>1. /\ Len(resp') = Len(resp) + 1
        /\ \A i \in 1..Len(resp') : \/ i \in 1..Len(resp) /\ resp'[i] = resp[i]
                                    \/ i = Len(resp) + 1 /\ resp'[i] = m
    BY <1>3, <1>5
  <2>2. LivesInOrder'
    <3>1. \A i \in 1..Len(resp') : /\ 1 <= resp'[i].boot /\ resp'[i].boot <= boot
                                  /\ remoteBoot <= resp'[i].boot
      BY <1>5, <2>1, SMTT(60) DEF FewInv, LivesInOrder, Counts
    <3>2. ASSUME NEW i \in 1..Len(resp'), NEW j \in 1..Len(resp'), i < j
          PROVE  resp'[i].boot <= resp'[j].boot
      <4>1. CASE j \in 1..Len(resp) /\ resp'[j] = resp[j]
        <5>1. i \in 1..Len(resp) /\ resp'[i] = resp[i]  BY <1>3, <2>1, <3>2, <4>1
        <5> QED  BY <3>2, <4>1, <5>1 DEF FewInv, LivesInOrder
      <4>2. CASE resp'[j] = m  BY <1>5, <3>1, <4>2
      <4> QED  BY <2>1, <4>1, <4>2
    <3>3. boot' = boot /\ remoteBoot' = remoteBoot /\ boot >= 1 /\ remoteBoot <= boot
      BY <1>1, <1>2 DEF FewInv, LivesInOrder
    <3> QED  BY <3>1, <3>2, <3>3 DEF LivesInOrder
  <2>3. Due' = Due /\ Paid' = Paid  BY <1>2, <1>3, <2>1 DEF Due, OnLine, MaySend, Paid
  <2> QED  BY <2>2, <2>3 DEF FewInv
<1> QED  BY <1>1, <1>4, <1>5

\* A printer that answers in time lets a period go by only on the Setup page, or when
\* nothing is left on the line.
LEMMA TimeFew ==
    ASSUME ~Late, TypeOK, Counts, Counts', FewInv, Tick \/ ResponseTimeout \/ LineFallsQuiet
    PROVE  FewInv'
<1>1. UNCHANGED <<req, resp, boot, remoteBoot, userSteps, setupTab>>
  <2>1. CASE Tick  BY <2>1, Zenon DEF Tick, user, link, printer
  <2>2. CASE ResponseTimeout  BY <2>2, Zenon DEF ResponseTimeout, user, printer
  <2>3. CASE LineFallsQuiet  BY <2>3, Zenon DEF LineFallsQuiet, user, link, printer
  <2> QED  BY <2>1, <2>2, <2>3
<1>2. OnLine' = OnLine  BY <1>1 DEF OnLine
<1>3. CASE MaySend \/ ~MaySend'
  <2>1. Due' <= Due  BY <1>2, <1>3 DEF Due, Counts
  <2> QED  BY <1>1, <2>1, FewKept
<1>4. CASE Tick /\ ~setupTab
  <2>1. OnLine = 0 /\ Due' <= 1
    <3>1. req = <<>> /\ resp = <<>>  BY <1>4 DEF Tick
    <3>2. OnLine = 0  BY <3>1 DEF OnLine
    <3> QED  BY <1>2, <3>2 DEF Due
  <2>2. Paid' >= 1 /\ Paid' \in Nat  BY <1>1 DEF Paid, Counts
  <2>3. LivesInOrder'  BY <1>1 DEF FewInv, LivesInOrder
  <2>4. Due' <= Paid'  BY <2>1, <2>2 DEF Counts
  <2> QED  BY <2>3, <2>4 DEF FewInv
<1>5. CASE ResponseTimeout  BY <1>3, <1>5 DEF ResponseTimeout, MaySend
<1>6. CASE LineFallsQuiet
  <2>1. UNCHANGED <<answered, pollAge, respAge>>  BY <1>6, Zenon DEF LineFallsQuiet, times
  <2> QED  BY <1>1, <1>3, <2>1 DEF MaySend
<1> QED  BY <1>3, <1>4, <1>5, <1>6 DEF MaySend

\* The user has a command sent, or on the Setup page stops the loop's waiting.
LEMMA UserFew ==
    ASSUME TypeOK, Counts, Counts', FewInv, UserActs \/ LeaveSetup
    PROVE  FewInv'
<1>1. UNCHANGED <<resp, boot, remoteBoot, answered, pollAge, respAge>>
  <2>1. CASE UserActs  BY <2>1, Zenon DEF UserActs, panel, link, times, printer
  <2>2. CASE LeaveSetup  BY <2>2, Zenon DEF LeaveSetup, panel, link, times, printer
  <2> QED  BY <2>1, <2>2
<1>2. CASE UserActs
  <2>1. userSteps' = userSteps + 1  BY <1>2 DEF UserActs
  <2>2. Due' <= Due + 1
    <3>1. \/ req' = req
          \/ /\ req' = Append(req, Request("user", NoSeq, NoQuery)) /\ setupTab' = setupTab
      BY <1>2, Zenon DEF UserActs, Send
    <3>2. CASE req' = req  BY <1>1, <3>2 DEF Due, OnLine, Counts
    <3>3. CASE req' = Append(req, Request("user", NoSeq, NoQuery)) /\ setupTab' = setupTab
      <4>1. Len(req') = Len(req) + 1  BY <3>3, RequestTyped DEF Counts
      <4> QED  BY <1>1, <3>3, <4>1 DEF Due, OnLine, MaySend, Counts
    <3> QED  BY <3>1, <3>2, <3>3
  <2> QED  BY <1>1, <2>1, <2>2, FewKept
<1>3. CASE LeaveSetup
  <2>1. req' = req /\ userSteps' = userSteps /\ setupTab  BY <1>3, Zenon DEF LeaveSetup
  <2>2. Due' <= Due  BY <1>1, <2>1 DEF Due, OnLine, MaySend, Counts
  <2> QED  BY <1>1, <2>1, <2>2, FewKept
<1> QED  BY <1>2, <1>3

\* A new life of the printer begins with nothing received.
LEMMA PrinterFew ==
    ASSUME TypeOK, Counts, Counts', FewInv, ModelChanges \/ Reboot
    PROVE  FewInv'
<1>1. UNCHANGED <<resp, remoteBoot, userSteps, answered, pollAge, respAge, setupTab>>
  <2>1. CASE ModelChanges  BY <2>1, Zenon DEF ModelChanges, panel, link, times, user
  <2>2. CASE Reboot  BY <2>2, Zenon DEF Reboot, panel, link, times, user
  <2> QED  BY <2>1, <2>2
<1>2. Len(req') <= Len(req) /\ (boot' = boot \/ boot' = boot + 1)
  <2>1. CASE ModelChanges  BY <2>1 DEF ModelChanges, Counts
  <2>2. CASE Reboot  BY <2>2 DEF Reboot, Counts
  <2> QED  BY <2>1, <2>2
<1>3. LivesInOrder'  BY <1>1, <1>2 DEF FewInv, LivesInOrder, Counts
<1>4. Due' <= Due  BY <1>1, <1>2 DEF Due, OnLine, MaySend, Counts
<1>5. Paid' = Paid /\ Due <= Paid /\ Paid \in Nat
  <2>1. Paid' = Paid  BY <1>1 DEF Paid
  <2>2. Paid \in Nat  BY DEF Paid, Counts
  <2> QED  BY <2>1, <2>2 DEF FewInv
<1>6. Due' <= Paid'
  <2>1. Due' \in Nat /\ Due \in Nat  BY DEF Counts
  <2> QED  BY <1>4, <1>5, <2>1
<1> QED  BY <1>3, <1>6 DEF FewInv

\* Polls, timeouts and Reconnect do not pile requests up (src/PanelDue.cpp:2748-2835): on
\* a line that loses and damages what it carries, there is one request or response at most,
\* and at most one more for each restart of the printer and each thing the user has done.
THEOREM RequestsStayFew ==
    ASSUME ~Late PROVE Spec => []RequestsAreFew
<1>1. Init => FewInv
  <2> SUFFICES ASSUME Init PROVE FewInv  OBVIOUS
  <2>1. req = <<>> /\ resp = <<>> /\ boot = 1 /\ remoteBoot = 0 /\ userSteps = 0  BY DEF Init
  <2>2. LivesInOrder  BY <2>1 DEF LivesInOrder
  <2>3. Due <= 1 /\ Paid = 1  BY <2>1 DEF Due, OnLine, Paid
  <2> QED  BY <2>2, <2>3 DEF FewInv
<1>2. TypeOK /\ Counts /\ Counts' /\ FewInv /\ [Next]_vars => FewInv'
  <2> SUFFICES ASSUME TypeOK, Counts, Counts', FewInv, [Next]_vars PROVE FewInv'  OBVIOUS
  <2>1. CASE UNCHANGED vars
    BY <2>1, Zenon DEF FewInv, LivesInOrder, Due, OnLine, MaySend, Paid, vars
  <2> QED
    BY <2>1, ParserFew, LoopFew, TimeFew, UserFew, LineFew, PrinterFew, Zenon DEF Next
<1>3. Counts /\ FewInv => RequestsAreFew
  <2> SUFFICES ASSUME Counts, FewInv PROVE RequestsAreFew  OBVIOUS
  <2>1. OnLine <= Due /\ Due <= Paid /\ Paid <= boot + userSteps
    BY DEF FewInv, LivesInOrder, Paid, Counts
  <2>2. OnLine <= boot + userSteps  BY <2>1 DEF Paid, Counts
  <2> QED  BY <2>2 DEF RequestsAreFew, OnLine
<1> QED  BY <1>1, <1>2, <1>3, TypeCorrect, Counted, PTL DEF Spec

-----------------------------------------------------------------------------
(* Names, as long as the printer answers in time.  Before it restarts and    *)
(* the user does anything, there is one request or response on the line, so  *)
(* the reply that comes while a name is asked for is the one with the name.  *)

\* The printer has not restarted and the user has not made it talk.
Alone == boot = 1 /\ userSteps = 0

LineIsIdle == req = <<>> /\ resp = <<>>

\* Whenever the loop may send again, what it sent before has come back or is lost.
OneAtATime ==
    /\ ~setupTab /\ side = "none" /\ remoteBoot <= 1
    /\ \A i \in 1..Len(resp) : resp[i].boot = 1
    /\ Len(req) + Len(resp) <= 1
    /\ answered \/ pollAge = 1 \/ respAge = ReconnectAge => LineIsIdle

\* The name in flight is that of the output a reply on the line is about.
OwnNames ==
    /\ \A o \in Outputs : gpName[o] \in {"", "own"}
    /\ \A i \in 1..Len(req) :
          /\ req[i].kind # "user"
          /\ req[i].kind = "echo" => gpInFlight \in {NoQuery, req[i].out}
    /\ \A i \in 1..Len(resp) :
          resp[i].kind = "resp" => gpInFlight \in {NoQuery, resp[i].out}

AloneInv == boot >= 1 /\ (Alone => OneAtATime /\ OwnNames)

\* The loop asks when nothing is on the line.
LEMMA AsksWhenIdle ==
    ASSUME TypeOK, OneAtATime, OwnNames, answered \/ pollAge = 1,
           NEW r \in Requests, r.kind # "user", req' = Append(req, r), resp' = resp,
           gpInFlight' \in {gpInFlight, NoQuery} \/ r.kind = "echo",
           r.kind = "echo" => gpInFlight' = r.out,
           answered' = FALSE, pollAge' = 0, respAge' # ReconnectAge, side' = "none",
           UNCHANGED <<setupTab, remoteBoot, gpName>>
    PROVE  OneAtATime' /\ OwnNames'
<1>1. req \in Seq(Requests) /\ resp \in Seq(Responses)  BY DEF TypeOK, DataOK
<1>2. req = <<>> /\ resp = <<>>  BY DEF OneAtATime, LineIsIdle
<1>3. /\ Len(req') = 1 /\ Len(resp') = 0 /\ \A i \in 1..Len(req') : req'[i] = r
  BY <1>1, <1>2
<1>4. OneAtATime'  BY <1>1, <1>2, <1>3 DEF OneAtATime
<1>5. \A o \in Outputs : gpName'[o] \in {"", "own"}  BY DEF OwnNames
<1>6. \A i \in 1..Len(req') :
         req'[i].kind # "user" /\ (req'[i].kind = "echo" => gpInFlight' \in {NoQuery, req'[i].out})
  BY <1>3
<1>7. \A i \in 1..Len(resp') : FALSE  BY <1>3
<1>8. OwnNames'  BY <1>5, <1>6, <1>7 DEF OwnNames
<1> QED  BY <1>4, <1>8

\* Nothing is put on the line; a query in flight is at most given up.
LEMMA NothingAsked ==
    ASSUME TypeOK, OneAtATime, OwnNames, UNCHANGED <<req, resp, gpName, setupTab, side, remoteBoot>>,
           gpInFlight' \in {gpInFlight, NoQuery},
           answered' \/ pollAge' = 1 \/ respAge' = ReconnectAge =>
              LineIsIdle \/ answered \/ pollAge = 1 \/ respAge = ReconnectAge
    PROVE  OneAtATime' /\ OwnNames'
<1>1. OneAtATime'  BY DEF OneAtATime, LineIsIdle
<1>2. \A o : gpInFlight \in {NoQuery, o} => gpInFlight' \in {NoQuery, o}  OBVIOUS
<1>3. OwnNames'  BY <1>2 DEF OwnNames
<1> QED  BY <1>1, <1>3

LEMMA LoopAsks ==
    ASSUME TypeOK, OneAtATime, OwnNames, Poll \/ RequestTimeout
    PROVE  OneAtATime' /\ OwnNames'
<1>1. /\ answered \/ pollAge = 1
      /\ answered' = FALSE /\ pollAge' = 0 /\ respAge' # ReconnectAge
      /\ UNCHANGED <<setupTab, remoteBoot, gpName, resp>>
  BY LoopSends
<1>2. side' = "none"
  <2>1. side = "none"  BY DEF OneAtATime
  <2>2. CASE PollThumbnail  BY <2>2 DEF PollThumbnail
  <2>3. CASE PollSeq  BY <2>1, <2>3 DEF PollSeq, user
  <2>4. CASE PollIdle  BY <2>1, <2>4 DEF PollIdle, QueryName, QueryFiles, QueryLive, user
  <2>5. CASE RequestTimeout  BY <2>1, <2>5 DEF RequestTimeout, user
  <2> QED  BY <2>2, <2>3, <2>4, <2>5 DEF Poll
<1> DEFINE Asked == \E r \in Requests :
              /\ r.kind # "user" /\ req' = Append(req, r)
              /\ gpInFlight' \in {gpInFlight, NoQuery} \/ r.kind = "echo"
              /\ r.kind = "echo" => gpInFlight' = r.out
<1>3. Asked
  <2> USE RequestTyped DEF Send
  <2>1. CASE PollThumbnail
    <3>1. req' = Append(req, Request("side", NoSeq, NoQuery)) /\ gpInFlight' = gpInFlight
      BY <2>1 DEF PollThumbnail, outs
    <3> QED  BY <3>1 DEF Request
  <2>2. CASE PollSeq
    <3>1. PICK k \in Keys : req' = Append(req, Request("detail", k, NoQuery))
      BY <2>2 DEF PollSeq
    <3>2. gpInFlight' = gpInFlight  BY <2>2 DEF PollSeq, outs
    <3> QED  BY <3>1, <3>2 DEF Request
  <2>3. CASE PollIdle
    <3>1. ASSUME NEW o \in Outputs, QueryName(o) PROVE Asked
      <4>1. req' = Append(req, Request("echo", NoSeq, o)) /\ gpInFlight' = o
        BY <3>1 DEF QueryName
      <4> QED  BY <4>1 DEF Request
    <3>2. CASE QueryFiles
      <4>1. req' = Append(req, Request("side", NoSeq, NoQuery)) /\ gpInFlight' = gpInFlight
        BY <3>2 DEF QueryFiles, outs
      <4> QED  BY <4>1 DEF Request
    <3>3. CASE QueryLive
      <4>1. /\ gpInFlight' = gpInFlight
            /\ \/ req' = Append(req, Request("state", StateKey, NoQuery))
               \/ req' = Append(req, Request("live", NoSeq, NoQuery))
        BY <3>3 DEF QueryLive
      <4> QED  BY <4>1 DEF Request
    <3> QED  BY <2>3, <3>1, <3>2, <3>3 DEF PollIdle
  <2>4. CASE RequestTimeout
    <3>1. req' = Append(req, Request("state", StateKey, NoQuery)) /\ gpInFlight' = NoQuery
      BY <2>4 DEF RequestTimeout
    <3> QED  BY <3>1 DEF Request
  <2> QED  BY <2>1, <2>2, <2>3, <2>4 DEF Poll
<1> QED  BY <1>1, <1>2, <1>3, AsksWhenIdle

\* The parser takes the message, the only one there is, off the line.
LEMMA ParserFreesLine ==
    ASSUME TypeOK, OneAtATime, OwnNames, stage # "idle", resp' = Tail(resp),
           UNCHANGED <<req, gpInFlight, gpName, setupTab, side, remoteBoot>>
    PROVE  OneAtATime' /\ OwnNames'
<1>1. /\ resp \in Seq(Responses) /\ req \in Seq(Requests) /\ resp # <<>>
  BY DEF TypeOK, DataOK
<1>2. Len(resp) >= 1 /\ Len(Tail(resp)) = Len(resp) - 1  BY <1>1
<1>3. Len(req) = 0 /\ Len(resp') = 0  BY <1>1, <1>2 DEF OneAtATime
<1>4. req' = <<>> /\ resp' = <<>>
  <2>1. resp' \in Seq(Responses)  BY <1>1
  <2> QED  BY <1>1, <1>3, <2>1
<1>5. Len(req') + Len(resp') <= 1 /\ LineIsIdle'  BY <1>3, <1>4 DEF LineIsIdle
<1>6. OneAtATime'  BY <1>4, <1>5 DEF OneAtATime
<1>7. \A i \in 1..Len(req') : FALSE  BY <1>4
<1>8. \A i \in 1..Len(resp') : FALSE
  <2>1. \A n : n = 0 => \A i \in 1..n : FALSE  OBVIOUS
  <2> QED  BY <1>3, <2>1, Zenon
<1>9. OwnNames'  BY <1>7, <1>8 DEF OwnNames
<1> QED  BY <1>6, <1>9

LEMMA ParserAlone ==
    ASSUME TypeOK, Alone, OneAtATime, OwnNames, CheckInput
    PROVE  OneAtATime' /\ OwnNames'
<1> DEFINE Kept == UNCHANGED <<answered, pollAge, respAge>>
<1>1. CASE StartReceivedMessage \/ ReceiveKey \/ ReceiveSeqs \/ ReceiveDetail \/ ReceiveOther
  <2>1. UNCHANGED <<req, resp, gpName, gpInFlight, setupTab, side, remoteBoot, answered,
                    pollAge, respAge>>
    BY <1>1, Zenon DEF StartReceivedMessage, ReceiveKey, ReceiveSeqs, ReceiveDetail,
       ReceiveOther, outs, user, link, times
  <2> QED  BY <2>1, NothingAsked
<1>2. CASE ReceiveState
  <2>1. stage # "idle" /\ resp # <<>>  BY <1>2 DEF ReceiveState, TypeOK, DataOK
  <2>2. msg.boot = 1
    <3>1. resp \in Seq(Responses)  BY DEF TypeOK, DataOK
    <3>2. 1 \in 1..Len(resp) /\ msg = resp[1]  BY <2>1, <3>1, HeadIndex DEF msg
    <3> QED  BY <3>2 DEF OneAtATime
  <2>3. remoteBoot = 0 \/ remoteBoot = 1
    <3>1. remoteBoot \in Nat  BY Numbers DEF TypeOK
    <3> QED  BY <3>1 DEF OneAtATime
  <2>4. /\ UNCHANGED <<req, resp, gpName, gpInFlight, setupTab, side, answered, pollAge,
                       respAge>>
        /\ remoteBoot' = 1
    BY <1>2, <2>2, <2>3 DEF ReceiveState, user, times
  <2>5. OneAtATime'  BY <2>4 DEF OneAtATime, LineIsIdle
  <2>6. OwnNames'  BY <2>4 DEF OwnNames
  <2> QED  BY <2>5, <2>6
<1>3. CASE ReceiveResp
  <2>1. stage # "idle" /\ resp # <<>> /\ msg.kind = "resp"
    BY <1>3 DEF ReceiveResp, TypeOK, DataOK
  <2>2. /\ UNCHANGED <<req, resp, setupTab, side, remoteBoot, answered, pollAge, respAge>>
        /\ gpInFlight' \in {gpInFlight, NoQuery}
    BY <1>3 DEF ReceiveResp, user, link, times
  <2>3. \A o \in Outputs : gpName'[o] \in {"", "own"}
    <3>1. CASE gpInFlight = NoQuery
      <4>1. gpName' = gpName  BY <1>3, <3>1 DEF ReceiveResp
      <4> QED  BY <4>1 DEF OwnNames
    <3>2. CASE gpInFlight # NoQuery
      <4>1. resp \in Seq(Responses) /\ gpName \in [Outputs -> Names]  BY DEF TypeOK, DataOK
      <4>2. 1 \in 1..Len(resp) /\ msg = resp[1]  BY <2>1, <4>1, HeadIndex DEF msg
      <4>3. msg.out = gpInFlight  BY <2>1, <3>2, <4>2 DEF OwnNames
      <4>4. gpName' = [gpName EXCEPT ![gpInFlight] = "own"]  BY <1>3, <3>2, <4>3 DEF ReceiveResp
      <4>5. ASSUME NEW o \in Outputs PROVE gpName'[o] = "own" \/ gpName'[o] = gpName[o]
        BY <4>1, <4>4
      <4> QED  BY <4>5 DEF OwnNames
    <3> QED  BY <3>1, <3>2
  <2>4. OneAtATime'  BY <2>2 DEF OneAtATime, LineIsIdle
  <2>5. \A o : gpInFlight \in {NoQuery, o} => gpInFlight' \in {NoQuery, o}  BY <2>2
  <2>6. OwnNames'  BY <2>2, <2>3, <2>5 DEF OwnNames
  <2> QED  BY <2>4, <2>6
<1>4. CASE EndReceivedMessage \/ ParserErrorEncountered \/ AbandonLine
  <2>1. stage # "idle" /\ resp' = Tail(resp)
        /\ UNCHANGED <<req, gpInFlight, gpName, setupTab, side, remoteBoot>>
    BY <1>4 DEF EndReceivedMessage, ParserErrorEncountered, AbandonLine, outs, user, link
  <2> QED  BY <2>1, ParserFreesLine
<1> QED  BY <1>1, <1>2, <1>3, <1>4, Zenon DEF CheckInput

\* The oldest request is answered, or lost.
LEMMA LineAlone ==
    ASSUME TypeOK, Alone, OneAtATime, OwnNames, req # <<>>, req' = Tail(req),
           \/ resp' = resp
           \/ \E m \in Responses :
                 /\ resp' = Append(resp, m) /\ m.boot = boot
                 /\ m.kind = "resp" => Head(req).kind \in {"echo", "user"} /\ m.out = Head(req).out,
           UNCHANGED <<panel, user>>
    PROVE  OneAtATime' /\ OwnNames'
<1>1. /\ resp \in Seq(Responses) /\ req \in Seq(Requests) /\ Len(req) \in Nat /\ Len(resp) \in Nat
  BY DEF TypeOK, DataOK
<1>2. /\ UNCHANGED <<gpInFlight, gpName, setupTab, side, remoteBoot, answered, pollAge, respAge>>
  BY DEF panel, link, times, outs, user
<1>3. Len(req) >= 1 /\ Len(Tail(req)) = Len(req) - 1  BY <1>1
<1>4. Len(req) = 1 /\ Len(resp) = 0 /\ Len(req') = 0  BY <1>1, <1>3 DEF OneAtATime
<1>5. ~(answered \/ pollAge = 1 \/ respAge = ReconnectAge)  BY DEF OneAtATime, LineIsIdle
<1>6. /\ \A i \in 1..Len(resp') : resp'[i].boot = 1
      /\ \A i \in 1..Len(resp') : resp'[i].kind = "resp" => gpInFlight' \in {NoQuery, resp'[i].out}
      /\ Len(resp') \in 0..1
  <2>1. CASE resp' = resp
    <3>1. \A i \in 1..Len(resp') : FALSE  BY <1>4, <2>1
    <3> QED  BY <1>4, <2>1, <3>1
  <2>2. ASSUME NEW m \in Responses, resp' = Append(resp, m), m.boot = boot,
               m.kind = "resp" => Head(req).kind \in {"echo", "user"} /\ m.out = Head(req).out
        PROVE  <1>6
    <3>1. Len(resp') = Len(resp) + 1 /\ resp'[Len(resp) + 1] = m  BY <1>1, <2>2, AppendIndex
    <3>2. Len(resp') \in 0..1 /\ \A i \in 1..Len(resp') : i = Len(resp) + 1  BY <1>4, <3>1
    <3>3. \A i \in 1..Len(resp') : resp'[i] = m  BY <3>1, <3>2
    <3>4. m.boot = 1  BY <2>2 DEF Alone
    <3>5. m.kind = "resp" => gpInFlight' \in {NoQuery, m.out}
      <4>1. 1 \in 1..Len(req) /\ Head(req) = req[1]  BY <1>1, HeadIndex
      <4>2. Head(req).kind # "user"
            /\ (Head(req).kind = "echo" => gpInFlight \in {NoQuery, Head(req).out})
        BY <4>1 DEF OwnNames
      <4> QED  BY <1>2, <2>2, <4>2
    <3> QED  BY <3>2, <3>3, <3>4, <3>5
  <2> QED  BY <2>1, <2>2
<1>7. Len(req') + Len(resp') <= 1
  <2>1. Len(resp') \in 0..1  BY <1>6
  <2> QED  BY <1>4, <2>1
<1>8. OneAtATime'  BY <1>2, <1>5, <1>6, <1>7 DEF OneAtATime
<1>9. \A i \in 1..Len(req') : FALSE  BY <1>4
<1>10. OwnNames'  BY <1>2, <1>6, <1>9 DEF OwnNames
<1> QED  BY <1>8, <1>10

LEMMA AnswersAlone ==
    ASSUME TypeOK, Alone, OneAtATime, OwnNames, PrinterAnswers \/ LineFault
    PROVE  OneAtATime' /\ OwnNames'
<1>1. req # <<>> /\ Head(req) \in Requests /\ DataOK
  <2>1. req # <<>> /\ req \in Seq(Requests) /\ DataOK
    BY Zenon DEF PrinterAnswers, LineFault, TypeOK, DataOK
  <2> QED  BY <2>1
<1> DEFINE Answer(m) == /\ m \in Responses /\ m.boot = boot
                        /\ m.kind = "resp" => /\ Head(req).kind \in {"echo", "user"}
                                              /\ m.out = Head(req).out
<1>2. ASSUME NEW st \in PrinterStatuses, NEW fate \in {"whole"} \cup Damages
      PROVE  Answer(Response(Head(req), st, fate))
  <2>1. Response(Head(req), st, fate) \in Responses  BY <1>1, ResponseTyped
  <2>2. Head(req).kind \in {"detail", "state", "live", "echo", "user", "side"}
    BY <1>1 DEF Requests
  <2> QED  BY <2>1, <2>2 DEF Response
<1>3. ASSUME NEW st \in PrinterStatuses, NEW k \in {Head(req).key, NoSeq}
      PROVE  Answer([Response(Head(req), st, "whole") EXCEPT !.kind = "oob", !.key = k])
  <2>1. [Response(Head(req), st, "whole") EXCEPT !.kind = "oob", !.key = k] \in Responses
    BY <1>1, ResponseTyped
  <2> QED  BY <2>1 DEF Response
<1>4. CASE PrinterAnswers
  <2>1. PICK st \in PrinterStatuses : Reply(Response(Head(req), st, "whole"))
    BY <1>4 DEF PrinterAnswers
  <2>2. UNCHANGED <<panel, user>>  BY <1>4 DEF PrinterAnswers
  <2>3. req' = Tail(req) /\ resp' = Append(resp, Response(Head(req), st, "whole"))
    BY <2>1 DEF Reply
  <2>4. Answer(Response(Head(req), st, "whole"))  BY <1>2
  <2> QED  BY <1>1, <2>2, <2>3, <2>4, LineAlone
<1>5. CASE LineFault
  <2>1. UNCHANGED <<panel, user>>  BY <1>5, Zenon DEF LineFault
  <2>2. CASE req' = Tail(req) /\ UNCHANGED resp  BY <1>1, <2>1, <2>2, LineAlone
  <2>3. CASE \E st \in PrinterStatuses, d \in FaultKinds \cap Damages :
                Reply(Response(Head(req), st, d))
    <3>1. PICK st \in PrinterStatuses, d \in FaultKinds \cap Damages :
                Reply(Response(Head(req), st, d))
      BY <2>3
    <3>2. req' = Tail(req) /\ resp' = Append(resp, Response(Head(req), st, d))
      BY <3>1 DEF Reply
    <3>3. Answer(Response(Head(req), st, d))  BY <1>2
    <3> QED  BY <1>1, <2>1, <3>2, <3>3, LineAlone
  <2>4. CASE \E st \in PrinterStatuses, k \in {Head(req).key, NoSeq} :
                Reply([Response(Head(req), st, "whole") EXCEPT !.kind = "oob", !.key = k])
    <3>1. PICK st \in PrinterStatuses, k \in {Head(req).key, NoSeq} :
                Reply([Response(Head(req), st, "whole") EXCEPT !.kind = "oob", !.key = k])
      BY <2>4
    <3> DEFINE m == [Response(Head(req), st, "whole") EXCEPT !.kind = "oob", !.key = k]
    <3>2. req' = Tail(req) /\ resp' = Append(resp, m)  BY <3>1 DEF Reply
    <3>3. Answer(m)  BY <1>3
    <3> HIDE DEF m
    <3> QED  BY <1>1, <2>1, <3>2, <3>3, LineAlone
  <2> QED  BY <1>5, <2>2, <2>3, <2>4, Zenon DEF LineFault
<1> QED  BY <1>4, <1>5

\* A printer that answers in time lets a period go by only when the line is idle.
LEMMA TimeAlone ==
    ASSUME ~Late, TypeOK, OneAtATime, OwnNames, Tick \/ ResponseTimeout \/ LineFallsQuiet
    PROVE  OneAtATime' /\ OwnNames'
<1>1. CASE Tick
  <2>1. LineIsIdle  BY <1>1 DEF Tick, OneAtATime, LineIsIdle
  <2>2. UNCHANGED <<req, resp, gpName, gpInFlight, setupTab, side, remoteBoot>>
    BY <1>1 DEF Tick, outs, user, link
  <2> QED  BY <2>1, <2>2, NothingAsked
<1>2. CASE ResponseTimeout
  <2>1. /\ respAge = ReconnectAge /\ gpInFlight' = NoQuery
        /\ UNCHANGED <<req, resp, gpName, setupTab, side, remoteBoot>>
    BY <1>2 DEF ResponseTimeout, Reconnect, user
  <2> QED  BY <2>1, NothingAsked
<1>3. CASE LineFallsQuiet
  <2>1. UNCHANGED <<req, resp, gpName, gpInFlight, setupTab, side, remoteBoot, answered,
                    pollAge, respAge>>
    BY <1>3 DEF LineFallsQuiet, outs, user, link, times
  <2> QED  BY <2>1, NothingAsked
<1> QED  BY <1>1, <1>2, <1>3

\* The printer has not restarted, nor the user done anything, unless it was so before.
LEMMA AloneBefore ==
    ASSUME TypeOK, boot >= 1, Next
    PROVE  /\ boot' >= 1
           /\ Alone' => Alone /\ ~UserActs /\ ~Reboot
<1>1. boot \in Nat /\ userSteps \in Nat  BY ConstantsAssumption DEF TypeOK, DataOK, Boots
<1>2. CASE UserActs
  <2>1. userSteps' = userSteps + 1 /\ boot' = boot
    BY <1>2, Zenon DEF UserActs, printer
  <2>2. userSteps' # 0  BY <1>1, <2>1
  <2> QED  BY <2>1, <2>2 DEF Alone
<1>3. CASE Reboot
  <2>1. boot' = boot + 1  BY <1>3, Zenon DEF Reboot
  <2>2. boot' >= 1 /\ boot' # 1  BY <1>1, <2>1
  <2> QED  BY <2>2 DEF Alone
<1>4. CASE ~UserActs /\ ~Reboot
  <2>1. UNCHANGED <<boot, userSteps>>
    <3>1. CASE CheckInput
      BY <3>1, Zenon DEF CheckInput, StartReceivedMessage, ReceiveKey, ReceiveSeqs,
         ReceiveDetail, ReceiveState, ReceiveResp, ReceiveOther, EndReceivedMessage,
         ParserErrorEncountered, AbandonLine, user, printer
    <3>2. CASE PollThumbnail \/ PollSeq \/ RequestTimeout \/ ResponseTimeout
      BY <3>2, Zenon DEF PollThumbnail, PollSeq, RequestTimeout, ResponseTimeout, user, printer
    <3>3. CASE PollIdle
      <4>1. UNCHANGED userSteps
        BY <3>3, Zenon DEF PollIdle, QueryName, QueryFiles, QueryLive, user
      <4> QED  BY <3>3, <4>1, Zenon DEF PollIdle, printer
    <3>4. CASE LineFallsQuiet \/ Tick \/ LeaveSetup
      BY <3>4, Zenon DEF LineFallsQuiet, Tick, LeaveSetup, user, printer
    <3>5. CASE PrinterAnswers \/ LineFault \/ ModelChanges
      BY <3>5, Zenon DEF PrinterAnswers, LineFault, ModelChanges, user, printer
    <3> QED  BY <1>4, <3>1, <3>2, <3>3, <3>4, <3>5, Zenon DEF Next, Poll
  <2> QED  BY <1>4, <2>1 DEF Alone
<1> QED  BY <1>2, <1>3, <1>4

LEMMA AloneInvariant ==
    ASSUME ~Late PROVE Spec => []AloneInv
<1>1. Init => AloneInv
  <2> SUFFICES ASSUME Init PROVE AloneInv  OBVIOUS
  <2>1. /\ ~setupTab /\ side = "none" /\ remoteBoot = 0 /\ req = <<>> /\ resp = <<>> /\ boot = 1
        /\ \A o \in Outputs : gpName[o] = ""
    BY DEF Init
  <2>2. /\ Len(req) = 0 /\ Len(resp) = 0
        /\ \A i \in 1..Len(req) : FALSE
        /\ \A i \in 1..Len(resp) : FALSE
    <3>1. req = <<>> /\ resp = <<>>  BY <2>1
    <3> QED  BY <3>1
  <2>3. Len(req) + Len(resp) <= 1 /\ remoteBoot <= 1 /\ boot >= 1
    <3>1. remoteBoot = 0 /\ boot = 1  BY <2>1
    <3> QED  BY <2>2, <3>1
  <2>4. OneAtATime  BY <2>1, <2>2, <2>3, Zenon DEF OneAtATime, LineIsIdle
  <2>5. \A o \in Outputs : gpName[o] \in {"", "own"}  BY <2>1, Zenon
  <2>6. OwnNames  BY <2>2, <2>5, Zenon DEF OwnNames
  <2> QED  BY <2>3, <2>4, <2>6, Zenon DEF AloneInv
<1>2. TypeOK /\ AloneInv /\ [Next]_vars => AloneInv'
  <2> SUFFICES ASSUME TypeOK, AloneInv, [Next]_vars PROVE AloneInv'  OBVIOUS
  <2>1. CASE Next
    <3>1. boot >= 1  BY DEF AloneInv
    <3>2. boot' >= 1 /\ (Alone' => Alone /\ ~UserActs /\ ~Reboot)  BY <2>1, <3>1, AloneBefore
    <3>3. ASSUME Alone' PROVE OneAtATime' /\ OwnNames'
      <4>1. Alone /\ OneAtATime /\ OwnNames /\ ~UserActs /\ ~Reboot  BY <3>2, <3>3 DEF AloneInv
      <4>2. ~LeaveSetup  BY <4>1 DEF LeaveSetup, OneAtATime
      <4>3. CASE ModelChanges
        <5>1. UNCHANGED <<req, resp, gpName, gpInFlight, setupTab, side, remoteBoot, answered,
                          pollAge, respAge>>
          BY <4>3, Zenon DEF ModelChanges, panel, outs, user, link, times
        <5> QED  BY <4>1, <5>1, NothingAsked
      <4> QED
        BY <2>1, <4>1, <4>2, <4>3, ParserAlone, LoopAsks, AnswersAlone, TimeAlone, Zenon DEF Next
    <3> QED  BY <3>2, <3>3 DEF AloneInv
  <2>2. CASE UNCHANGED vars
    BY <2>2, Zenon DEF AloneInv, Alone, OneAtATime, OwnNames, LineIsIdle, vars
  <2> QED  BY <2>1, <2>2
<1> QED  BY <1>1, <1>2, TypeCorrect, PTL DEF Spec

\* Then no output is shown with anything but its own name.
THEOREM NamesAreTheirs ==
    ASSUME ~Late, MaxBoot = 1, MaxUser = 0 PROVE Spec => []NamesAreOwn
<1>1. TypeOK /\ AloneInv => NamesAreOwn
  <2> SUFFICES ASSUME TypeOK, AloneInv PROVE NamesAreOwn  OBVIOUS
  <2>1. boot \in 0..1 /\ userSteps \in 0..0 /\ boot >= 1
    BY DEF TypeOK, DataOK, Boots, AloneInv
  <2>2. Alone  BY <2>1 DEF Alone
  <2> QED  BY <2>2, Zenon DEF AloneInv, OwnNames, NamesAreOwn
<1> QED  BY <1>1, AloneInvariant, TypeCorrect, PTL
=============================================================================
