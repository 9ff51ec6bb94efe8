------------------------------ MODULE DlqReplay -----------------------------
(***************************************************************************)
(* A consumer group, its Dead Letter Topic and the tool that replays it.   *)
(* The group appends one record per parking, and two when a message is     *)
(* parked, its offset lost and the message parked again.  The tool asks    *)
(* for the length of the topic, then reads it from the beginning with a    *)
(* consumer group of its own, sending each envelope back to its topic,     *)
(* until it has counted as many deliveries; the group goes on meanwhile    *)
(* and may park what has just been replayed.  A topic is open to everyone, *)
(* so it may also hold what no group wrote and the tool cannot read.       *)
(***************************************************************************)
EXTENDS EventConsumer

CONSTANTS
    MaxPublished,   \* bound: messages per topic that the tool has not sent
    Unreadable      \* a record with no value, or one that is not JSON

Records == Topics \X Nat

ASSUME DlqReplayAssumption ==
    /\ MaxPublished \in Nat
    /\ Unreadable \notin Records

VARIABLES
    dltLog,     \* the Dead Letter Topic: the (topic, offset) its records name, in order
    tool        \* the tool: where it stands, the length it was told, the offset it
                \* has reached, its count of deliveries, the records it has sent

replayVars == <<vars, dltLog, tool>>

ReplayInit ==
    /\ Init
    /\ dltLog = << >>
    /\ tool = [pc |-> "off", high |-> 0, at |-> 0, seen |-> 0, sent |-> {}, erred |-> FALSE]

-----------------------------------------------------------------------------
\* The consumer group

\* parkOnDlq() sends one record for the message in hand.
Record == Append(dltLog, <<handling, Offset>>)

\* The steps of the group that park nothing.
ParksNothing ==
    /\ \/ \E t \in Topics, m \in Messages : Len(log[t]) < MaxPublished /\ Publish(t, m)
       \/ \E t \in Topics : Take(t)
       \/ Commit \/ SkipEmpty \/ HandlerSucceeds \/ Restart
    /\ UNCHANGED dltLog

\* Those that park, or may: the last attempt does, and a producer that throws may
\* have been heard.
Parks ==
    \/ ParkMalformed /\ dltLog' = Record
    \/ HandlerFails /\ dltLog' = IF handling' = NoTopic THEN Record ELSE dltLog
    \/ ParkingFails /\ dltLog' \in {dltLog, Record}

\* Someone else writes to the Dead Letter Topic.
OthersWrite ==
    /\ faults < MaxFaults
    /\ dltLog' = Append(dltLog, Unreadable)
    /\ faults' = faults + 1
    /\ UNCHANGED <<log, consumerVars, handled>>

-----------------------------------------------------------------------------
\* The tool

groupFrame == UNCHANGED <<consumerVars, handled, dltLog>>

\* Not for an empty topic, or one that does not exist yet.
ToolStarts ==
    /\ tool.pc = "off" /\ dltLog # << >>
    /\ tool' = [tool EXCEPT !.pc = "reading", !.high = Len(dltLog)]
    /\ UNCHANGED <<log, faults>> /\ groupFrame

\* The record it is given.  One that was parked because it does not parse has no
\* envelope.
Given == tool.at + 1
Original == dltLog[Given]
Replayable(k) == dltLog[k] # Unreadable /\ log[dltLog[k][1]][dltLog[k][2]] # Malformed

\* Variant for the checks: the high watermark taken for the last offset.
EnoughAtLastOffset(n) == n >= tool.high - 1

Enough(n) == n >= tool.high

Delivered == tool.pc \in {"reading", "stopping"} /\ tool.at < Len(dltLog)

\* The delivery is counted before anything else.
Received == [tool EXCEPT !.at = Given, !.seen = @ + 1]

\* Variant for the checks: a record without an envelope returns as well, before
\* the end test.
CountedReturns(sent) ==
    [Received EXCEPT !.sent = sent,
                     !.pc = IF Enough(tool.seen + 1) /\ Replayable(Given) THEN "stopping" ELSE @]

\* The end test: the last delivery makes the tool disconnect.
Counted(sent) ==
    [Received EXCEPT !.sent = sent,
                     !.pc = IF Enough(tool.seen + 1) THEN "stopping" ELSE @]

\* What it cannot read it leaves at once: the end test is not reached.
ToolDiscards ==
    /\ Delivered /\ Original = Unreadable
    /\ tool' = Received
    /\ UNCHANGED <<log, faults>> /\ groupFrame

\* A record without an envelope is not sent, but does reach the end test.
ToolSkips ==
    /\ Delivered /\ Original # Unreadable /\ ~Replayable(Given)
    /\ tool' = Counted(tool.sent)
    /\ UNCHANGED <<log, faults>> /\ groupFrame

\* (While it disconnects it may go round: what it sends may be parked and read
\* again.  MaxLog bounds that.)
ToolSends ==
    /\ Delivered /\ Replayable(Given)
    /\ tool.pc = "stopping" => Len(log[Original[1]]) < MaxLog
    /\ SendTo(Original[1], log[Original[1]][Original[2]])
    /\ tool' = Counted(tool.sent \cup {Given})
    /\ UNCHANGED faults /\ groupFrame

\* producer.send throws out of eachMessage: the delivery has been counted, and
\* KafkaJS delivers the record again.  The broker may have stored what was sent.
ToolSendFails ==
    /\ faults < MaxFaults /\ tool.pc = "reading"
    /\ Delivered /\ Replayable(Given)
    /\ tool' = [tool EXCEPT !.seen = @ + 1, !.erred = TRUE]
    /\ faults' = faults + 1
    /\ UNCHANGED log \/ SendTo(Original[1], log[Original[1]][Original[2]])
    /\ groupFrame

\* consumer.disconnect() is done.
ToolEnds ==
    /\ tool.pc = "stopping"
    /\ tool' = [tool EXCEPT !.pc = "done"]
    /\ UNCHANGED <<log, faults>> /\ groupFrame

-----------------------------------------------------------------------------

ReplayNext ==
    \/ (ParksNothing \/ Parks \/ OthersWrite) /\ UNCHANGED tool
    \/ ToolStarts \/ ToolDiscards \/ ToolSkips \/ ToolSends \/ ToolSendFails \/ ToolEnds

\* Besides what the group does: Kafka gives the tool the records there are.
ReplaySpec ==
    /\ ReplayInit /\ [][ReplayNext]_replayVars
    /\ Fairness
    /\ WF_replayVars(ToolDiscards \/ ToolSkips \/ ToolSends)

-----------------------------------------------------------------------------
\* Properties

\* Types; a record names a message there is, and the tool has sent none that it
\* has not been given.
ReplayTypeOK ==
    /\ TypeOK
    /\ dltLog \in Seq(Records \cup {Unreadable})
    /\ \A k \in 1 .. Len(dltLog) :
          dltLog[k] # Unreadable => dltLog[k][2] \in 1 .. Len(log[dltLog[k][1]])
    /\ tool \in [pc : {"off", "reading", "stopping", "done"}, high : Nat, at : Nat,
                 seen : Nat, sent : SUBSET Nat, erred : BOOLEAN]
    /\ tool.at <= Len(dltLog) /\ tool.at <= tool.seen /\ tool.sent \subseteq 1 .. tool.at

\* "reads every record currently on a Dead Letter Topic ... and republishes each
\* one's original envelope": when the tool stops, whatever was on the topic when
\* it started was sent again or cannot be.  Not so once a send has thrown: the
\* tool counts deliveries, so it ends before the last record.
ReplayReadsAll ==
    tool.pc \in {"stopping", "done"} /\ ~tool.erred =>
        \A k \in 1 .. tool.high : k \in tool.sent \/ ~Replayable(k)

\* What makes the tool wait for ever: it knows the end of the topic only by a
\* record it can read, and from the last one it was told of there is none.
Stranded == \A k \in tool.high .. Len(dltLog) : dltLog[k] = Unreadable

\* The tool comes to an end, whatever it is given, sends that throw included, and
\* whatever the group does to the topic it reads; unless it is stranded, and then
\* with the first record it can read.
ReplayEnds == tool.pc = "reading" ~> tool.pc # "reading" \/ Stranded

=============================================================================
