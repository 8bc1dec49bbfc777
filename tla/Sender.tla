------------------------------- MODULE Sender -------------------------------
(***************************************************************************)
(* The sender of a connection (protocol/connection/sender.rs): it takes    *)
(* messages out of a channel and gives them to the sink, one of them in    *)
(* between if the sink has no room, and closes the sink at the end.        *)
(*                                                                         *)
(* Messages are numbered in the order they are put into the channel.  The  *)
(* sink is a framed transport: it holds up to SinkCapacity messages and    *)
(* writes them out as far as the transport takes them (window).  What      *)
(* returned NotReady holds the task's waker until it uses it.              *)
(***************************************************************************)
EXTENDS Integers, Sequences

CONSTANTS
    MaxMessages,    \* bound: the messages that are put into the channel
    SinkCapacity    \* the messages the sink holds before it refuses one

ASSUME SenderAssumption == MaxMessages \in Nat /\ SinkCapacity \in Nat \ {0}

VARIABLES
    submitted,      \* the messages put into the channel
    taken,          \* how many of them were taken out
    handles,        \* a sender handle exists
    buffered,       \* buffered_message, 0 for None
    accepted,       \* the messages the sink accepted, in order
    flushed,        \* how many of them it has written out
    window,         \* how many the transport has room for, in all
    broken,         \* the transport has failed
    sending,        \* where the poll is, "asleep" between two polls
    notified,       \* the task has been notified
    wakers          \* who holds the task's waker

senderVars == <<submitted, taken, handles, buffered, accepted, flushed, window,
                broken, sending, notified, wakers>>
channelVars == <<submitted, handles>>
transportVars == <<window, broken>>

SenderInit ==
    /\ submitted = 0 /\ taken = 0 /\ handles = TRUE
    /\ buffered = 0
    /\ accepted = <<>> /\ flushed = 0 /\ window = 0 /\ broken = FALSE
    /\ sending = "asleep" /\ notified = TRUE /\ wakers = {}

-----------------------------------------------------------------------------
(* Sink::poll_complete writes what the transport has room for, and fails   *)
(* if there is something to write and the transport has failed.            *)
FlushedNow == IF broken THEN flushed
              ELSE IF Len(accepted) < window THEN Len(accepted) ELSE window
AllFlushed == FlushedNow = Len(accepted)
FlushFails == broken /\ flushed < Len(accepted)

(* try_send_message(m): a full sink flushes before it refuses a message,   *)
(* and holds the waker if it does.                                         *)
TrySendMessage(m) ==
    LET full == Len(accepted) - flushed >= SinkCapacity
        room == Len(accepted) - FlushedNow < SinkCapacity
    IN  /\ flushed' = IF full THEN FlushedNow ELSE flushed
        /\ \/ /\ full /\ broken
              /\ buffered' = 0 /\ sending' = "Err"
              /\ UNCHANGED <<accepted, wakers>>
           \/ /\ room
              /\ accepted' = Append(accepted, m)
              /\ buffered' = 0 /\ sending' = "write"
              /\ UNCHANGED wakers
           \/ /\ ~broken /\ ~room
              /\ buffered' = m /\ sending' = "asleep"
              /\ wakers' = wakers \cup {"sink"}
              /\ UNCHANGED accepted

StartSending ==
    /\ sending = "asleep" /\ notified
    /\ sending' = "retry" /\ notified' = FALSE
    /\ UNCHANGED <<taken, channelVars, buffered, accepted, flushed, transportVars, wakers>>

\* Mutant: the next message is taken while one is still waiting.
RetryBufferedLater ==
    /\ sending = "retry"
    /\ sending' = "write"
    /\ UNCHANGED <<taken, channelVars, buffered, accepted, flushed, transportVars,
                   notified, wakers>>

(* poll: the message that the sink refused the last time comes first.      *)
RetryBuffered ==
    /\ sending = "retry"
    /\ IF buffered = 0
       THEN sending' = "write" /\ UNCHANGED <<buffered, accepted, flushed, wakers>>
       ELSE TrySendMessage(buffered)
    /\ UNCHANGED <<taken, channelVars, transportVars, notified>>

(* poll_write: the channel has a message.                                  *)
WriteMessage ==
    /\ sending = "write" /\ taken < submitted
    /\ taken' = taken + 1
    /\ TrySendMessage(taken + 1)
    /\ UNCHANGED <<channelVars, transportVars, notified>>

\* Mutants: nothing is flushed, or the channel does not hear of the task.
WriteNotReadyUnflushed ==
    /\ sending = "write" /\ taken = submitted /\ handles
    /\ sending' = "asleep"
    /\ wakers' = wakers \cup {"channel"}
    /\ UNCHANGED <<taken, channelVars, buffered, accepted, flushed, transportVars, notified>>

WriteNotReadyUnregistered ==
    /\ sending = "write" /\ taken = submitted /\ handles
    /\ sending' = (IF FlushFails THEN "Err" ELSE "asleep")
    /\ flushed' = FlushedNow
    /\ UNCHANGED <<taken, channelVars, buffered, accepted, transportVars, notified, wakers>>

(* poll_write: the channel is empty; what the sink holds is flushed.       *)
WriteNotReady ==
    /\ sending = "write" /\ taken = submitted /\ handles
    /\ sending' = (IF FlushFails THEN "Err" ELSE "asleep")
    /\ flushed' = FlushedNow
    /\ wakers' = wakers \cup {"channel"} \cup (IF AllFlushed THEN {} ELSE {"sink"})
    /\ UNCHANGED <<taken, channelVars, buffered, accepted, transportVars, notified>>

(* poll_write: there are no more handles.                                  *)
WriteEnds ==
    /\ sending = "write" /\ taken = submitted /\ ~handles
    /\ sending' = "close"
    /\ UNCHANGED <<taken, channelVars, buffered, accepted, flushed, transportVars,
                   notified, wakers>>

\* Mutant: the end is reported before the sink is flushed.
CloseSinkEarly ==
    /\ sending = "close"
    /\ sending' = "Ok"
    /\ flushed' = FlushedNow
    /\ UNCHANGED <<taken, channelVars, buffered, accepted, transportVars, notified, wakers>>

(* Sink::close flushes first.                                              *)
CloseSink ==
    /\ sending = "close"
    /\ flushed' = FlushedNow
    /\ \/ /\ FlushFails
          /\ sending' = "Err" /\ UNCHANGED wakers
       \/ /\ AllFlushed
          /\ sending' = "Ok" /\ UNCHANGED wakers
       \/ /\ ~broken /\ ~AllFlushed
          /\ sending' = "asleep" /\ wakers' = wakers \cup {"sink"}
    /\ UNCHANGED <<taken, channelVars, buffered, accepted, transportVars, notified>>

SenderPoll ==
    StartSending \/ RetryBuffered \/ WriteMessage \/ WriteNotReady \/ WriteEnds \/ CloseSink

-----------------------------------------------------------------------------
NotifySender(source) ==
    /\ notified' = (notified \/ source \in wakers)
    /\ wakers' = wakers \ {source}

(* SenderHandle::try_send_message.                                         *)
SubmitMessage ==
    /\ handles /\ submitted < MaxMessages /\ sending # "Err"
    /\ submitted' = submitted + 1
    /\ NotifySender("channel")
    /\ UNCHANGED <<taken, handles, buffered, accepted, flushed, transportVars, sending>>

DropHandles ==
    /\ handles
    /\ handles' = FALSE
    /\ NotifySender("channel")
    /\ UNCHANGED <<submitted, taken, buffered, accepted, flushed, transportVars, sending>>

(* The peer reads: the transport has room for one message more.            *)
TransportTakes ==
    /\ window < MaxMessages /\ ~broken
    /\ window' = window + 1
    /\ NotifySender("sink")
    /\ UNCHANGED <<taken, channelVars, buffered, accepted, flushed, broken, sending>>

TransportFails ==
    /\ ~broken
    /\ broken' = TRUE
    /\ NotifySender("sink")
    /\ UNCHANGED <<taken, channelVars, buffered, accepted, flushed, window, sending>>

SenderNext ==
    SenderPoll \/ SubmitMessage \/ DropHandles \/ TransportTakes \/ TransportFails

SenderSpec == SenderInit /\ [][SenderNext]_senderVars

-----------------------------------------------------------------------------
SenderTypeOK ==
    /\ submitted \in 0 .. MaxMessages /\ taken \in 0 .. submitted
    /\ handles \in BOOLEAN /\ broken \in BOOLEAN /\ notified \in BOOLEAN
    /\ buffered \in 0 .. taken
    /\ accepted \in Seq(1 .. MaxMessages) /\ Len(accepted) <= taken
    /\ flushed \in 0 .. Len(accepted)
    /\ window \in 0 .. MaxMessages
    /\ sending \in {"asleep", "retry", "write", "close", "Ok", "Err"}
    /\ wakers \subseteq {"channel", "sink"}

(* The sink is given every message once and in the order of the channel,   *)
(* however often it refuses one: what was taken is in the sink, but for    *)
(* the one message that waits for it (poll, and the debug_asserts that     *)
(* buffered_message is empty).                                             *)
SentInOrder ==
    /\ \A i \in DOMAIN accepted : accepted[i] = i
    /\ sending # "Err" =>
          taken = Len(accepted) + (IF buffered = 0 THEN 0 ELSE 1)
    /\ buffered # 0 => buffered = taken /\ sending \in {"asleep", "retry"}

(* A sender that sleeps on work was notified of it, or waits for a         *)
(* transport that takes nothing more: neither a queued message nor one     *)
(* that is not flushed, nor the end of the handles, is slept through.      *)
SleepsOnlyBlocked ==
    /\ (sending = "asleep" /\ ~notified
        /\ (taken < submitted \/ ~handles \/ buffered # 0 \/ flushed < Len(accepted)))
          => "sink" \in wakers /\ flushed = window /\ ~broken
    /\ (sending = "asleep" /\ ~notified /\ "sink" \notin wakers) => "channel" \in wakers

(* "there are no longer any new messages to be sent and all existing       *)
(* messages have been flushed" (Sender::poll returns Ready).               *)
FinishedMeansFlushed == sending = "Ok" => flushed = submitted /\ ~handles

(* The inductive invariant: what the sink holds is what was taken, in      *)
(* order; only a sender without messages closes; and who holds the waker   *)
(* of a sender that sleeps, the channel or a sink that is blocked.         *)
SinkInv ==
    /\ flushed <= window
    /\ sending \in {"close", "Ok"} => ~handles /\ taken = submitted
    /\ sending = "Ok" => flushed = Len(accepted)
Blocked == "sink" \in wakers /\ flushed = window /\ ~broken
WakerInv ==
    (sending = "asleep" /\ ~notified) =>
        \/ Blocked
        \/ /\ "channel" \in wakers /\ handles
           /\ taken = submitted /\ buffered = 0
           /\ flushed = Len(accepted)
SenderInv == SenderTypeOK /\ SentInOrder /\ SinkInv /\ WakerInv

(* While the peer reads and the transport works, every message that a      *)
(* handle has put into the channel goes out, without a further event.      *)
EveryMessageIsWritten ==
    \A n \in 1 .. MaxMessages : submitted >= n ~> (flushed >= n \/ broken)
=============================================================================
