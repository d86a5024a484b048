-------------------------- MODULE WebSocketClient --------------------------
(***************************************************************************)
(* The two WebSocketClient backends and the way their callers use them.    *)
(*                                                                         *)
(* The host backend (platform/host/websocket_client.cpp) parses frames on  *)
(* the connection thread, inside ReceiveText().  The firmware backend      *)
(* (platform/firmware/websocket_client.cpp) is fed by the library's task,  *)
(* through WebSocketMessageAssembler's queue.  A fresh client is made for  *)
(* every connection, so one behaviour follows one client.                  *)
(*                                                                         *)
(* A frame is two cells on the wire, its first byte and the rest, which    *)
(* may arrive at different times: a read between them finds half a frame.  *)
(* A message is the list of its non-empty frames; header syntax, masks,    *)
(* SHA-1 and base64 are abstracted to the verdicts they give.              *)
(***************************************************************************)
EXTENDS Naturals, Sequences, FiniteSets, SequencesExt

CONSTANTS WsClients,        \* <<backend, caller>> pairs to explore
          MaxQueuedMessages, \* kMaxQueuedWebSocketMessages
          MaxMessageFrames, \* kMaxWebSocketMessageBytes, in non-empty frames
          MaxWsFrames       \* bound: frames the peer sends

ASSUME WebSocketAssumption ==
    /\ WsClients \subseteq {"host", "firmware"} \X {"harmony", "kodi"}
    /\ {MaxQueuedMessages, MaxMessageFrames} \subseteq Nat \ {0}
    /\ MaxWsFrames \in Nat

VARIABLES ws_client,      \* the <<backend, caller>> of this behaviour
          handle,         \* curl_, client_: "new", "connecting", "open", "closed"
          closed_,
          partial,        \* accumulated, in_progress_: frames of one message
          ws_queue,       \* the assembler's queue_ (firmware)
          ws_pc, header,  \* where ReceiveText() is, and the first byte it read
          connect_result, \* connect_pending_, connect_succeeded_ (firmware)
          library,        \* the library's task (firmware): "off", "on", "down"
          wire,           \* cells that have arrived and are not read
          sent,           \* messages of the peer: lists of non-empty frames
          peer_sends,     \* "message" while its last message is not finished,
                          \* "cut" once it never will be, "closed", "idle"
          half_frame,     \* cells of a frame that has only half arrived
          frames_used,
          returned,       \* number of the message returned last (0: none)
          dropped         \* messages the assembler's bound dropped

connection == <<handle, closed_, partial, ws_queue, ws_pc, header, connect_result, library>>
peer == <<sent, peer_sends, half_frame, frames_used>>
ws_vars == <<ws_client, connection, wire, peer, returned, dropped>>

Host == ws_client[1] = "host"
Firmware == ws_client[1] = "firmware"
Garbage == MaxWsFrames + 1     \* a message read out of step with the frames

\* The peer has sent all of its n-th message.
Whole(n) == n < Len(sent) \/ peer_sends \notin {"message", "cut"}

\* The number of the peer's message with this content; Garbage when it is
\* no whole message.
MessageOf(content) ==
    IF \E n \in 1..Len(sent) : sent[n] = content /\ Whole(n)
    THEN CHOOSE n \in 1..Len(sent) : sent[n] = content
    ELSE Garbage

-----------------------------------------------------------------------------
(***************************************************************************)
(* The peer.  A message is one or more text frames, the last with FIN;     *)
(* control frames may come between them.  Frames other than the first may  *)
(* not be empty here, so that messages can be told apart.                  *)
(***************************************************************************)
Opcodes == {"text", "ping", "pong", "close", "reserved"}

\* Nothing follows a close, in the middle of a message or between two.
PeerClosed == IF peer_sends \in {"message", "cut"} THEN "cut" ELSE "closed"

PeerStartsFrame ==
    /\ handle \in {"open", "connecting"} /\ library # "down" /\ half_frame = <<>>
    /\ Host => handle = "open"
    /\ frames_used < MaxWsFrames /\ peer_sends \in {"idle", "message"}
    /\ \E op \in Opcodes, fin \in BOOLEAN, len \in {0, 1} :
          /\ op # "text" => fin /\ len = 0
          /\ len = 0 /\ op = "text" => ~fin /\ peer_sends = "idle"
          /\ LET f == [f |-> frames_used + 1, op |-> op, fin |-> fin, len |-> len]
             IN  /\ half_frame' = <<f>> /\ wire' = Append(wire, [part |-> "head", f |-> f])
                 /\ sent' = IF op # "text" THEN sent
                            ELSE LET add == IF len = 1 THEN <<f.f>> ELSE <<>>
                                 IN  IF peer_sends = "message"
                                     THEN [sent EXCEPT ![Len(sent)] = @ \o add]
                                     ELSE Append(sent, add)
          /\ peer_sends' = IF op = "close" THEN PeerClosed
                           ELSE IF op = "text" THEN (IF fin THEN "idle" ELSE "message")
                           ELSE peer_sends
    /\ frames_used' = frames_used + 1
    /\ UNCHANGED <<ws_client, connection, returned, dropped>>

PeerEndsFrame ==
    /\ half_frame # <<>>
    /\ wire' = Append(wire, [part |-> "body", f |-> half_frame[1]])
    /\ half_frame' = <<>>
    /\ UNCHANGED <<ws_client, connection, sent, peer_sends, frames_used, returned, dropped>>

-----------------------------------------------------------------------------
(***************************************************************************)
(* The host backend.                                                       *)
(***************************************************************************)
\* Connect(): the TCP connection, then the upgrade request and the four
\* checks of its response; any of them may fail.
HostConnect ==
    /\ Host /\ handle = "new"
    /\ handle' \in {"open", "closed"} /\ closed_' = FALSE
    /\ UNCHANGED <<ws_client, partial, ws_queue, ws_pc, header, connect_result, library,
                   wire, peer, returned, dropped>>

\* HarmonyConnection reads only after SendText() or IsOpen() has seen the
\* connection open; KodiClient's PumpNotifications() reads without asking.
CallerReads == ws_client[2] = "harmony" => ~closed_

HostReceiveText ==
    /\ Host /\ handle = "open" /\ ws_pc = "idle" /\ CallerReads
    /\ ws_pc' = "first_byte" /\ partial' = <<>>
    /\ UNCHANGED <<ws_client, handle, closed_, ws_queue, header, connect_result, library,
                   wire, peer, returned, dropped>>

HostReturns(message, now_closed) ==
    /\ ws_pc' = "idle" /\ returned' = message /\ closed_' = now_closed
    /\ UNCHANGED <<ws_client, handle, partial, ws_queue, header, connect_result, library,
                   peer, dropped>>

\* The deadline passes with nothing to read: at a message boundary the
\* connection stays usable, anywhere else the framing is lost.
HostTimeout ==
    /\ Host /\ ws_pc \in {"first_byte", "rest"} /\ wire = <<>>
    /\ HostReturns(returned, closed_ \/ ws_pc = "rest" \/ partial # <<>>)
    /\ UNCHANGED wire

\* ReadExact() of the first header byte.  After a lost frame start the byte
\* read is one of its payload, which decides nothing: it may be refused as
\* an opcode or taken for one, and then swallow what follows.
HostReadsHead ==
    /\ Host /\ ws_pc = "first_byte" /\ wire # <<>>
    /\ wire' = Tail(wire)
    /\ IF Head(wire).part = "head"
       THEN /\ ws_pc' = "rest" /\ header' = Head(wire).f
            /\ UNCHANGED <<ws_client, handle, closed_, partial, ws_queue, connect_result,
                           library, peer, returned, dropped>>
       ELSE /\ UNCHANGED header
            /\ \/ HostReturns(returned, TRUE)
               \/ Head(wire).f.len = 1 /\ HostReturns(Garbage, closed_)

\* The rest of the frame: a reserved opcode, a CLOSE or a message over the
\* bound fail the connection, PING and PONG are not content.
FrameOutcome ==
    IF header.op \in {"close", "reserved"} THEN "fail"
    ELSE IF Len(partial) + header.len > MaxMessageFrames THEN "fail"
    ELSE IF header.op \in {"ping", "pong"} THEN "next"
    ELSE IF header.fin THEN "message" ELSE "more"

HostReadsRest ==
    /\ Host /\ ws_pc = "rest" /\ wire # <<>>
    /\ wire' = Tail(wire)
    /\ LET content == IF header.len = 1 THEN Append(partial, header.f) ELSE partial
       IN  \/ FrameOutcome = "fail" /\ HostReturns(returned, TRUE)
           \/ FrameOutcome = "message" /\ HostReturns(MessageOf(content), closed_)
           \/ /\ FrameOutcome \in {"next", "more"} /\ ws_pc' = "first_byte"
              /\ partial' = IF FrameOutcome = "more" THEN content ELSE partial
              /\ UNCHANGED <<ws_client, handle, closed_, ws_queue, header, connect_result,
                             library, peer, returned, dropped>>
    /\ UNCHANGED header

-----------------------------------------------------------------------------
(***************************************************************************)
(* The firmware backend.                                                   *)
(***************************************************************************)
\* Connect() up to its wait for the library's task.
FirmwareConnect ==
    /\ Firmware /\ handle = "new"
    /\ \/ /\ handle' = "connecting" /\ connect_result' = "pending"
          /\ closed_' = FALSE /\ library' = "on"
       \/ /\ handle' = "closed" /\ UNCHANGED <<closed_, connect_result, library>>
    /\ UNCHANGED <<ws_client, partial, ws_queue, ws_pc, header, wire, peer, returned, dropped>>

\* WEBSOCKET_EVENT_CONNECTED.
HandleConnected ==
    /\ Firmware /\ library = "on" /\ connect_result = "pending"
    /\ connect_result' = "succeeded"
    /\ UNCHANGED <<ws_client, handle, closed_, partial, ws_queue, ws_pc, header, library,
                   wire, peer, returned, dropped>>

Closed ==
    /\ closed_' = TRUE
    /\ connect_result' = IF connect_result = "pending" THEN "failed" ELSE connect_result

\* WEBSOCKET_EVENT_DISCONNECTED, _ERROR or _CLOSED.
HandleClosed ==
    /\ Firmware /\ library = "on" /\ library' = "down" /\ Closed
    /\ UNCHANGED <<ws_client, handle, partial, ws_queue, ws_pc, header, wire, peer,
                   returned, dropped>>

\* Connect() wakes: success, or the failure and the timeout, which close.
FirmwareConnected ==
    /\ handle = "connecting" /\ connect_result = "succeeded"
    /\ handle' = "open"
    /\ UNCHANGED <<ws_client, closed_, partial, ws_queue, ws_pc, header, connect_result,
                   library, wire, peer, returned, dropped>>

\* WebSocketMessageAssembler::Add(): Oversized, or the queue and the message
\* in progress that result.
Add(frame, complete) ==
    LET content == IF frame.len = 1 /\ complete THEN Append(partial, frame.f) ELSE partial
    IN  IF Len(content) > MaxMessageFrames
        THEN [oversized |-> TRUE, queue |-> ws_queue, progress |-> <<>>]
        ELSE IF ~frame.fin \/ ~complete
        THEN [oversized |-> FALSE, queue |-> ws_queue, progress |-> content]
        ELSE [oversized |-> FALSE, progress |-> <<>>,
              queue |-> LET q == Append(ws_queue, MessageOf(content))
                        IN  IF Len(q) > MaxQueuedMessages THEN Tail(q) ELSE q]

\* PING, PONG and CLOSE are not content.  (BINARY would be; neither peer
\* sends it, and the host backend refuses it.)
IsApplicationDataOpcode(op) == op = "text"

\* Mutant of HandleData: the rest of an oversized message is still queued.
HandleDataAfterClose ==
    /\ Firmware /\ library = "on" /\ connect_result # "pending" /\ wire # <<>>
    /\ wire' = Tail(wire)
    /\ LET cell == Head(wire)
           result == Add(cell.f, cell.part = "body")
       IN  IF ~IsApplicationDataOpcode(cell.f.op) THEN UNCHANGED <<closed_, connect_result, partial, ws_queue, dropped>>
           ELSE /\ partial' = result.progress /\ ws_queue' = result.queue
                /\ dropped' = dropped \cup (ToSet(ws_queue) \ ToSet(result.queue))
                /\ IF result.oversized THEN Closed ELSE UNCHANGED <<closed_, connect_result>>
    /\ UNCHANGED <<ws_client, handle, ws_pc, header, library, peer, returned>>

\* WEBSOCKET_EVENT_DATA: a chunk of a frame.  Control frames are not
\* content; nothing is added once closed; an oversized message closes.
HandleData ==
    /\ Firmware /\ library = "on" /\ connect_result # "pending" /\ wire # <<>>
    /\ wire' = Tail(wire)
    /\ LET cell == Head(wire)
           result == Add(cell.f, cell.part = "body")
       IN  IF ~IsApplicationDataOpcode(cell.f.op) \/ closed_
           THEN UNCHANGED <<closed_, connect_result, partial, ws_queue, dropped>>
           ELSE /\ partial' = result.progress /\ ws_queue' = result.queue
                /\ dropped' = dropped \cup (ToSet(ws_queue) \ ToSet(result.queue))
                /\ IF result.oversized THEN Closed ELSE UNCHANGED <<closed_, connect_result>>
    /\ UNCHANGED <<ws_client, handle, ws_pc, header, library, peer, returned>>

\* ReceiveText(): a queued message, also after a close; or std::nullopt,
\* which changes nothing.
FirmwareReceiveText ==
    /\ Firmware /\ handle = "open" /\ ws_queue # <<>>
    /\ returned' = Head(ws_queue) /\ ws_queue' = Tail(ws_queue)
    /\ UNCHANGED <<ws_client, handle, closed_, partial, ws_pc, header, connect_result,
                   library, wire, peer, dropped>>

-----------------------------------------------------------------------------
\* Close(), by the caller (a failed send, a timeout, a reconnect) or by a
\* failed Connect(): the library's task has stopped when it returns.
WsClose ==
    /\ handle \in {"open", "connecting"} /\ ws_pc = "idle"
    /\ handle' = "closed" /\ closed_' = (closed_ \/ Firmware)
    /\ partial' = <<>> /\ ws_queue' = <<>> /\ wire' = <<>>
    /\ library' = IF library = "on" THEN "down" ELSE library
    /\ half_frame' = <<>> /\ peer_sends' = PeerClosed
    /\ UNCHANGED <<ws_client, ws_pc, header, connect_result, sent, frames_used, returned, dropped>>

WsInit ==
    /\ ws_client \in WsClients
    /\ handle = "new" /\ closed_ = FALSE /\ partial = <<>> /\ ws_queue = <<>>
    /\ ws_pc = "idle" /\ header = [f |-> 0, op |-> "text", fin |-> TRUE, len |-> 0]
    /\ connect_result = "none" /\ library = "off"
    /\ wire = <<>> /\ sent = <<>> /\ peer_sends = "idle" /\ half_frame = <<>>
    /\ frames_used = 0 /\ returned = 0 /\ dropped = {}

WsNext ==
    \/ PeerStartsFrame \/ PeerEndsFrame
    \/ HostConnect \/ HostReceiveText \/ HostTimeout \/ HostReadsHead \/ HostReadsRest
    \/ FirmwareConnect \/ HandleConnected \/ HandleClosed \/ FirmwareConnected
    \/ HandleData \/ FirmwareReceiveText
    \/ WsClose

WsSpec == WsInit /\ [][WsNext]_ws_vars

-----------------------------------------------------------------------------
(***************************************************************************)
(* Properties.                                                             *)
(***************************************************************************)
WsTypeOK ==
    /\ ws_client \in WsClients
    /\ handle \in {"new", "connecting", "open", "closed"} /\ closed_ \in BOOLEAN
    /\ Len(partial) <= MaxMessageFrames /\ Len(ws_queue) <= MaxQueuedMessages
    /\ ws_pc \in {"idle", "first_byte", "rest"}
    /\ connect_result \in {"none", "pending", "succeeded", "failed"}
    /\ library \in {"off", "on", "down"} /\ header.op \in Opcodes

\* Messages come once, in the order sent, and none is skipped except by the
\* assembler's bound: a reply is not paired with an earlier request.
InOrder ==
    /\ returned' > returned
    /\ (returned + 1)..(returned' - 1) \subseteq dropped

\* KodiClient's PumpNotifications() goes on reading a host client that has
\* failed, until its loop comes to ask IsOpen(): what ReceiveText() then makes
\* of the rest of a lost frame may be anything.
ReadsFailed == ws_client = <<"host", "kodi">> /\ closed_

\* Whatever arrives when, and for every backend and caller, ReceiveText()
\* returns only whole messages of the peer, in order, until a host client
\* that KodiClient reads has failed: a deadline in the middle of a frame or of
\* a message, a control frame between two fragments or an oversized message
\* never makes a part of one, or of two, look like a message of an open
\* connection.  The queue and the assembler always keep to their bounds.
MessagesIntact ==
    [][/\ returned' # returned /\ ~ReadsFailed => returned' # Garbage /\ InOrder
       /\ WsTypeOK']_ws_vars
=============================================================================
