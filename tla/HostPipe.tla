------------------------------- MODULE HostPipe -------------------------------
(***************************************************************************)
(* The named pipe between clients and the host: Serve, ReadFrame and       *)
(* WriteFrame of native/host/protocol.cpp on one end, request() of         *)
(* packages/sdk/src/client.cjs with the frames of frame.cjs on the other.  *)
(* There is one instance of the pipe and one connection carries one call.  *)
(* A frame travels in pieces, the header first.  A foreign client is one   *)
(* that is not the SDK: it sends bad frames and knows no timer.            *)
(***************************************************************************)
EXTENDS Naturals

CONSTANTS
  Calls,    \* the calls of the clients
  Pieces,   \* what a frame is cut into
  Buffer,   \* the pieces the pipe holds that the client has not read
  NoCall

PipeAssumption ==
  Pieces \in Nat \ {0, 1} /\ Buffer \in Nat \ {0} /\ NoCall \notin Calls

VARIABLES
  host,      \* where Serve is
  peer,      \* the call the instance of the pipe is connected to
  call,      \* "idle", "connecting", "retry", "connected" or its outcome
  kind,      \* the request: "fits", "oversized", or "malformed" from a foreign client
  sent,      \* pieces of the request in the pipe
  written,   \* pieces of the response in the pipe
  got,       \* pieces of the response the client has
  answer,    \* the response of the host: "none" before it has one, "fits" or "oversized"
  executed   \* history: how often the handler ran for the call

serveVars == <<host, peer, written, answer, executed>>
vars == <<host, peer, call, kind, sent, written, got, answer, executed>>

Live == {"idle", "connecting", "retry", "connected"}
\* finish() settles the call and destroys its socket.
Settled(c) == call[c] \notin Live
Finish(c, outcome) == call' = [call EXCEPT ![c] = outcome]

Foreign(c) == kind[c] = "malformed"

\* A plausible mistake: finish leaves the socket of the call open.
NeverClosed(c) == FALSE

Closed(c) == Settled(c)

Init ==
  /\ host = "closed" /\ peer = NoCall
  /\ call = [c \in Calls |-> "idle"]
  /\ kind \in [Calls -> {"fits", "oversized", "malformed"}]
  /\ sent = [c \in Calls |-> 0] /\ written = [c \in Calls |-> 0]
  /\ got = [c \in Calls |-> 0]
  /\ answer = [c \in Calls |-> "none"]
  /\ executed = [c \in Calls |-> 0]

-----------------------------------------------------------------------------
(* The client.                                                              *)

Call(c) ==
  /\ call[c] = "idle"
  /\ Finish(c, "connecting")
  /\ UNCHANGED <<serveVars, kind, sent, got>>

\* ENOENT: there is no instance; the client tries again a little later.
NotThere(c) ==
  /\ call[c] = "connecting"
  /\ host \in {"closed", "exited"}
  /\ Finish(c, "retry")
  /\ UNCHANGED <<serveVars, kind, sent, got>>

Retry(c) ==
  /\ call[c] = "retry"
  /\ Finish(c, "connecting")
  /\ UNCHANGED <<serveVars, kind, sent, got>>

\* The instance stayed busy for as long as a connection is waited for.
Refused(c) ==
  /\ call[c] = "connecting"
  /\ peer # NoCall
  /\ Finish(c, "HOST_NOT_READY")
  /\ UNCHANGED <<serveVars, kind, sent, got>>

\* The client is connected to the instance, which completes ConnectNamedPipe.
Connect(c) ==
  /\ call[c] = "connecting"
  /\ host = "listening"
  /\ host' = "reading"
  /\ peer' = c
  /\ Finish(c, "connected")
  /\ UNCHANGED <<kind, sent, written, got, answer, executed>>

\* encodeFrame throws after the connection is made.
TooLarge(c) ==
  /\ call[c] = "connected" /\ sent[c] = 0
  /\ kind[c] = "oversized"
  /\ Finish(c, "INVALID_REQUEST")
  /\ UNCHANGED <<serveVars, kind, sent, got>>

Send(c) ==
  /\ call[c] = "connected" /\ peer = c
  /\ kind[c] # "oversized" /\ sent[c] < Pieces
  /\ sent' = [sent EXCEPT ![c] = @ + 1]
  /\ UNCHANGED <<serveVars, call, kind, got>>

\* FrameDecoder keeps what arrived until the frame is whole.
Decoded(pieces) == pieces = Pieces

Receive(c) ==
  /\ call[c] = "connected" /\ got[c] < written[c]
  /\ got' = [got EXCEPT ![c] = @ + 1]
  /\ IF Decoded(got'[c]) THEN Finish(c, "answered") ELSE UNCHANGED call
  /\ UNCHANGED <<serveVars, kind, sent>>

\* A plausible mistake: the call is made again when the host has hung up.
HungUpAndRetried(c) ==
  /\ call[c] = "connected" /\ peer # c /\ got[c] = written[c]
  /\ call' = [call EXCEPT ![c] = "retry"]
  /\ sent' = [sent EXCEPT ![c] = 0] /\ got' = [got EXCEPT ![c] = 0]
  /\ written' = [written EXCEPT ![c] = 0]
  /\ UNCHANGED <<host, peer, kind, answer, executed>>

\* The host hangs up before the response is whole.  The client sees the end of
\* the stream or an error of it, as the instance was closed or disconnected.
HungUp(c) ==
  /\ call[c] = "connected" /\ peer # c /\ got[c] = written[c]
  /\ \E code \in {"INVALID_RESPONSE", "HOST_NOT_READY"} : Finish(c, code)
  /\ UNCHANGED <<serveVars, kind, sent, got>>

\* The timer of the request fires.
Timeout(c) ==
  /\ ~Foreign(c)
  /\ call[c] \in Live \ {"idle"}
  /\ Finish(c, "PIPE_TIMEOUT")
  /\ UNCHANGED <<serveVars, kind, sent, got>>

\* A foreign client closes its end when it likes, if ever.
Leave(c) ==
  /\ Foreign(c)
  /\ call[c] \in Live \ {"idle"}
  /\ Finish(c, "left")
  /\ UNCHANGED <<serveVars, kind, sent, got>>

-----------------------------------------------------------------------------
(* Serve.                                                                   *)

CreateInstance ==
  /\ host = "closed"
  /\ host' = "listening"
  /\ UNCHANGED <<peer, written, answer, executed, call, kind, sent, got>>

\* ReadExact has everything, or fails because the client has closed its end.
HasRead == sent[peer] = Pieces
ReadEnds == sent[peer] < Pieces /\ Closed(peer)

\* ReadFrame returns: with a whole request, which is handled even when its
\* client has gone; with a bad frame; or because the client closed its end.
ReadRequest ==
  /\ host = "reading"
  /\ \/ /\ HasRead /\ kind[peer] = "fits"
        /\ host' = "handling"
        /\ UNCHANGED answer
     \/ /\ \/ sent[peer] > 0 /\ Foreign(peer)
           \/ ReadEnds
        /\ host' = "writing"
        /\ answer' = [answer EXCEPT ![peer] = "fits"]
  /\ UNCHANGED <<peer, written, executed, call, kind, sent, got>>

HandleRequest ==
  /\ host = "handling"
  /\ host' = "writing"
  /\ executed' = [executed EXCEPT ![peer] = @ + 1]
  /\ \E size \in {"fits", "oversized"} : answer' = [answer EXCEPT ![peer] = size]
  /\ UNCHANGED <<peer, written, call, kind, sent, got>>

\* WriteExact: the pipe takes no more than its buffer holds.
WritePiece ==
  /\ written[peer] - got[peer] < Buffer
  /\ written' = [written EXCEPT ![peer] = @ + 1]

\* WriteFrame writes nothing of a response that is too large, and gives up
\* when the client has closed its end.
WriteResponse ==
  /\ host = "writing"
  /\ IF answer[peer] = "oversized" \/ Closed(peer) \/ written[peer] = Pieces
     THEN host' = "flushing" /\ UNCHANGED written
     ELSE WritePiece /\ UNCHANGED host
  /\ UNCHANGED <<peer, answer, executed, call, kind, sent, got>>

\* A plausible mistake: the instance is disconnected without a flush.
HangUpAtOnce ==
  /\ host = "flushing"
  /\ host' = "closed" /\ peer' = NoCall
  /\ written' = [written EXCEPT ![peer] = got[peer]]
  /\ UNCHANGED <<answer, executed, call, kind, sent, got>>

\* FlushFileBuffers returns when the client has read everything or has gone;
\* DisconnectNamedPipe discards what is left.
FlushAndHangUp ==
  /\ host = "flushing"
  /\ got[peer] = written[peer] \/ Closed(peer)
  /\ host' = "closed" /\ peer' = NoCall
  /\ written' = [written EXCEPT ![peer] = got[peer]]
  /\ UNCHANGED <<answer, executed, call, kind, sent, got>>

\* The game ends, or the instance cannot be created again; what is in the pipe
\* can still be read.
HostExits ==
  /\ host # "exited"
  /\ host' = "exited" /\ peer' = NoCall
  /\ UNCHANGED <<written, answer, executed, call, kind, sent, got>>

-----------------------------------------------------------------------------
ClientStep(c) ==
  \/ Call(c) \/ NotThere(c) \/ Retry(c) \/ Refused(c) \/ Connect(c) \/ TooLarge(c)
  \/ Send(c) \/ Receive(c) \/ HungUp(c) \/ Timeout(c) \/ Leave(c)

Serve == CreateInstance \/ ReadRequest \/ HandleRequest \/ WriteResponse \/ FlushAndHangUp

\* Every call has its outcome; the host waits for the next one or has ended.
Quiet ==
  /\ \A c \in Calls : Settled(c)
  /\ host \in {"listening", "exited"}
  /\ UNCHANGED vars

Timers == \E c \in Calls : Timeout(c)

Next == (\E c \in Calls : ClientStep(c)) \/ Serve \/ HostExits \/ Quiet

\* The thread of Serve runs, the handler returns, and the timers of the SDK fire.
Spec == Init /\ [][Next]_vars /\ WF_vars(Serve) /\ WF_vars(Timers)

-----------------------------------------------------------------------------
\* client.cjs sends a request at most once and reports only what happened: an
\* answer means the handler ran once (not at all for a bad frame), and a call
\* that ran and neither timed out nor met the end of the host fails only when
\* its response was too large to send.
OutcomesAreTrue ==
  \A c \in Calls :
    /\ executed[c] <= 1
    /\ call[c] = "answered" => executed[c] = IF Foreign(c) THEN 0 ELSE 1
    /\ call[c] = "INVALID_REQUEST" => executed[c] = 0
    /\ call[c] \in {"INVALID_RESPONSE", "HOST_NOT_READY"} /\ executed[c] = 1
         => answer[c] = "oversized" \/ host = "exited"

\* Whatever becomes of a call of the SDK, its connection ends and the only instance
\* of the pipe is there for the next one.  Nothing is promised of a foreign client:
\* ReadExact and WriteExact wait without a timeout (protocol.cpp, lines 12 to 37), so
\* one that neither sends nor leaves keeps the pipe.
PipeComesFree == peer # NoCall /\ ~Foreign(peer) ~> peer = NoCall
=============================================================================
