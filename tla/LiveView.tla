------------------------------- MODULE LiveView -------------------------------
(***************************************************************************)
(* The page that follows a trial, components/live-run.tsx, and the event   *)
(* stream it reads, app/api/runs/[id]/events.  The stream polls the run    *)
(* once a second and sends what is new; the page takes a snapshot before   *)
(* it connects, drops the events it has, and connects again when the       *)
(* stream ends.                                                            *)
(*                                                                         *)
(* An event's id is its place in the log.                                  *)
(***************************************************************************)
EXTENDS LocalTrial

CONSTANTS
    MaxStreams,     \* bound of consumeRateLimit on the streams of a run
    MaxFaults       \* bound of the failures

VARIABLES
    page,
    stream,     \* the server's end
    net,        \* the messages on their way
    window,     \* the streams in the current window of the rate limit
    faults

viewVars == <<page, stream, net, window, faults>>

NoStream == [open |-> FALSE, sent |-> 0, stuck |-> FALSE]

ViewInit ==
    /\ page = [pc |-> "loading", shown |-> <<>>, state |-> "CREATED"]
    /\ stream = NoStream
    /\ net = <<>>
    /\ window = 0
    /\ faults = 0

Fault == faults < MaxFaults /\ faults' = faults + 1

Goto(where) == page' = [page EXCEPT !.pc = where]

-----------------------------------------------------------------------------
\* The page

\* applySnapshot, and connect() after it.
Refreshed(run) ==
    [pc |-> IF Last(run.log) \in Terminal THEN "settled" ELSE "connecting",
     shown |-> run.log, state |-> Last(run.log)]

\* The first refresh: "Trial unavailable" if it fails.
Load ==
    /\ page.pc = "loading"
    /\ \/ Served # NoRun /\ page' = Refreshed(Served) /\ UNCHANGED faults
       \/ Served = NoRun /\ Goto("dead") /\ UNCHANGED faults
       \/ Fault /\ Goto("dead")
    /\ UNCHANGED <<stream, net, window>>

\* EventSource: refused beyond the rate limit, and if there is no run.
Connect ==
    /\ page.pc = "connecting"
    /\ IF window < MaxStreams
       THEN /\ window' = window + 1
            /\ IF Served = NoRun THEN Goto("waiting") /\ UNCHANGED stream
               ELSE Goto("open") /\ stream' = [NoStream EXCEPT !.open = TRUE]
       ELSE Goto("waiting") /\ UNCHANGED <<stream, window>>
    /\ net' = <<>>
    /\ UNCHANGED faults

\* Mutant: an event the page has is shown again.
ShownAgain(shown, message) == Append(shown, message.state)

Shown(shown, message) ==
    IF message.id <= Len(shown) THEN shown ELSE Append(shown, message.state)

\* onmessage: past the end of the trial the page listens no more.
Received(view, message) ==
    IF view.pc = "settled" THEN view
    ELSE [pc |-> IF message.state \in Terminal THEN "settled" ELSE "open",
          shown |-> Shown(view.shown, message), state |-> message.state]

\* The browser dispatches what has arrived.  At the end of the trial the page
\* closes the stream, and that its timer.
Deliver ==
    /\ page.pc = "open" /\ net # <<>>
    /\ page' = FoldLeft(Received, page, net)
    /\ net' = <<>>
    /\ stream' = IF page'.pc = "settled" THEN NoStream ELSE stream
    /\ UNCHANGED <<window, faults>>

\* onerror: the server closed the stream, or the connection broke.
Disconnected ==
    /\ page.pc = "open"
    /\ \/ ~stream.open /\ net = <<>> /\ UNCHANGED <<stream, net, faults>>
       \/ Fault /\ stream' = NoStream /\ net' = <<>>
    /\ Goto("waiting")
    /\ UNCHANGED window

\* Refreshed or not, it connects.
Backoff ==
    /\ page.pc = "waiting"
    /\ \/ Served # NoRun /\ page' = Refreshed(Served) /\ UNCHANGED faults
       \/ Served = NoRun /\ Goto("connecting") /\ UNCHANGED faults
       \/ Fault /\ Goto("connecting")
    /\ UNCHANGED <<stream, net, window>>

View == Load \/ Connect \/ Deliver \/ Disconnected \/ Backoff

-----------------------------------------------------------------------------
\* The stream

Message(run) == [i \in DOMAIN run.log |-> [id |-> i, state |-> run.log[i]]]

Push ==
    /\ stream.open /\ ~stream.stuck /\ Served # NoRun
    /\ LET run == Served
           over == Last(run.log) \in Terminal
       IN  /\ over \/ Len(run.log) # stream.sent
           /\ net' = net \o SubSeq(Message(run), stream.sent + 1, Len(run.log))
           /\ stream' = [stream EXCEPT !.sent = Len(run.log), !.open = ~over]
    /\ UNCHANGED <<page, window, faults>>

\* The snapshot cannot be read: inFlight stays set, and nothing is sent.
PushFails ==
    /\ stream.open /\ ~stream.stuck /\ store = "directory"
    /\ Fault
    /\ stream' = [stream EXCEPT !.stuck = TRUE]
    /\ UNCHANGED <<page, net, window>>

\* Mutant: the end of its lifetime stops the timer and closes nothing.
ExpireSilently == stream.open /\ UNCHANGED viewVars

\* Ten minutes are over.
Expire ==
    /\ stream.open
    /\ stream' = [stream EXCEPT !.open = FALSE]
    /\ UNCHANGED <<page, net, window, faults>>

\* A minute is over.
WindowReset ==
    /\ window > 0
    /\ window' = 0
    /\ UNCHANGED <<page, stream, net, faults>>
=============================================================================
