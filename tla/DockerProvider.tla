--------------------------- MODULE DockerProvider ---------------------------
(***************************************************************************)
(* One runner in a container: the calls StartInstance, WaitReady,          *)
(* WaitInstance and RemoveInstance of the Docker provider, each request to *)
(* the daemon one step or more, beside the container, its log stream and   *)
(* the goroutine that reads it (internal/provider: docker.go,              *)
(* docker_readiness.go).                                                   *)
(*                                                                         *)
(* A tick is the poll interval of WaitReady.  The marker "Listening for    *)
(* Jobs" is a sequence of letters, which the runner writes in any pieces,  *)
(* on either stream, among others.                                         *)
(***************************************************************************)
EXTENDS Integers, Sequences, FiniteSets, SequencesExt

CONSTANTS
    Letters,     \* what the output of a runner consists of
    Marker,      \* the letters of readyMarker
    Chunks,      \* what the runner may write at once
    Timeout,     \* readyTimeout
    Settle,      \* readySettle
    MaxWrites,   \* bound on the writes of the runner
    MaxFaults    \* bound on the failures of the daemon

ASSUME DockerAssumption ==
    /\ Timeout \in Nat \ {0} /\ Settle \in Nat /\ MaxFaults \in Nat
    /\ Marker \in Seq(Letters) \ {<<>>} /\ Chunks \subseteq Seq(Letters)

Never == -1
Stream == {"stdout", "stderr"}

VARIABLES
    container,  \* in the daemon: "none", "created", "running", "exited"
    start,      \* StartInstance: "idle", "create", "start", "undo", "failed", "done"
    lease,      \* the caller holds the capacity of this runner
    cancelled,  \* the context of the controller is cancelled
    removal,    \* RemoveInstance: "idle", "done"
    watch,      \* WaitInstance: "idle", "waiting", "exited", "failed"
    now,        \* ticks since WaitReady was called
    written,    \* stream -> all the runner has written to it
    printed,    \* when the marker was complete on one stream, or Never
    log,        \* frames on their way to the reader
    stream,     \* "none", "open", "ended", "closed"
    reader,     \* the goroutine: "none", "reading", "done"
    tail,       \* stream -> the suffix its readyMarkerWriter keeps
    wait,       \* WaitReady and its variables
    seen,       \* when an inspection last found the container running, or Never
    faults

vars == <<container, start, lease, cancelled, removal, watch, now, written, printed, log,
          stream, reader, tail, wait, seen, faults>>

runner == <<container, written, printed>>
calls == <<start, lease, removal, watch>>
reading == <<log, stream, reader, tail>>

NotWaiting == [at |-> "idle", unavailable |-> FALSE, marker |-> FALSE, marked |-> Never,
               finished |-> FALSE, tick |-> FALSE, expired |-> FALSE, answer |-> "none",
               verdict |-> "none"]

Init ==
    /\ container = "none" /\ start = "idle" /\ lease = FALSE /\ cancelled = FALSE
    /\ removal = "idle" /\ watch = "idle" /\ now = 0
    /\ written = [s \in Stream |-> <<>>] /\ printed = Never
    /\ log = <<>> /\ stream = "none" /\ reader = "none" /\ tail = [s \in Stream |-> <<>>]
    /\ wait = NotWaiting /\ seen = Never /\ faults = 0

Fault == faults < MaxFaults /\ faults' = faults + 1

\* A request may fail because the daemon fails, or because its context is over.
MayFail(over) == (over /\ UNCHANGED faults) \/ Fault

-----------------------------------------------------------------------------
(* StartInstance.                                                          *)

BeginStart ==
    /\ start = "idle" /\ start' = "create" /\ lease' = TRUE
    /\ UNCHANGED <<runner, cancelled, removal, watch, now, reading, wait, seen, faults>>

\* ContainerCreate.
Create ==
    /\ start = "create"
    /\ \/ container' = "created" /\ start' = "start" /\ UNCHANGED <<lease, faults>>
       \/ /\ MayFail(cancelled) /\ start' = "failed" /\ lease' = FALSE
          /\ container' \in {"none", "created"}     \* created, but the reply is lost
    /\ UNCHANGED <<written, printed, cancelled, removal, watch, now, reading, wait, seen>>

\* A mutant: a start that fails is not undone.
StartContainer_NoUndo ==
    /\ start = "start"
    /\ \/ container' = "running" /\ start' = "done" /\ UNCHANGED <<lease, faults>>
       \/ /\ MayFail(cancelled) /\ start' = "failed" /\ lease' = FALSE
          /\ container' \in {container, "running"}
    /\ UNCHANGED <<written, printed, cancelled, removal, watch, now, reading, wait, seen>>

\* ContainerStart.
StartContainer ==
    /\ start = "start"
    /\ \/ container' = "running" /\ start' = "done" /\ UNCHANGED faults
       \/ /\ MayFail(cancelled) /\ start' = "undo"
          /\ container' \in {container, "running"}
    /\ UNCHANGED <<written, printed, lease, cancelled, removal, watch, now, reading, wait, seen>>

\* ContainerRemove under the same context, its error dropped; the caller returns the lease.
Undo ==
    /\ start = "undo" /\ start' = "failed" /\ lease' = FALSE
    /\ \/ container' = "none" /\ UNCHANGED faults
       \/ MayFail(cancelled) /\ UNCHANGED container
    /\ UNCHANGED <<written, printed, cancelled, removal, watch, now, reading, wait, seen>>

\* The controller gives the runner up: its context, and that of WaitReady, end.
Cancel ==
    /\ ~cancelled /\ start # "idle" /\ cancelled' = TRUE
    /\ UNCHANGED <<runner, calls, now, reading, wait, seen, faults>>

-----------------------------------------------------------------------------
(* RemoveInstance and WaitInstance.                                        *)

\* A mutant: any failure counts as success.
Removed_AnyError(reply) == TRUE

\* RemoveInstance: nothing left to remove is success.
Removed(reply) == reply \in {"ok", "not_found"}

\* The caller keeps the lease until RemoveInstance succeeds; it tries again.
RemoveInstance ==
    /\ start = "done" /\ removal = "idle"
    /\ \E reply \in {"ok", "not_found", "error"} :
          /\ reply = "ok" => container # "none" /\ container' = "none" /\ UNCHANGED faults
          /\ reply = "not_found" => container = "none" /\ UNCHANGED <<container, faults>>
          /\ reply = "error" => Fault /\ container' \in {container, "none"}
          /\ removal' = IF Removed(reply) THEN "done" ELSE "idle"
          /\ lease' = ~Removed(reply)
    /\ UNCHANGED <<written, printed, start, cancelled, watch, now, reading, wait, seen>>

BeginWatch ==
    /\ start = "done" /\ watch = "idle" /\ watch' = "waiting"
    /\ UNCHANGED <<runner, start, lease, cancelled, removal, now, reading, wait, seen, faults>>

\* A mutant: a failed observation is taken for an exit.
Watched_AnyError(reply) == "exited"

\* WaitInstance.
Watched(reply) == IF reply \in {"not_running", "not_found"} THEN "exited" ELSE "failed"

WaitInstance ==
    /\ watch = "waiting"
    /\ \E reply \in {"not_running", "not_found", "error"} :
          /\ reply = "not_running" => container = "exited" /\ UNCHANGED faults
          /\ reply = "not_found" => container = "none" /\ UNCHANGED faults
          /\ reply = "error" => MayFail(cancelled)
          /\ watch' = Watched(reply)
    /\ UNCHANGED <<runner, start, lease, cancelled, removal, now, reading, wait, seen>>

-----------------------------------------------------------------------------
(* The container.                                                          *)

HasMarker(text) == \E i \in 1..(Len(text) - Len(Marker) + 1) : SubSeq(text, i, i + Len(Marker) - 1) = Marker

WriteChunk(s, chunk) ==
    /\ container = "running" /\ Len(written["stdout"]) + Len(written["stderr"]) < MaxWrites
    /\ written' = [written EXCEPT ![s] = @ \o chunk]
    /\ printed' = IF printed = Never /\ HasMarker(written'[s]) THEN now ELSE printed
    /\ log' = IF stream = "open" THEN Append(log, [to |-> s, text |-> chunk]) ELSE log
    /\ UNCHANGED <<container, calls, cancelled, now, stream, reader, tail, wait, seen, faults>>

Exit ==
    /\ container = "running" /\ container' = "exited"
    /\ UNCHANGED <<written, printed, calls, cancelled, now, reading, wait, seen, faults>>

-----------------------------------------------------------------------------
(* The log stream and its reader.                                          *)

\* A mutant: each write is looked at by itself.
Kept_Nothing(text) == <<>>

\* A mutant: all of the output is kept.
Kept_All(text) == text

\* readyMarkerWriter.Write: a suffix shorter than the marker is kept.
Kept(text) == IF Len(text) >= Len(Marker) THEN SubSeq(text, Len(text) - Len(Marker) + 2, Len(text)) ELSE text

\* A mutant: both streams go to one writer.
WriterOf_One(s) == "stdout"

WriterOf(s) == s

Read ==
    /\ reader = "reading" /\ stream = "open" /\ log # <<>>
    /\ LET w == WriterOf(Head(log).to)
           text == tail[w] \o Head(log).text
       IN  /\ tail' = [tail EXCEPT ![w] = Kept(text)]
           /\ wait' = [wait EXCEPT !.marker = @ \/ HasMarker(text)]
    /\ log' = Tail(log)
    /\ UNCHANGED <<runner, calls, cancelled, now, stream, reader, seen, faults>>

\* The stream of a container that has gone ends when it is read.
StreamEnds ==
    /\ stream = "open" /\ log = <<>> /\ container \in {"none", "exited"}
    /\ stream' = "ended"
    /\ UNCHANGED <<runner, calls, cancelled, now, log, reader, tail, wait, seen, faults>>

\* The daemon breaks it off, or sends a frame that boundedDockerFrames refuses.
StreamBreaks ==
    /\ stream = "open" /\ Fault /\ stream' = "ended" /\ log' = <<>>
    /\ UNCHANGED <<runner, calls, cancelled, now, reader, tail, wait, seen>>

ReaderDone ==
    /\ reader = "reading" /\ stream \in {"ended", "closed"} /\ reader' = "done"
    /\ wait' = [wait EXCEPT !.finished = wait.at \in {"select", "inspect"}]
    /\ UNCHANGED <<runner, calls, cancelled, now, log, stream, tail, seen, faults>>

-----------------------------------------------------------------------------
(* WaitReady.                                                              *)

Returning == {"closing", "returned"}

\* The verdict is found; the deferred function closes the stream and waits for the reader.
Verdict(v) == wait' = [wait EXCEPT !.at = "closing", !.verdict = v, !.answer = "none", !.finished = FALSE]

BeginWait ==
    /\ start = "done" /\ wait.at = "idle" /\ wait' = [wait EXCEPT !.at = "first"]
    /\ UNCHANGED <<runner, calls, cancelled, now, reading, seen, faults>>

Answer == CASE container = "running" -> "running" [] container = "none" -> "error" [] OTHER -> "stopped"

\* A mutant: without the deadline.
Over_NoDeadline == cancelled

\* The context of WaitReady is over.
Over == cancelled \/ wait.expired

\* The daemon answers an inspection; one that fails, or whose context is over, gives no state.
Inspect ==
    /\ wait.at \in {"first", "inspect"} /\ wait.answer = "none"
    /\ \/ /\ ~Over
          /\ wait' = [wait EXCEPT !.answer = Answer]
          /\ seen' = IF container = "running" THEN now ELSE seen
          /\ UNCHANGED faults
       \/ MayFail(Over) /\ wait' = [wait EXCEPT !.answer = "error"] /\ UNCHANGED seen
    /\ UNCHANGED <<runner, calls, cancelled, now, reading>>

\* The first answer decides whether there is a stream to read.
OpenLogs ==
    /\ wait.at = "first" /\ wait.answer # "none"
    /\ IF wait.answer = "stopped" THEN Verdict("exited") /\ UNCHANGED <<log, stream, reader, faults>>
       ELSE \/ /\ wait.answer = "running" /\ ~Over
               /\ stream' = "open" /\ reader' = "reading"
               /\ log' = [i \in 1..Cardinality({s \in Stream : written[s] # <<>>}) |->
                             LET order == SetToSeq({s \in Stream : written[s] # <<>>})
                             IN  [to |-> order[i], text |-> written[order[i]]]]
               /\ wait' = [wait EXCEPT !.at = "select", !.answer = "none"]
               /\ UNCHANGED faults
            \/ /\ IF wait.answer = "running" THEN MayFail(Over) ELSE UNCHANGED faults
               /\ wait' = [wait EXCEPT !.at = "select", !.answer = "none", !.unavailable = TRUE]
               /\ UNCHANGED <<log, stream, reader>>
    /\ UNCHANGED <<runner, calls, cancelled, now, tail, seen>>

\* select: any case that is ready may be taken.
SeeDone ==
    /\ wait.at = "select" /\ Over
    /\ Verdict(IF cancelled THEN "cancelled" ELSE IF wait.unavailable THEN "unavailable" ELSE "timeout")
    /\ UNCHANGED <<runner, calls, cancelled, now, reading, seen, faults>>

SeeMarker ==
    /\ wait.at = "select" /\ wait.marker /\ wait.marked = Never
    /\ wait' = [wait EXCEPT !.marked = now]
    /\ UNCHANGED <<runner, calls, cancelled, now, reading, seen, faults>>

SeeFinished ==
    /\ wait.at = "select" /\ wait.finished
    /\ wait' = [wait EXCEPT !.finished = FALSE, !.unavailable = TRUE]
    /\ UNCHANGED <<runner, calls, cancelled, now, reading, seen, faults>>

SeeTick ==
    /\ wait.at = "select" /\ wait.tick
    /\ wait' = [wait EXCEPT !.tick = FALSE, !.at = "inspect"]
    /\ UNCHANGED <<runner, calls, cancelled, now, reading, seen, faults>>

Settled(marked) == marked # Never /\ now - marked >= Settle

Inspected ==
    /\ wait.at = "inspect" /\ wait.answer # "none"
    /\ CASE wait.answer = "error" ->
                wait' = [wait EXCEPT !.at = "select", !.answer = "none", !.unavailable = TRUE]
         [] wait.answer = "stopped" -> Verdict("exited")
         [] wait.answer = "running" /\ Settled(wait.marked) -> Verdict("ready")
         [] OTHER -> wait' = [wait EXCEPT !.at = "select", !.answer = "none"]
    /\ UNCHANGED <<runner, calls, cancelled, now, reading, seen, faults>>

\* context.AfterFunc: the end of the context closes the stream.
CloseStream ==
    /\ stream \in {"open", "ended"} /\ (wait.at = "closing" \/ Over)
    /\ stream' = "closed" /\ log' = <<>>
    /\ UNCHANGED <<runner, calls, cancelled, now, reader, tail, wait, seen, faults>>

MayReturn == stream \in {"none", "closed"} /\ reader \in {"none", "done"}

Return ==
    /\ wait.at = "closing" /\ MayReturn
    /\ wait' = [wait EXCEPT !.at = "returned"]
    /\ UNCHANGED <<runner, calls, cancelled, now, reading, seen, faults>>

\* The ticker.  Its channel holds one tick; the deadline comes with the last.  A tick that
\* passes while something waits to be done is a slow host or daemon: a fault.
Idle == wait.at = "select" /\ ~wait.tick /\ ~wait.finished /\ (wait.marker => wait.marked # Never)
        /\ log = <<>> /\ ~Over

Tick ==
    /\ wait.at \notin {"idle", "returned"} /\ now < Timeout
    /\ now' = now + 1
    /\ wait' = [wait EXCEPT !.tick = wait.at \notin {"first", "closing"}]
    /\ IF Idle THEN UNCHANGED faults ELSE Fault
    /\ UNCHANGED <<runner, calls, cancelled, reading, seen>>

Expire ==
    /\ wait.at \notin {"idle", "returned"} /\ now = Timeout /\ ~wait.expired
    /\ wait' = [wait EXCEPT !.expired = TRUE]
    /\ UNCHANGED <<runner, calls, cancelled, now, reading, seen, faults>>

-----------------------------------------------------------------------------
WaitReady == BeginWait \/ Inspect \/ OpenLogs \/ SeeDone \/ SeeMarker \/ SeeFinished \/ SeeTick
             \/ Inspected \/ CloseStream \/ Return
Reader == Read \/ StreamEnds \/ ReaderDone

Next ==
    \/ BeginStart \/ Create \/ StartContainer \/ Undo \/ Cancel
    \/ RemoveInstance \/ BeginWatch \/ WaitInstance
    \/ \E s \in Stream, chunk \in Chunks : WriteChunk(s, chunk)
    \/ Exit
    \/ Reader \/ StreamBreaks
    \/ WaitReady \/ Tick \/ Expire

Spec == Init /\ [][Next]_vars

\* The provider's goroutines run, the clock goes on, and the daemon answers at last.  Nothing
\* is asked of the runner, of the daemon's health or of the caller.
Fairness == WF_vars(WaitReady) /\ WF_vars(Reader) /\ WF_vars(Tick) /\ WF_vars(Expire) /\ WF_vars(WaitInstance)

LiveSpec == Spec /\ Fairness

-----------------------------------------------------------------------------
(* Properties.                                                             *)

TypeOK ==
    /\ container \in {"none", "created", "running", "exited"}
    /\ start \in {"idle", "create", "start", "undo", "failed", "done"}
    /\ removal \in {"idle", "done"} /\ watch \in {"idle", "waiting", "exited", "failed"}
    /\ now \in 0..Timeout /\ printed \in 0..Timeout \cup {Never} /\ seen \in 0..Timeout \cup {Never}
    /\ stream \in {"none", "open", "ended", "closed"} /\ reader \in {"none", "reading", "done"}
    /\ \A s \in Stream : Len(tail[s]) < Len(Marker)
    /\ wait.verdict \in {"none", "ready", "exited", "timeout", "unavailable", "cancelled"}

\* A runner is ready only when one of its streams held the whole marker, Settle has passed
\* since, and the container was found running after it: pieces of two streams make no marker.
ReadyMeansListening ==
    wait.verdict = "ready" => printed # Never /\ seen >= printed /\ now >= printed + Settle

\* A verdict that the container exited, and the end of an observation, are about a container
\* that runs no more; a failing daemon is not taken for an exit.
ExitIsReal ==
    wait.verdict = "exited" \/ watch = "exited" => container \in {"none", "exited"}

\* A runner that says it listens, in whatever pieces, early enough and on a host and a daemon
\* without faults, is not given up.
ListeningIsSeen ==
    (printed # Never /\ printed + Settle + 2 <= Timeout /\ faults = 0
        /\ wait.verdict \in {"timeout", "unavailable"}) => container # "running"

\* WaitReady returns, whatever the daemon and the runner do.
WaitReadyReturns == wait.at = "first" ~> wait.at = "returned"

\* The verdict of WaitReady and the exit that WaitInstance reports are true.
VerdictIsTrue == TypeOK /\ ReadyMeansListening /\ ExitIsReal /\ ListeningIsSeen

\* A container without capacity is left only by a start that failed: one that never ran when
\* a single request failed (the reply to the create is lost), one that may run only when the
\* removal that undoes the start failed too, or the caller gave up, as StartInstance undoes
\* under its context.  A removal that fails, whatever it did, keeps the capacity.
CapacityCovers ==
    container # "none" /\ ~lease =>
        /\ start = "failed"
        /\ cancelled \/ faults > (IF container = "created" THEN 0 ELSE 1)

=============================================================================
