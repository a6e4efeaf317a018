-------------------------------- MODULE ReceiveMode --------------------------------
(***************************************************************************)
(* The life of a daemon: RunReceiveMode (cmd/mode_receive.go) and          *)
(* RunServeMode (cmd/mode_serve.go).  Both start their components as       *)
(* goroutines, wait for the context or for a fatal error, wait for the     *)
(* goroutines (receive mode: at most shutdownTimeout) and return.          *)
(*                                                                         *)
(* An error of a critical component is sent to a channel of one element    *)
(* and then cancels the context: two steps.  An error of another component *)
(* is only logged.  A panic that a goroutine recovers is an error.         *)
(***************************************************************************)
EXTENDS Integers, FiniteSets

VARIABLES
    mode,       \* receive or serve
    mpc,        \* the main goroutine
    comp,       \* comp[c]: the goroutine of component c
    fatalErrCh, \* an error waits in the channel
    ctxDone,    \* the context is cancelled
    signalled,  \* SIGINT or SIGTERM has arrived
    failed,     \* history: the critical components that failed
    runErr,     \* the reason of the shutdown
    result      \* what the process has returned

lifeVars == <<mode, mpc, comp, fatalErrCh, ctxDone, signalled, failed, runErr, result>>

AllComponents == {"receiver", "archive", "cron", "http"}
Components(m) == IF m = "receive" THEN AllComponents ELSE {"http"}
Critical(m) == IF m = "receive" THEN {"receiver", "archive"} ELSE {"http"}

NoComponents == [c \in AllComponents |-> "off"]
Up == mpc \in {"select", "wait"}

\* The goroutines are started when everything they need is set up.
StartComponents ==
    /\ mpc = "init"
    /\ mpc' = "select"
    /\ comp' = [c \in AllComponents |-> IF c \in Components(mode) THEN "run" ELSE "off"]
    /\ UNCHANGED <<mode, fatalErrCh, ctxDone, signalled, failed, runErr, result>>

\* An error on the way there ends the process; nothing runs yet.
StartFails ==
    /\ mpc = "init"
    /\ mpc' = "returned"
    /\ result' = "error"
    /\ UNCHANGED <<mode, comp, fatalErrCh, ctxDone, signalled, failed, runErr>>

\* Mutant: every component is critical.
ComponentFailsFatally(c) ==
    /\ Up /\ comp[c] = "run"
    /\ comp' = [comp EXCEPT ![c] = "send"]
    /\ failed' = failed \cup ({c} \cap Critical(mode))
    /\ UNCHANGED <<mode, mpc, fatalErrCh, ctxDone, signalled, runErr, result>>

\* The component returns an error that is not context.Canceled, or panics.
ComponentFails(c) ==
    /\ Up /\ comp[c] = "run"
    /\ comp' = [comp EXCEPT ![c] = IF c \in Critical(mode) THEN "send" ELSE "down"]
    /\ failed' = failed \cup ({c} \cap Critical(mode))
    /\ UNCHANGED <<mode, mpc, fatalErrCh, ctxDone, signalled, runErr, result>>

\* The context is cancelled and the component returns.
ComponentStops(c) ==
    /\ Up /\ comp[c] = "run" /\ ctxDone
    /\ comp' = [comp EXCEPT ![c] = "down"]
    /\ UNCHANGED <<mode, mpc, fatalErrCh, ctxDone, signalled, failed, runErr, result>>

\* sendFatalErr: a second error finds the channel full and is dropped.
SendFatalErr(c) ==
    /\ Up /\ comp[c] = "send"
    /\ comp' = [comp EXCEPT ![c] = "cancel"]
    /\ fatalErrCh' = TRUE
    /\ UNCHANGED <<mode, mpc, ctxDone, signalled, failed, runErr, result>>

CancelCtx(c) ==
    /\ Up /\ comp[c] = "cancel"
    /\ comp' = [comp EXCEPT ![c] = "down"]
    /\ ctxDone' = TRUE
    /\ UNCHANGED <<mode, mpc, fatalErrCh, signalled, failed, runErr, result>>

Signal ==
    /\ Up \/ mpc = "init"
    /\ ~signalled
    /\ signalled' = TRUE
    /\ ctxDone' = TRUE
    /\ UNCHANGED <<mode, mpc, comp, fatalErrCh, failed, runErr, result>>

-----------------------------------------------------------------------------
(***************************************************************************)
(* The main goroutine.                                                     *)
(***************************************************************************)
\* The select: a cancelled context still prefers an error.
Select ==
    /\ mpc = "select"
    /\ ctxDone \/ fatalErrCh
    /\ mpc' = "wait"
    /\ runErr' = IF fatalErrCh THEN "fatal" ELSE "canceled"
    /\ fatalErrCh' = FALSE
    /\ ctxDone' = TRUE
    /\ UNCHANGED <<mode, comp, signalled, failed, result>>

\* The process returns, and what is left of its goroutines ends with it.
Returns(r) ==
    /\ mpc' = "returned" /\ result' = r
    /\ comp' = NoComponents /\ fatalErrCh' = FALSE
    /\ ctxDone' = FALSE /\ signalled' = FALSE /\ runErr' = "none"
    /\ UNCHANGED <<mode, failed>>

\* Mutant: the timer runs only after a fatal error.
ShutdownTimeoutAfterError ==
    /\ mpc = "wait" /\ mode = "receive" /\ runErr = "fatal"
    /\ Returns("timeout")

ShutdownTimeout ==
    /\ mpc = "wait" /\ mode = "receive"
    /\ Returns("timeout")

AllDown == \A c \in Components(mode) : comp[c] = "down"

\* Mutant: an error that came while the goroutines were stopping is not looked for.
ReturnUnchecked ==
    /\ mpc = "wait" /\ AllDown
    /\ Returns(IF runErr = "fatal" THEN "error" ELSE "nil")

\* wg.Wait is over: the second look into the channel, and the result.
Return ==
    /\ mpc = "wait" /\ AllDown
    /\ Returns(IF fatalErrCh \/ runErr = "fatal" THEN "error" ELSE "nil")

\* A process that has just been started, or is gone.
Fresh(pc) ==
    /\ mpc' = pc /\ comp' = NoComponents
    /\ fatalErrCh' = FALSE /\ ctxDone' = FALSE /\ signalled' = FALSE
    /\ failed' = {} /\ runErr' = "none" /\ result' = "none"

LifeInit ==
    /\ mode = "receive" /\ mpc = "off" /\ comp = NoComponents
    /\ fatalErrCh = FALSE /\ ctxDone = FALSE /\ signalled = FALSE
    /\ failed = {} /\ runErr = "none" /\ result = "none"

MainStep == Select \/ ShutdownTimeout \/ Return
=================================================================================
