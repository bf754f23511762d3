------------------------------ MODULE OneShot ------------------------------
(***************************************************************************)
(* RunOneShotContainer (pkg/podman/oneshot.go): a helper container, in     *)
(* which create runs qemu-img, is created, started, waited for and         *)
(* removed, and its output is collected by collectContainerLogs.           *)
(*                                                                         *)
(* Two goroutines: the logger runs containers.Logs, which sends the frames *)
(* of the two streams into two bounded channels, then reports its error    *)
(* and closes the channels; the caller selects from both channels until    *)
(* each is closed, and then takes the error.                               *)
(***************************************************************************)
EXTENDS Naturals, Sequences

CONSTANTS
    Frames,      \* contents of a log frame
    Cap,         \* capacity of stdoutCh and stderrCh (128 in the code)
    DoneCap,     \* capacity of done (1 in the code)
    MaxFrames    \* bound on the frames of one run

ASSUME CapAssumption == Cap \in Nat \ {0} /\ DoneCap \in Nat \ {0} /\ MaxFrames \in Nat

Streams == {"stdout", "stderr"}
Unset == "unset"

VARIABLES
    main,     \* next step of the caller
    logger,   \* next step of the logger goroutine
    helper,   \* the helper container: "none", "created", "running", "exited"
    exit,     \* what containers.Wait returned: "zero", "nonzero", "err"
    buf,      \* frames in each channel
    closed,   \* the channel is closed
    live,     \* the caller's variable for the channel is not nil
    got,      \* what the caller has put into each string builder
    sent,     \* what containers.Logs has sent on each stream
    logErr,   \* containers.Logs failed
    done,     \* contents of the channel done
    result    \* what RunOneShotContainer returns

chans == <<buf, closed, live, got, sent, done, logErr>>
vars == <<main, logger, helper, exit, chans, result>>

Init ==
    /\ main = "create"
    /\ logger = "none"
    /\ helper = "none"
    /\ exit = Unset
    /\ buf = [c \in Streams |-> <<>>]
    /\ closed = [c \in Streams |-> FALSE]
    /\ live = [c \in Streams |-> TRUE]
    /\ got = [c \in Streams |-> <<>>]
    /\ sent = [c \in Streams |-> <<>>]
    /\ logErr = FALSE
    /\ done = <<>>
    /\ result = Unset

-----------------------------------------------------------------------------
(* The caller *)

CreateHelper ==
    /\ main = "create"
    /\ \/ helper' = "created" /\ main' = "start" /\ UNCHANGED result
       \/ UNCHANGED helper /\ main' = "end" /\ result' = "err"
    /\ UNCHANGED <<logger, exit, chans>>

StartHelper ==
    /\ main = "start"
    /\ \/ helper' = "running" /\ main' = "wait" /\ UNCHANGED result
       \/ UNCHANGED helper /\ main' = "remove" /\ result' = "err"
    /\ UNCHANGED <<logger, exit, chans>>

\* Wait returns when the helper has exited, or fails; then the logs are
\* collected all the same.  The logger goroutine starts here.
WaitHelper ==
    /\ main = "wait"
    /\ \/ helper' = "exited" /\ exit' \in {"zero", "nonzero"}
       \/ UNCHANGED helper /\ exit' = "err"
    /\ main' = "select"
    /\ logger' = "logs"
    /\ UNCHANGED <<chans, result>>

\* Mutant: the lines of both streams go to one builder.
ReceiveMixed(c) ==
    /\ main = "select" /\ live[c] /\ buf[c] # <<>>
    /\ got' = [got EXCEPT !["stdout"] = Append(@, Head(buf[c]))]
    /\ buf' = [buf EXCEPT ![c] = Tail(@)]
    /\ UNCHANGED <<main, logger, helper, exit, closed, live, sent, done, logErr, result>>

\* One case of the select: a frame, or the close of a drained channel.
Receive(c) ==
    /\ main = "select" /\ live[c] /\ buf[c] # <<>>
    /\ got' = [got EXCEPT ![c] = Append(@, Head(buf[c]))]
    /\ buf' = [buf EXCEPT ![c] = Tail(@)]
    /\ UNCHANGED <<main, logger, helper, exit, closed, live, sent, done, logErr, result>>

SeeClosed(c) ==
    /\ main = "select" /\ live[c] /\ buf[c] = <<>> /\ closed[c]
    /\ live' = [live EXCEPT ![c] = FALSE]
    /\ UNCHANGED <<main, logger, helper, exit, buf, closed, got, sent, done, logErr, result>>

\* Mutant: the loop runs while both channels are open (&& for ||).
TakeErrorEarly ==
    /\ main = "select" /\ \E c \in Streams : ~live[c]
    /\ done # <<>>
    /\ done' = Tail(done)
    /\ result' = IF Head(done) = "err" \/ exit # "zero" THEN "err" ELSE "ok"
    /\ main' = "remove"
    /\ UNCHANGED <<logger, helper, exit, buf, closed, live, got, sent, logErr>>

\* Both channels are nil: the loop ends and the error is taken.  An error of
\* the logs goes before one of Wait, and that before the exit status.
TakeError ==
    /\ main = "select" /\ \A c \in Streams : ~live[c]
    /\ done # <<>>
    /\ done' = Tail(done)
    /\ result' = IF Head(done) = "err" \/ exit # "zero" THEN "err" ELSE "ok"
    /\ main' = "remove"
    /\ UNCHANGED <<logger, helper, exit, buf, closed, live, got, sent, logErr>>

\* The deferred forced removal, whose error is ignored.
RemoveHelper ==
    /\ main = "remove"
    /\ helper' \in {"none", helper}
    /\ main' = "end"
    /\ UNCHANGED <<logger, exit, chans, result>>

-----------------------------------------------------------------------------
(* The logger goroutine *)

\* containers.Logs sends a frame; the send waits for room in the channel.
SendFrame(c) ==
    /\ logger = "logs"
    /\ Len(sent["stdout"]) + Len(sent["stderr"]) < MaxFrames
    /\ Len(buf[c]) < Cap
    /\ \E f \in Frames :
          /\ buf' = [buf EXCEPT ![c] = Append(@, f)]
          /\ sent' = [sent EXCEPT ![c] = Append(@, f)]
    /\ UNCHANGED <<main, logger, helper, exit, closed, live, got, done, logErr, result>>

\* Mutant: the goroutine returns on an error without closing the channels.
EndLogsReturning ==
    /\ logger = "logs"
    /\ logErr' \in BOOLEAN
    /\ logger' = IF logErr' THEN "gone" ELSE "report"
    /\ UNCHANGED <<main, helper, exit, buf, closed, live, got, sent, done, result>>

\* containers.Logs returns: the stream ended, or it failed.
EndLogs ==
    /\ logger = "logs"
    /\ logErr' \in BOOLEAN
    /\ logger' = "report"
    /\ UNCHANGED <<main, helper, exit, buf, closed, live, got, sent, done, result>>

\* Mutant: done has no buffer, so the send waits for the caller to receive,
\* which it does after its loop.
SendErrorUnbuffered ==
    /\ logger = "report"
    /\ main = "select" /\ \A c \in Streams : ~live[c]
    /\ done' = Append(done, IF logErr THEN "err" ELSE "nil")
    /\ logger' = "close_stdout"
    /\ UNCHANGED <<main, helper, exit, buf, closed, live, got, sent, logErr, result>>

\* The error, or nil, goes into the buffered channel done before the close.
SendError ==
    /\ logger = "report"
    /\ Len(done) < DoneCap
    /\ done' = Append(done, IF logErr THEN "err" ELSE "nil")
    /\ logger' = "close_stdout"
    /\ UNCHANGED <<main, helper, exit, buf, closed, live, got, sent, logErr, result>>

CloseChannel ==
    /\ \/ /\ logger = "close_stdout" /\ logger' = "close_stderr"
          /\ closed' = [closed EXCEPT !["stdout"] = TRUE]
       \/ /\ logger = "close_stderr" /\ logger' = "gone"
          /\ closed' = [closed EXCEPT !["stderr"] = TRUE]
    /\ UNCHANGED <<main, helper, exit, buf, live, got, sent, done, logErr, result>>

Main ==
    \/ CreateHelper \/ StartHelper \/ WaitHelper \/ TakeError \/ RemoveHelper
    \/ \E c \in Streams : Receive(c) \/ SeeClosed(c)

Logger == EndLogs \/ SendError \/ CloseChannel \/ \E c \in Streams : SendFrame(c)

Next == Main \/ Logger

Spec == Init /\ [][Next]_vars

\* The Go scheduler runs both goroutines, and a log that has ended returns.
FairSpec == Spec /\ WF_vars(Main) /\ WF_vars(Logger)

-----------------------------------------------------------------------------
(* Properties *)

\* The types of the state.
TypeOK ==
    /\ main \in {"create", "start", "wait", "select", "remove", "end"}
    /\ logger \in {"none", "logs", "report", "close_stdout", "close_stderr", "gone"}
    /\ helper \in {"none", "created", "running", "exited"}
    /\ exit \in {Unset, "zero", "nonzero", "err"}
    /\ buf \in [Streams -> Seq(Frames)]
    /\ closed \in [Streams -> BOOLEAN]
    /\ live \in [Streams -> BOOLEAN]
    /\ got \in [Streams -> Seq(Frames)]
    /\ sent \in [Streams -> Seq(Frames)]
    /\ logErr \in BOOLEAN
    /\ done \in Seq({"nil", "err"})
    /\ result \in {Unset, "ok", "err"}

\* Nothing is lost, duplicated or reordered on the way: what the caller has,
\* followed by what the channel holds, is what was sent, and the caller gives
\* a channel up only once it is closed and drained.
InTransit ==
    \A c \in Streams :
        /\ sent[c] = got[c] \o buf[c]
        /\ ~live[c] => closed[c] /\ buf[c] = <<>>

\* The steps of the logger: channels are closed once, in order, and the error
\* it reports is there until the caller takes it.
LoggerOrder ==
    /\ closed["stdout"] <=> logger \in {"close_stderr", "gone"}
    /\ closed["stderr"] <=> logger = "gone"
    /\ main \in {"create", "start", "wait"} => logger = "none"
    /\ done = IF main = "select" /\ logger \in {"close_stdout", "close_stderr", "gone"}
              THEN << IF logErr THEN "err" ELSE "nil" >> ELSE <<>>
    /\ main \in {"remove", "end"} => logger \in {"none", "gone"}

\* A result that is not an error has the whole output of a helper that exited
\* with status 0, and of logs that were read to their end.
OkIsComplete ==
    result = "ok" => /\ exit = "zero" /\ ~logErr
                     /\ \A c \in Streams : got[c] = sent[c] /\ closed[c]

\* The inductive invariant of the two goroutines.
Inv ==
    /\ TypeOK /\ InTransit /\ LoggerOrder /\ OkIsComplete
    /\ result = "ok" => main \in {"remove", "end"}

\* Nobody waits forever: neither the caller on a channel that is not closed
\* or an error that is not sent, nor the logger on a channel that is full.
Returns == <>(main = "end" /\ logger \in {"none", "gone"})
=============================================================================
