----------------------------- MODULE StepOutput -----------------------------
(***************************************************************************)
(* What becomes of the output of one step (execution/manager.go,           *)
(* executeStepInRuntime, executeContainerCommand, captureLines;            *)
(* execution/workflow_command.go; store/execution.go, AppendLogLine;       *)
(* store/log_sections.go, store/annotations.go).  The command writes lines *)
(* to two streams, each read by a goroutine of its own that interprets a   *)
(* line under the lock of the job's command state, stores its annotation,  *)
(* the line and its section one after the other, and gives up at the first *)
(* line it cannot store.  On the host a stream is an operating-system      *)
(* pipe; in a container both arrive over one connection, and a copier      *)
(* hands each frame to the goroutine of its stream.  A retried job runs    *)
(* its steps again with a fresh command state on the same step rows.       *)
(* A definition marked "Mutant" is a bug that could have been made in the  *)
(* next one; no specification uses it.                                     *)
(***************************************************************************)
EXTENDS Integers, Sequences, FiniteSets, SequencesExt

CONSTANTS
    Commands,           \* [place, script]: a command runs on the "host" or in a
                        \* "container" and writes a sequence of [stream, kind]
    MaxAttempts,        \* attempts of the job
    MaxSections,        \* MaxStepLogSections
    MaxAnnotations,     \* MaxStepAnnotations
    MaxFaults           \* lines the busy database refuses for good (a bound)

Streams == {"out", "err"}

VARIABLES
    place, script,      \* where the step runs and what it writes
    attempt,
    written,            \* lines of the script that were written
    command,            \* "running", "ended" or "killed"
    signal,             \* the context of the step is done: cancelled or timed out
    pipe,               \* stream -> lines in the pipe of the host
    wire,               \* lines in the connection to the container
    held,               \* the lines the copier is about to hand over, at most one
    capture,            \* stream -> the goroutine [pc, line, event, note, say, error]
    stopped, masked,    \* workflowCommandState: a stop token is set, the secret is masked,
    open, counted,      \*   the open sections, and how many were started,
    noted,              \*   and how many annotations
    log,                \* run_log_lines: [stream, kind, redacted, attempt], by sequence
    sections,           \* step_log_sections: id -> [depth, start, stop], stop 0 is open
    annotations,        \* step_annotations: how many
    ended,              \* "" or how the step ended
    faults

commandVars == <<written, command>>
streamVars == <<pipe, wire, held>>
stateVars == <<stopped, masked, open, counted, noted>>
storeVars == <<log, sections, annotations>>
vars == <<place, script, attempt, commandVars, signal, streamVars, capture, stateVars, storeVars, ended, faults>>

Reading == [pc |-> "read", line |-> "text", event |-> <<>>, note |-> FALSE, say |-> FALSE, error |-> FALSE]

Start(n) ==
    /\ attempt = n /\ written = 0 /\ command = "running" /\ signal = FALSE
    /\ pipe = [s \in Streams |-> <<>>] /\ wire = <<>> /\ held = <<>>
    /\ capture = [s \in Streams |-> Reading]
    /\ stopped = FALSE /\ masked = FALSE /\ open = <<>> /\ counted = 0 /\ noted = 0
    /\ ended = ""

Init ==
    /\ \E c \in Commands : place = c.place /\ script = c.script
    /\ Start(1)
    /\ log = <<>> /\ sections = <<>> /\ annotations = 0 /\ faults = 0

-----------------------------------------------------------------------------
(* The command and its streams.  A pipe and the connection hold one line.  *)

Running == command = "running" /\ ended = ""

Write ==
    /\ Running /\ written < Len(script)
    /\ LET line == script[written + 1]
       IN IF place = "host"
          THEN /\ pipe[line.stream] = <<>> /\ UNCHANGED wire
               /\ pipe' = [pipe EXCEPT ![line.stream] = <<line.kind>>]
          ELSE wire = <<>> /\ wire' = <<line>> /\ UNCHANGED pipe
    /\ written' = written + 1
    /\ UNCHANGED <<place, script, attempt, command, signal, held, capture, stateVars, storeVars, ended, faults>>

Exit ==
    /\ Running /\ written = Len(script)
    /\ command' = "ended"
    /\ UNCHANGED <<place, script, attempt, written, signal, streamVars, capture, stateVars, storeVars, ended, faults>>

\* pollCancellation, or the timeout of the step or the job
Cancel ==
    /\ ended = "" /\ ~signal
    /\ signal' = TRUE
    /\ UNCHANGED <<place, script, attempt, commandVars, streamVars, capture, stateVars, storeVars, ended, faults>>

\* CommandContext kills the process; Exec closes the connection and kills the
\* container.
Kill ==
    /\ Running /\ signal
    /\ command' = "killed" /\ wire' = <<>>
    /\ UNCHANGED <<place, script, attempt, written, signal, pipe, held, capture, stateVars, storeVars, ended, faults>>

\* stdcopy.StdCopy: it reads nothing while it hands a frame over.
CopyFrame ==
    /\ held = <<>> /\ wire # <<>>
    /\ held' = wire /\ wire' = <<>>
    /\ UNCHANGED <<place, script, attempt, commandVars, signal, pipe, capture, stateVars, storeVars, ended, faults>>

CopierDone == held = <<>> /\ wire = <<>> /\ command # "running"

Waiting(s) == IF place = "host" THEN pipe[s] ELSE [i \in DOMAIN SelectSeq(held, LAMBDA l : l.stream = s) |-> held[i].kind]
AtEnd(s) == Waiting(s) = <<>> /\ IF place = "host" THEN command # "running" ELSE CopierDone

Taken(s) ==
    /\ pipe' = [pipe EXCEPT ![s] = <<>>]
    /\ held' = IF place = "host" THEN held ELSE <<>>
    /\ UNCHANGED wire

-----------------------------------------------------------------------------
(* workflowCommandState.process *)

SectionId(n) == n
Interpreted(s) == s = "out" /\ ~stopped

\* The event of a section: <<"start", id, depth>>, <<"end", id>> or none.
\* Mutant: an end closes the section that was opened first.
EndOfFirst == <<"end", open[1].id>>
EndOfLast == <<"end", open[Len(open)].id>>

SectionEvent(s, kind) ==
    CASE Interpreted(s) /\ kind = "group" /\ counted < MaxSections ->
            <<"start", SectionId(counted + 1), Len(open)>>
      [] Interpreted(s) /\ kind = "endgroup" /\ open # <<>> -> EndOfLast
      [] OTHER -> <<>>

NewState(s, kind) ==
    LET event == SectionEvent(s, kind)
    IN /\ stopped' = IF s # "out" THEN stopped
                     ELSE (kind = "stop" \/ (stopped /\ kind # "resume"))
       /\ masked' = (masked \/ (Interpreted(s) /\ kind = "mask"))
       /\ open' = CASE event = <<>> -> open
                    [] event # <<>> /\ event[1] = "start" -> Append(open, [id |-> event[2]])
                    [] OTHER -> Front(open)
       /\ counted' = IF event # <<>> /\ event[1] = "start" THEN counted + 1 ELSE counted
       /\ noted' = IF Interpreted(s) /\ kind = "note" /\ noted < MaxAnnotations THEN noted + 1 ELSE noted

Result(s, kind) ==
    [Reading EXCEPT
        !.line = kind, !.event = SectionEvent(s, kind),
        !.note = (Interpreted(s) /\ kind = "note" /\ noted < MaxAnnotations),
        !.say = (\/ Interpreted(s) /\ kind \in {"group", "endgroup"} /\ SectionEvent(s, kind) = <<>>
                 \/ Interpreted(s) /\ kind = "note" /\ noted >= MaxAnnotations)]

\* A secret the state knows to mask is struck out.
Redacted(kind) == kind = "secret" /\ masked

-----------------------------------------------------------------------------
(* captureLines *)

At(s, pc) == capture[s].pc = pc
GiveUp(s) == capture' = [capture EXCEPT ![s].pc = "done", ![s].error = TRUE]
Goto(s, pc) == capture' = [capture EXCEPT ![s].pc = pc]

Next1(c) == IF c.note THEN "note" ELSE "log"

\* A line longer than the buffer of the scanner ends the reading; what is left
\* of it may or may not stay behind.
ReadLine(s) ==
    /\ At(s, "read") /\ Waiting(s) # <<>>
    /\ LET kind == Waiting(s)[1]
       IN IF kind = "huge"
          THEN /\ GiveUp(s) /\ UNCHANGED stateVars
               /\ (Taken(s) \/ UNCHANGED streamVars)
          ELSE /\ Taken(s) /\ NewState(s, kind)
               /\ LET r == Result(s, kind) IN
                  capture' = [capture EXCEPT ![s] =
                     [r EXCEPT !.pc = Next1(r), !.line = IF Redacted(kind) THEN "***" ELSE kind]]
    /\ UNCHANGED <<place, script, attempt, commandVars, signal, storeVars, ended, faults>>

EndOfStream(s) ==
    /\ At(s, "read") /\ AtEnd(s)
    /\ Goto(s, "done")
    /\ UNCHANGED <<place, script, attempt, commandVars, signal, streamVars, stateVars, storeVars, ended, faults>>

\* AppendStepAnnotation: what fails is said in the log.
StoreAnnotation(s) ==
    /\ At(s, "note")
    /\ LET stored == ~signal /\ annotations < MaxAnnotations
       IN /\ annotations' = IF stored THEN annotations + 1 ELSE annotations
          /\ capture' = [capture EXCEPT ![s].pc = "log", ![s].say = ~stored]
    /\ UNCHANGED <<place, script, attempt, commandVars, signal, streamVars, stateVars, log, sections, ended, faults>>

Line(s, kind) == [stream |-> s, kind |-> kind, attempt |-> attempt]

\* AppendLogLine allocates the sequence and inserts the line in one transaction.
AppendLine(s) ==
    /\ At(s, "log")
    /\ IF signal THEN GiveUp(s) /\ UNCHANGED log
       ELSE /\ log' = Append(log, Line(s, capture[s].line))
            /\ LET e == capture[s].event
                   next == IF e # <<>> THEN "section" ELSE IF capture[s].say THEN "say" ELSE "read"
               IN capture' = [capture EXCEPT ![s].pc = next,
                                             ![s].event = IF e = <<>> THEN e ELSE Append(e, Len(log) + 1)]
    /\ UNCHANGED <<place, script, attempt, commandVars, signal, streamVars, stateVars,
                   sections, annotations, ended, faults>>

\* Fifty attempts found the database locked.
RefuseLine(s) ==
    /\ At(s, "log") /\ ~signal /\ faults < MaxFaults
    /\ GiveUp(s) /\ faults' = faults + 1
    /\ UNCHANGED <<place, script, attempt, commandVars, signal, streamVars, stateVars, storeVars, ended>>

\* StartStepLogSection, FinishStepLogSection
StoreSection(s) ==
    /\ At(s, "section")
    /\ LET e == capture[s].event
           starts == e[1] = "start"
           id == e[2]
           stored == ~signal /\ IF starts THEN id \notin DOMAIN sections /\ Cardinality(DOMAIN sections) < MaxSections
                                ELSE id \in DOMAIN sections /\ sections[id].stop = 0
       IN /\ sections' =
                CASE ~stored -> sections
                  [] stored /\ starts ->
                       [i \in DOMAIN sections \cup {id} |->
                          IF i = id THEN [depth |-> e[3], start |-> e[4], stop |-> 0] ELSE sections[i]]
                  [] stored /\ ~starts -> [sections EXCEPT ![id].stop = e[3]]
          /\ capture' = [capture EXCEPT ![s].pc = IF stored THEN "read" ELSE "say"]
    /\ UNCHANGED <<place, script, attempt, commandVars, signal, streamVars, stateVars, log, annotations, ended, faults>>

\* The diagnostic is a line of the log as well.
Say(s) ==
    /\ At(s, "say")
    /\ IF signal THEN GiveUp(s) /\ UNCHANGED log
       ELSE Goto(s, "read") /\ log' = Append(log, Line("system", "diagnostic"))
    /\ UNCHANGED <<place, script, attempt, commandVars, signal, streamVars, stateVars,
                   sections, annotations, ended, faults>>

-----------------------------------------------------------------------------
(* The step *)

\* Both goroutines are waited for, then the command.
Finish ==
    /\ ended = "" /\ \A s \in Streams : At(s, "done")
    /\ IF place = "host" THEN command # "running" ELSE CopierDone
    /\ LET failed == signal \/ command = "killed" \/ \E s \in Streams : capture[s].error
       IN ended' = IF failed THEN "failed" ELSE "succeeded"
    /\ UNCHANGED <<place, script, attempt, commandVars, signal, streamVars, capture, stateVars, storeVars, faults>>

\* ResetJobForRetry and the next executeJob: a new command state, the rows of
\* the step stay.
Retry ==
    /\ ended = "failed" /\ attempt < MaxAttempts
    /\ attempt' = attempt + 1 /\ written' = 0 /\ command' = "running" /\ signal' = FALSE
    /\ pipe' = [s \in Streams |-> <<>>] /\ wire' = <<>> /\ held' = <<>>
    /\ capture' = [s \in Streams |-> Reading]
    /\ stopped' = FALSE /\ masked' = FALSE /\ open' = <<>> /\ counted' = 0 /\ noted' = 0
    /\ ended' = ""
    /\ UNCHANGED <<place, script, storeVars, faults>>

Capture(s) ==
    \/ ReadLine(s) \/ EndOfStream(s) \/ StoreAnnotation(s) \/ AppendLine(s)
    \/ StoreSection(s) \/ Say(s)

Program == Write \/ Exit \/ Kill \/ CopyFrame \/ Finish

Next == \/ Program \/ Cancel \/ Retry
        \/ \E s \in Streams : Capture(s) \/ RefuseLine(s)

Spec == Init /\ [][Next]_vars

\* Every goroutine and the command go on while they can.  Nothing has to be
\* cancelled or retried.
Fairness == WF_vars(Program) /\ \A s \in Streams : WF_vars(Capture(s))
FairSpec == Spec /\ Fairness

-----------------------------------------------------------------------------
(* Properties *)

OutputTypeOK ==
    /\ attempt \in 1..MaxAttempts /\ written \in 0..Len(script)
    /\ command \in {"running", "ended", "killed"}
    /\ ended \in {"", "failed", "succeeded"}
    /\ Len(held) <= 1 /\ Len(wire) <= 1 /\ \A s \in Streams : Len(pipe[s]) <= 1

Logged(s, a) == SelectSeq(log, LAMBDA l : l.stream = s /\ l.attempt = a)
Sent(s) == SelectSeq(script, LAMBDA l : l.stream = s)

\* The log has the lines of a stream in the order in which they were written,
\* without a gap, for every attempt, and all of them if the step succeeded: a
\* line that could not be stored fails the step (captureLines).
LogIsWhole ==
    \A s \in Streams, a \in 1..attempt :
        LET got == Logged(s, a) sent == Sent(s)
        IN /\ Len(got) <= Len(sent)
           /\ \A i \in DOMAIN got : got[i].kind = sent[i].kind \/ (got[i].kind = "***" /\ sent[i].kind = "secret")
           /\ (a = attempt /\ ended = "succeeded") => Len(got) = Len(sent)

\* The first attempt's sections nest: two of them are apart or one within the
\* other, and the depth of a section is the number of those around it.  Later
\* attempts count their sections from one again on the same step, so they
\* store none of their own (startSectionLocked, StartStepLogSection).
Within(p, q) == p.start > q.start /\ (q.stop = 0 \/ p.start < q.stop)
SectionsNest ==
    attempt = 1 =>
        \A i \in DOMAIN sections :
            LET p == sections[i]
            IN /\ \A q \in Range(sections) :
                     Within(p, q) /\ q.stop # 0 => p.stop # 0 /\ p.stop < q.stop
               /\ p.depth = Cardinality({j \in DOMAIN sections : Within(p, sections[j])})

\* A section begins and ends at lines of the log that asked for it.
SectionsPointAtTheirLines ==
    \A i \in DOMAIN sections :
        /\ log[sections[i].start].kind = "group" /\ log[sections[i].start].stream = "out"
        /\ sections[i].stop # 0 => log[sections[i].stop].kind = "endgroup"

\* The commands that stop-commands silences: those after a stop and before the
\* next resume on standard output.
Silenced(i) ==
    \E k \in 1..(i - 1) :
        /\ script[k] = [stream |-> "out", kind |-> "stop"]
        /\ \A m \in (k + 1)..(i - 1) : script[m] # [stream |-> "out", kind |-> "resume"]

\* A secret that standard output writes after an add-mask that was not
\* silenced is never in the log.  No such promise holds for standard error:
\* its goroutine may read a line of a later moment first.
MaskedFromThenOn ==
    \A i \in DOMAIN script, j \in DOMAIN script :
        (i < j /\ script[i] = [stream |-> "out", kind |-> "mask"] /\ ~Silenced(i)
            /\ script[j] = [stream |-> "out", kind |-> "secret"]) =>
        LET n == Len(SelectSeq(SubSeq(script, 1, j), LAMBDA l : l.stream = "out"))
        IN \A a \in 1..attempt : n \in DOMAIN Logged("out", a) => Logged("out", a)[n].kind = "***"

\* Silenced commands do nothing and no limit is passed.
SilenceIsKept ==
    /\ annotations <= MaxAnnotations /\ Cardinality(DOMAIN sections) <= MaxSections
    /\ annotations <= attempt * Cardinality({i \in DOMAIN script :
          script[i] = [stream |-> "out", kind |-> "note"] /\ ~Silenced(i)})

\* The copier has a frame that nobody will take.
Abandoned == held # <<>> /\ \E s \in Streams : At(s, "done") /\ Waiting(s) # <<>>

\* A step whose output the store accepts, and that nobody cancels,
Undisturbed == ~signal /\ faults = 0 /\ \A i \in DOMAIN script : script[i].kind # "huge"

\* ends by itself, in the end.
StepEnded == ended # ""

\* A step that is cancelled,
StepCancelled == signal

\* ends too: on the host always, in a container unless
\* the copier is left with a frame whose goroutine has given up.  Then Exec
\* never returns, and with it the worker that runs the step
\* (executeContainerCommand).
EndedOrAbandoned == StepEnded \/ (place = "container" /\ Abandoned)
=============================================================================
