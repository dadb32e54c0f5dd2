----------------------------- MODULE Subprocess -------------------------------
(* Running an external tool with a time limit: K8sMultiScanner.exec and       *)
(* KubevalRunner.validateWithKubeval.  The child writes to two pipes of       *)
(* limited size, two daemon threads pump them into buffers, and the caller    *)
(* waits for the child, then for the pumps, then reads the buffers.           *)
EXTENDS Naturals, Sequences, FiniteSets

CONSTANTS Capacity,    \* chunks a pipe holds
          Programs     \* what a child may write: sequences over Streams

Streams == {"out", "err"}

ASSUME CapacityAssumption == Capacity \in Nat \ {0}
ASSUME ProgramsAssumption == Programs \subseteq Seq(Streams)

VARIABLES
    child,     \* "none", "running", "exited", "destroyed"
    program,   \* what the child has still to write
    size,      \* what it is to write, per stream
    blank,     \* per stream: that is white space only
    pipe,      \* chunks in each pipe
    buffer,    \* chunks pumped from each stream
    pump,      \* per stream: "off", "on", "ended", "broken"
    heir,      \* a process the child started still holds the pipes' write ends
    exec       \* the caller: "idle", "waiting", "joinOut", "joinErr",
               \* "collected", "failed"

proc == <<child, program, size, blank, pipe, buffer, pump, heir, exec>>

\* How many chunks of a program go to the stream s.
Count(s, p) == Cardinality({i \in DOMAIN p : p[i] = s})

SubprocessTypeOK ==
    /\ child \in {"none", "running", "exited", "destroyed"}
    /\ program \in Seq(Streams)
    /\ size \in [Streams -> Nat] /\ buffer \in [Streams -> Nat]
    /\ blank \in [Streams -> BOOLEAN]
    /\ pipe \in [Streams -> 0..Capacity]
    /\ pump \in [Streams -> {"off", "on", "ended", "broken"}]
    /\ heir \in BOOLEAN
    /\ exec \in {"idle", "waiting", "joinOut", "joinErr", "collected", "failed"}

Zero == [s \in Streams |-> 0]

SubprocessInit ==
    /\ child = "none" /\ program = << >>
    /\ size = Zero /\ pipe = Zero /\ buffer = Zero
    /\ blank = [s \in Streams |-> FALSE]
    /\ pump = [s \in Streams |-> "off"]
    /\ heir = FALSE
    /\ exec = "idle"

-----------------------------------------------------------------------------
\* ProcessBuilder.start and the two pump threads, with buffers of their own;
\* start throws when the tool is not installed.  The child may leave a process
\* behind.
StartChild(programs, blanks) ==
    \/ /\ exec' = "failed"
       /\ UNCHANGED <<child, program, size, blank, pipe, buffer, pump, heir>>
    \/ /\ \E p \in programs :
             program' = p /\ size' = [s \in Streams |-> Count(s, p)]
       /\ blank' \in blanks
       /\ child' = "running"
       /\ pipe' = Zero /\ buffer' = Zero
       /\ pump' = [s \in Streams |-> "on"]
       /\ heir' \in BOOLEAN
       /\ exec' = "waiting"

\* The child blocks on a full pipe; a pump that has failed has left it none.
ChildWrite ==
    /\ child = "running" /\ program # << >>
    /\ pump[Head(program)] = "on" /\ pipe[Head(program)] < Capacity
    /\ pipe' = [pipe EXCEPT ![Head(program)] = @ + 1]
    /\ program' = Tail(program)
    /\ UNCHANGED <<child, size, blank, buffer, pump, heir, exec>>

\* What it writes to a pipe that was closed is lost, and may end it.
WriteLost ==
    /\ child = "running" /\ program # << >>
    /\ pump[Head(program)] = "broken"
    /\ \/ program' = Tail(program) /\ UNCHANGED child
       \/ child' = "exited" /\ UNCHANGED program
    /\ UNCHANGED <<size, blank, pipe, buffer, pump, heir, exec>>

ChildExit ==
    /\ child = "running" /\ program = << >>
    /\ child' = "exited"
    /\ UNCHANGED <<program, size, blank, pipe, buffer, pump, heir, exec>>

HeirExit ==
    /\ heir /\ child # "running"
    /\ heir' = FALSE
    /\ UNCHANGED <<child, program, size, blank, pipe, buffer, pump, exec>>

\* (Mutant: the error stream is not read.)
PumpOutOnly(s) ==
    /\ s = "out" /\ pump[s] = "on"
    /\ pipe[s] > 0
    /\ pipe' = [pipe EXCEPT ![s] = @ - 1]
    /\ buffer' = [buffer EXCEPT ![s] = @ + 1]
    /\ UNCHANGED <<child, program, size, blank, pump, heir, exec>>

\* A pump thread copies a chunk, or ends when every writer has gone, or is ended
\* by an IOException that it ignores; what is in the pipe is lost then.
Pump(s) ==
    /\ pump[s] = "on"
    /\ \/ /\ pipe[s] > 0
          /\ pipe' = [pipe EXCEPT ![s] = @ - 1]
          /\ buffer' = [buffer EXCEPT ![s] = @ + 1]
          /\ UNCHANGED pump
       \/ /\ pipe[s] = 0 /\ child # "running" /\ ~heir
          /\ pump' = [pump EXCEPT ![s] = "ended"]
          /\ UNCHANGED <<pipe, buffer>>
       \/ /\ pump' = [pump EXCEPT ![s] = "broken"]
          /\ pipe' = [pipe EXCEPT ![s] = 0]
          /\ UNCHANGED buffer
    /\ UNCHANGED <<child, program, size, blank, heir, exec>>

-----------------------------------------------------------------------------
(* The caller.                                                               *)

\* (Mutant: the time is not limited.)
WaitForever ==
    /\ exec = "waiting"
    /\ child = "exited" /\ exec' = "joinOut" /\ UNCHANGED child
    /\ UNCHANGED <<program, size, blank, pipe, buffer, pump, heir>>

\* waitFor: the child has exited, or the time is up; then it is destroyed and
\* an IOException thrown, though the pumps may be running.
WaitFor ==
    /\ exec = "waiting"
    /\ \/ child = "exited" /\ exec' = "joinOut" /\ UNCHANGED child
       \/ child = "running" /\ child' = "destroyed" /\ exec' = "failed"
    /\ UNCHANGED <<program, size, blank, pipe, buffer, pump, heir>>

\* (Mutant: the pumps are not waited for.)
JoinNone(limited) ==
    /\ exec \in {"joinOut", "joinErr"}
    /\ exec' = IF exec = "joinOut" THEN "joinErr" ELSE "collected"
    /\ UNCHANGED <<child, program, size, blank, pipe, buffer, pump, heir>>

Over(s) == pump[s] \in {"ended", "broken"}

\* join(2000) of K8sMultiScanner gives up after a while (limited), join() of
\* KubevalRunner does not.
Join(limited) ==
    /\ \/ exec = "joinOut" /\ (Over("out") \/ limited) /\ exec' = "joinErr"
       \/ exec = "joinErr" /\ (Over("err") \/ limited) /\ exec' = "collected"
    /\ UNCHANGED <<child, program, size, blank, pipe, buffer, pump, heir>>

\* What the caller reads is all the child was to write.
Complete(s) == buffer[s] = size[s]

\* String.isBlank of it: some or all of what was read may be white space.
Blank(s) == buffer[s] = 0 \/ blank[s]
MayBeBlank(s) == Blank(s) \/ ~Complete(s)
=============================================================================
