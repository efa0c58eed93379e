----------------------------- MODULE PluginPipe -----------------------------
(* compiler/subprocess.cc as built on POSIX: protoc starts a code generator  *)
(* plugin as a child process, sends it the request over one pipe and reads   *)
(* the response from another.  Bytes are counted, not named: a pipe delivers *)
(* them in order.  The descriptors are numbers, given out and duplicated the *)
(* way pipe(), dup2() and close() do, because what the child finds as its    *)
(* descriptors 0 and 1 depends on it.                                        *)
EXTENDS Integers, FiniteSets

CONSTANTS
    InputLen,      \* size of the serialized request, input_data.size()
    OutputLen,     \* size of the response the child wants to write
    ParseableAt,   \* the prefixes of that response ParseFromString accepts
    Capacity,      \* of a pipe
    ReadSize,      \* the buffer of Communicate, 4096 in the code
    ClosedAtStart  \* which of 0, 1, 2 the parent was started without

ASSUME PipeAssumption ==
    /\ InputLen \in Nat /\ OutputLen \in Nat /\ ParseableAt \subseteq Nat
    /\ Capacity \in Nat \ {0} /\ ReadSize \in Nat \ {0}
    /\ ClosedAtStart \subseteq 0..2

VARIABLES
    pc,            \* where the parent is
    parentFd,      \* the parent's descriptors: what each stands for
    child_stdin, child_stdout,  \* Subprocess's members, -1 when closed
    input_pos, output_data, ready, \* the locals of Communicate
    sent,          \* bytes the write() under way has put into the pipe
    cut,           \* a signal interrupted read() or write() before it moved a byte, which
                   \* Communicate takes for the end of the pipe
    result,        \* what Communicate returned
    inPipe, outPipe,            \* bytes in the two pipes
    readsFirst,    \* the child reads its whole input before it writes, as PluginMain does
    child, childFd, wait_status,     \* the child: its life, descriptors, wait status
    childRead, childWrote, childLeft, sawEof

communicate == <<input_pos, output_data, ready, sent>>
parentVars == <<pc, parentFd, child_stdin, child_stdout, communicate, cut, result>>
pipes == <<inPipe, outPipe>>
childVars == <<readsFirst, child, childFd, wait_status, childRead, childWrote, childLeft, sawEof>>
pipeVars == <<parentVars, pipes, childVars>>

Ends == {"inR", "inW", "outR", "outW"}
Fds == 0..6
Smaller(a, b) == IF a < b THEN a ELSE b

-----------------------------------------------------------------------------
(* Descriptors.                                                              *)

Lowest(table) == CHOOSE f \in Fds : table[f] = "free" /\ \A g \in Fds : g < f => table[g] # "free"
Give(table, end) == [table EXCEPT ![Lowest(table)] = end]
Pipe(table, readEnd, writeEnd) == Give(Give(table, readEnd), writeEnd)
FdOf(table, end) == CHOOSE f \in Fds : table[f] = end
Dup2(table, end, f) == [table EXCEPT ![f] = end]
Close(table, f) == [table EXCEPT ![f] = "free"]
CloseAll(table, fs) == [f \in Fds |-> IF f \in fs THEN "free" ELSE table[f]]
NoFds == [f \in Fds |-> "free"]

\* Some process still has this end of a pipe.
Held(end) == \E f \in Fds : parentFd[f] = end \/ childFd[f] = end

PipeInit ==
    /\ pc = "start"
    /\ parentFd = [f \in Fds |-> IF f \in (0..2) \ ClosedAtStart THEN "other" ELSE "free"]
    /\ child_stdin = -1 /\ child_stdout = -1
    /\ input_pos = 0 /\ output_data = 0 /\ ready = {} /\ sent = 0
    /\ cut = FALSE /\ result = "none"
    /\ readsFirst \in BOOLEAN
    /\ inPipe = 0 /\ outPipe = 0
    /\ child = "none" /\ childFd = NoFds /\ wait_status = "none"
    /\ childRead = 0 /\ childWrote = 0 /\ childLeft = 0 /\ sawEof = FALSE

-----------------------------------------------------------------------------
(* Start: two pipes and a fork; then each process closes what is the         *)
(* other's, in its own time.                                                 *)

Fork ==
    /\ pc = "start"
    /\ LET table == Pipe(Pipe(parentFd, "inR", "inW"), "outR", "outW")
       IN parentFd' = table /\ childFd' = table
    /\ child' = "forked"
    /\ pc' = "forked"
    /\ UNCHANGED <<child_stdin, child_stdout, communicate, cut, result, pipes, readsFirst,
                   wait_status, childRead, childWrote, childLeft, sawEof>>

ParentCloses ==
    /\ pc = "forked"
    /\ parentFd' = CloseAll(parentFd, {FdOf(parentFd, "inR"), FdOf(parentFd, "outW")})
    /\ child_stdin' = FdOf(parentFd, "inW")
    /\ child_stdout' = FdOf(parentFd, "outR")
    /\ pc' = "select"
    /\ UNCHANGED <<communicate, cut, result, pipes, childVars>>

\* Mutant: the child does not close the parent's end of its input.
ChildTableLeaky ==
    LET originals == {FdOf(childFd, e) : e \in Ends \ {"inW"}}
    IN CloseAll(Dup2(Dup2(childFd, "inR", 0), "outW", 1), originals)

\* dup2 twice, close the four originals, exec; a program that cannot be run
\* exits with status 1.
ChildTable ==
    LET originals == {FdOf(childFd, e) : e \in Ends}
    IN CloseAll(Dup2(Dup2(childFd, "inR", 0), "outW", 1), originals)

ChildExecs ==
    /\ child = "forked"
    /\ \/ child' = "running" /\ childFd' = ChildTable /\ UNCHANGED wait_status
       \/ child' = "exited" /\ childFd' = NoFds /\ wait_status' = "nonzero"
    /\ UNCHANGED <<parentVars, pipes, readsFirst, childRead, childWrote, childLeft, sawEof>>

-----------------------------------------------------------------------------
(* Communicate: one select, then at most one write and one read.             *)

Writable == inPipe < Capacity \/ ~Held("inR")
Readable == outPipe > 0 \/ ~Held("outW")

\* An interrupted select is tried again and changes nothing.
Select ==
    /\ pc = "select" /\ child_stdout # -1
    /\ ready' = {s \in {"stdin", "stdout"} :
                    \/ s = "stdin" /\ child_stdin # -1 /\ Writable
                    \/ s = "stdout" /\ Readable}
    /\ ready' # {}
    /\ pc' = IF "stdin" \in ready' THEN "write" ELSE "read"
    /\ sent' = 0
    /\ UNCHANGED <<parentFd, child_stdin, child_stdout, input_pos, output_data, cut,
                   result, pipes, childVars>>

\* The descriptor is not set to O_NONBLOCK: write() does not return before all
\* of the rest is in the pipe, whatever select said.
WriteSome ==
    /\ pc = "write" /\ Held("inR")
    /\ \E n \in 1..Smaller(InputLen - input_pos - sent, Capacity - inPipe) :
         sent' = sent + n /\ inPipe' = inPipe + n
    /\ UNCHANGED <<pc, parentFd, child_stdin, child_stdout, input_pos, output_data, ready,
                   cut, result, outPipe, childVars>>

\* What a write() that ends reports: all, or what was written before the
\* child closed its end or a signal came; -1 if that was nothing.
Returned == IF sent > 0 \/ (input_pos = InputLen /\ Held("inR")) THEN sent ELSE -1

\* Mutant: the input is not closed.
WriteReturnsOpen ==
    /\ pc = "write"
    /\ input_pos + sent = InputLen \/ ~Held("inR")
    /\ input_pos' = InputLen
    /\ pc' = IF "stdout" \in ready THEN "read" ELSE "select"
    /\ sent' = 0
    /\ UNCHANGED <<parentFd, child_stdin, child_stdout, output_data, ready, cut, result,
                   pipes, childVars>>

WriteReturns ==
    /\ pc = "write"
    /\ cut' = (cut \/ (Returned < 0 /\ Held("inR")))
    /\ input_pos' = IF Returned < 0 THEN InputLen ELSE input_pos + Returned
    /\ IF input_pos' = InputLen
       THEN parentFd' = Close(parentFd, child_stdin) /\ child_stdin' = -1
       ELSE UNCHANGED <<parentFd, child_stdin>>
    /\ pc' = IF "stdout" \in ready THEN "read" ELSE "select"
    /\ sent' = 0
    /\ UNCHANGED <<child_stdout, output_data, ready, result, pipes, childVars>>

\* n > 0: append.
ReadSome ==
    /\ pc = "read" /\ outPipe > 0
    /\ LET n == Smaller(outPipe, ReadSize)
       IN output_data' = output_data + n /\ outPipe' = outPipe - n
    /\ pc' = "select"
    /\ UNCHANGED <<parentFd, child_stdin, child_stdout, input_pos, ready, sent, cut,
                   result, inPipe, childVars>>

\* n <= 0: the end of the stream, or a read that a signal interrupted, which the
\* code does not tell apart.
ReadEnds ==
    /\ pc = "read"
    /\ cut' = (cut \/ outPipe > 0 \/ Held("outW"))
    /\ parentFd' = Close(parentFd, child_stdout)
    /\ child_stdout' = -1
    /\ pc' = "select"
    /\ UNCHANGED <<child_stdin, communicate, result, pipes, childVars>>

\* The loop is over; the child did not finish reading before it closed its
\* output, if its input is still open.
LeaveLoop ==
    /\ pc = "select" /\ child_stdout = -1
    /\ IF child_stdin # -1
       THEN parentFd' = Close(parentFd, child_stdin) /\ child_stdin' = -1
       ELSE UNCHANGED <<parentFd, child_stdin>>
    /\ pc' = "wait"
    /\ UNCHANGED <<child_stdout, communicate, cut, result, pipes, childVars>>

\* Mutant: the output is looked at before the exit status.
WaitReturnsParse ==
    /\ pc = "wait" /\ child = "exited"
    /\ result' = IF output_data \in ParseableAt THEN "ok" ELSE "unparseable"
    /\ pc' = "done"
    /\ UNCHANGED <<parentFd, child_stdin, child_stdout, communicate, cut, pipes, childVars>>

\* waitpid, tried again when interrupted; then the exit status decides, and
\* only then the output is looked at.
WaitReturns ==
    /\ pc = "wait" /\ child = "exited"
    /\ result' = CASE wait_status = "nonzero" -> "failed with status"
                   [] wait_status = "signal" -> "killed by signal"
                   [] output_data \notin ParseableAt -> "unparseable"
                   [] OTHER -> "ok"
    /\ pc' = "done"
    /\ UNCHANGED <<parentFd, child_stdin, child_stdout, communicate, cut, pipes, childVars>>

-----------------------------------------------------------------------------
(* The plugin.  PluginMain reads to the end of its input, generates, writes  *)
(* one response and returns 0, or 1 at any of its errors; a plugin that is   *)
(* written otherwise may also write early, close either pipe or just exit.     *)

ChildReads ==
    /\ child = "running" /\ childLeft = 0 /\ childFd[0] = "inR"
    /\ \E n \in 1..inPipe : childRead' = childRead + n /\ inPipe' = inPipe - n
    /\ UNCHANGED <<parentVars, outPipe, readsFirst, child, childFd, wait_status, childWrote,
                   childLeft, sawEof>>

ChildSeesEof ==
    /\ child = "running" /\ childLeft = 0 /\ childFd[0] = "inR"
    /\ inPipe = 0 /\ ~Held("inW")
    /\ sawEof' = TRUE
    /\ UNCHANGED <<parentVars, pipes, readsFirst, child, childFd, wait_status, childRead,
                   childWrote, childLeft>>

ChildBeginsWrite ==
    /\ child = "running" /\ childLeft = 0 /\ childFd[1] = "outW"
    /\ childWrote < OutputLen
    /\ readsFirst => sawEof
    /\ childLeft' = OutputLen - childWrote
    /\ UNCHANGED <<parentVars, pipes, readsFirst, child, childFd, wait_status, childRead,
                   childWrote, sawEof>>

ChildWrites ==
    /\ child = "running" /\ childLeft > 0 /\ Held("outR")
    /\ \E n \in 1..Smaller(childLeft, Capacity - outPipe) :
         /\ outPipe' = outPipe + n
         /\ childWrote' = childWrote + n
         /\ childLeft' = childLeft - n
    /\ UNCHANGED <<parentVars, inPipe, readsFirst, child, childFd, wait_status, childRead,
                   sawEof>>

Dies(how) ==
    /\ child' = "exited" /\ wait_status' = how /\ childFd' = NoFds /\ childLeft' = 0
    /\ UNCHANGED <<parentVars, pipes, readsFirst, childRead, childWrote, sawEof>>

\* SIGPIPE is the child's own affair: only the parent ignores it.
ChildBrokenPipe == child = "running" /\ childLeft > 0 /\ ~Held("outR") /\ Dies("signal")

ChildReturns ==
    /\ child = "running" /\ childLeft = 0
    /\ readsFirst => sawEof /\ childWrote = OutputLen
    /\ Dies("zero")

ChildFails == child = "running" /\ childLeft = 0 /\ Dies("nonzero")

ChildKilled == child = "running" /\ Dies("signal")

ChildCloses(f) ==
    /\ child = "running" /\ childLeft = 0 /\ ~readsFirst /\ childFd[f] \in Ends
    /\ childFd' = Close(childFd, f)
    /\ UNCHANGED <<parentVars, pipes, readsFirst, child, wait_status, childRead, childWrote,
                   childLeft, sawEof>>

-----------------------------------------------------------------------------

ParentStep == \/ Fork \/ ParentCloses \/ Select \/ WriteSome \/ WriteReturns
              \/ ReadSome \/ ReadEnds \/ LeaveLoop \/ WaitReturns

ChildRuns == \/ ChildExecs \/ ChildReads \/ ChildSeesEof \/ ChildBeginsWrite \/ ChildWrites
             \/ ChildBrokenPipe \/ ChildReturns

Finished == pc = "done" /\ UNCHANGED pipeVars

PipeNext == ParentStep \/ ChildRuns \/ ChildFails \/ ChildKilled \/ Finished
        \/ \E f \in {0, 1} : ChildCloses(f)

\* What the parent does when no signal comes: write() and read() end of
\* themselves.
Uninterrupted ==
    \/ Fork \/ ParentCloses \/ Select \/ WriteSome
    \/ WriteReturns /\ (input_pos + sent = InputLen \/ ~Held("inR"))
    \/ ReadSome
    \/ ReadEnds /\ outPipe = 0 /\ ~Held("outW")
    \/ LeaveLoop \/ WaitReturns

\* Two processes that the system runs; no signal has to come.  A plugin that
\* waits for nothing goes on: with its input read, it writes or returns.
PipeFairness == WF_pipeVars(Uninterrupted) /\ WF_pipeVars(ChildRuns)

PipeSpec == PipeInit /\ [][PipeNext]_pipeVars /\ PipeFairness

-----------------------------------------------------------------------------

\* Communicate returns true only for a plugin that exited with 0, and then has
\* all that the plugin wrote: an exit status that comes after the last byte, or
\* bytes that come after select saw none, change nothing.  The exception is a
\* call that a signal cut.
SuccessIsWhole ==
    result = "ok" /\ ~cut => wait_status = "zero" /\ output_data = childWrote /\ outPipe = 0

\* The plugin finds its pipes at descriptors 0 and 1, and holds no other end
\* of either, which would keep it from seeing the end of its input.
PluginHasPipes ==
    child = "running" /\ readsFirst =>
      /\ childFd[0] = "inR" /\ childFd[1] = "outW"
      /\ \A f \in Fds \ {0, 1} : childFd[f] \notin Ends

\* Parent and plugin never wait for each other to read: "All this is done
\* carefully to avoid deadlocks" (subprocess.h).
NoStandoff ==
    ~ /\ pc = "write" /\ input_pos + sent < InputLen /\ inPipe = Capacity
      /\ childLeft > 0 /\ outPipe = Capacity

\* Communicate returns, if the plugin reads its input before it writes.
CommunicateReturns == readsFirst => <>(pc = "done")
=============================================================================
