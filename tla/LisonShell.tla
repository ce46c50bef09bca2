----------------------------- MODULE LisonShell -----------------------------
(***************************************************************************)
(* The shell of p4 with the processes it forks.  A line is split into a    *)
(* sequence of commands and operators that run_sequence walks through: it  *)
(* forks a process for each command and waits for a child before it goes   *)
(* on.  SIGCHLD runs a handler that reaps children too, a background line  *)
(* runs in a forked copy of the shell, and a child whose exec fails goes   *)
(* on as a copy of the shell; so all processes are records of one kind.    *)
(*                                                                         *)
(* Lines are given as tokens.  Redirection to files, the characters of a   *)
(* line and what is printed are left out; a program is known by what it    *)
(* writes and reads through a pipe and by its exit code.                   *)
(***************************************************************************)
EXTENDS Integers, Sequences, FiniteSets, SequencesExt

CONSTANTS
    Scripts,   \* what standard input may hold: sequences of lines
    Program,   \* names of programs that exist,
    Code,      \* Code[w]: their exit codes,
    Writes,    \* Writes[w]: the units they write to standard output,
    Readers,   \* those that read standard input up to its end
    Capacity,  \* the units a pipe holds
    MaxPid,    \* bounds of the model: the processes
    MaxPipe    \* and the pipes it has room for

Operator == {"|", "||", "&&", "&"}  \* is_operator, which leaves ";" out

ASSUME ShellAssumption ==
    /\ Program \cap Operator = {} /\ Readers \subseteq Program
    /\ Code \in [Program -> Nat] /\ Writes \in [Program -> Nat]
    /\ Capacity \in Nat \ {0} /\ MaxPid \in Nat \ {0} /\ MaxPipe \in Nat
    /\ Scripts \subseteq Seq(Seq(STRING))
    /\ \A s \in Scripts : \A i \in 1 .. Len(s) : s[i] # <<>> => Last(s[i]) # "|"

VARIABLES
    script,   \* the lines, all of them in the buffer of std::cin
    proc,     \* proc[p]: the process numbered p
    data,     \* data[k]: units in pipe k
    pipes,    \* pipes made so far
    signalled \* SIGINT has been sent to the shell

vars == <<script, proc, data, pipes, signalled>>

Pid   == 1 .. MaxPid
Shell == 1
Ends  == (1 .. MaxPipe) \X {"r", "w"}
NotExited == -2  \* a status that is not WIFEXITED: -1, or killed by a signal
NoCode    == -1  \* exit_code before the first command

\* A process: where it is in its code, its parent (0: init), the lines read,
\* the sequence it walks through, exit_code, the child forked last,
\* child_processes, open pipe ends, output not yet written, signals that
\* are pending, whether it is a background copy, and how it ended.
Unborn == [at |-> "unborn", parent |-> 0, line |-> 0, items |-> <<>>, pos |-> 1,
           code |-> NoCode, last |-> 0, kids |-> {}, holds |-> {}, left |-> 0,
           chld |-> FALSE, int |-> FALSE, back |-> FALSE, exit |-> 0]

Ended      == {"zombie", "gone"}
ShellCode  == {"line", "step", "forked", "wait", "born"}
Alive(p)   == proc[p].at \notin Ended \cup {"unborn"}
Child(p)   == {q \in Pid : proc[q].parent = p /\ proc[q].at \notin {"unborn", "gone"}}
Zombies(p) == {q \in Child(p) : proc[q].at = "zombie"}
Fresh      == 1 + Cardinality({p \in Pid : proc[p].at # "unborn"})
Holders(e) == {p \in Pid : e \in proc[p].holds}
Item(p)    == proc[p].items[proc[p].pos]
AtItem(p)  == proc[p].at = "step" /\ proc[p].pos <= Len(proc[p].items)
Word(p)    == Head(Item(p).words)
Exists(p)  == Item(p).words # <<>> /\ Word(p) \in Program

Init ==
    /\ script \in Scripts
    /\ proc = [p \in Pid |-> IF p = Shell THEN [Unborn EXCEPT !.at = "line"] ELSE Unborn]
    /\ data = [k \in 1 .. MaxPipe |-> 0]
    /\ pipes = 0
    /\ signalled = FALSE
-----------------------------------------------------------------------------
(* build_command_sequence                                                  *)

CommandItem(words) == [op |-> "cmd", words |-> words, in |-> 0, out |-> 0]
OperItem(name)     == [op |-> name, words |-> <<>>, in |-> 0, out |-> 0]

\* Every operator closes the command before it, if need be an empty one.
Collect(acc, token) ==
    IF token \in Operator
    THEN [items |-> acc.items \o <<CommandItem(acc.words), OperItem(token)>>, words |-> <<>>]
    ELSE [acc EXCEPT !.words = Append(@, token)]

Items(tokens) ==
    LET acc == FoldLeft(Collect, [items |-> <<>>, words |-> <<>>], tokens)
    IN  acc.items \o (IF acc.words = <<>> THEN <<>> ELSE <<CommandItem(acc.words)>>)

\* The test of execute_line: an "&" before the end only separates commands.
Background(items) == items # <<>> /\ Last(items).op = "&"

\* The second loop: one pipe for each "|", numbered from n + 1.
PipeAt(items, i, n) == n + Cardinality({j \in 1 .. i : items[j].op = "|"})
Pipelines(items)    == {i \in 1 .. Len(items) : items[i].op = "|"}

WithPipes(items, n) ==
    [i \in 1 .. Len(items) |->
        [items[i] EXCEPT
            !.in  = IF i - 1 \in Pipelines(items) THEN PipeAt(items, i - 1, n) ELSE 0,
            !.out = IF i + 1 \in Pipelines(items) THEN PipeAt(items, i + 1, n) ELSE 0]]

(* Mutant: the shell does not close the end it redirected output to.       *)
UsedToRead(item) == {<<item.in, "r">>}

\* The ends a command uses, and other_side_of_pipe_fd, which redirect_stdout
\* sets after redirect_stdin.
Used(item)  == {<<item.in, "r">>, <<item.out, "w">>}
Other(item) == IF item.out # 0 THEN {<<item.out, "r">>} ELSE {<<item.in, "w">>}
-----------------------------------------------------------------------------
(* Processes come and go (external: the kernel).                           *)

\* fork: the child is a copy without pending signals.
Fork(p, parent, child) ==
    /\ Fresh \in Pid
    /\ proc' = [proc EXCEPT ![p] = parent,
                            ![Fresh] = [child EXCEPT !.parent = p, !.chld = FALSE,
                                                     !.int = FALSE]]

\* A process after its own end, which closes its ends, and after its parent's.
Dead(r, status) ==
    [r EXCEPT !.at = IF r.parent # 0 THEN "zombie" ELSE "gone", !.exit = status,
              !.holds = {}, !.kids = {}, !.chld = FALSE, !.int = FALSE]
Orphan(r) == [r EXCEPT !.parent = 0, !.at = IF @ = "zombie" THEN "gone" ELSE @]

\* The processes f after p has ended: its parent gets SIGCHLD.
AfterEnd(f, p, status) ==
    [q \in Pid |-> IF q = p THEN Dead(f[q], status)
                   ELSE IF q = f[p].parent THEN [f[q] EXCEPT !.chld = TRUE]
                   ELSE IF f[q].parent = p THEN Orphan(f[q]) ELSE f[q]]

End(p, status) == proc' = AfterEnd(proc, p, status)
-----------------------------------------------------------------------------
(* main, execute_line, run_sequence                                        *)

\* A line is read and its pipes are made, in the shell even for a line that
\* runs in the background.
ReadLine(p) ==
    /\ proc[p].at = "line" /\ proc[p].line < Len(script)
    /\ LET items == Items(script[proc[p].line + 1])
           n     == Cardinality(Pipelines(items))
           read  == [proc[p] EXCEPT !.line = @ + 1,
                        !.holds = @ \cup (((pipes + 1) .. (pipes + n)) \X {"r", "w"})]
           runs  == [read EXCEPT !.at = "step", !.items = WithPipes(items, pipes), !.pos = 1,
                                 !.code = NoCode]
       IN  /\ pipes + n <= MaxPipe /\ pipes' = pipes + n
           /\ IF items = <<>> THEN proc' = [proc EXCEPT ![p] = read]
              ELSE IF Background(items) THEN Fork(p, read, [runs EXCEPT !.back = TRUE])
              ELSE proc' = [proc EXCEPT ![p] = runs]
    /\ UNCHANGED <<script, data, signalled>>

\* The end of the input ends main.
Quit(p) ==
    /\ proc[p].at = "line" /\ proc[p].line = Len(script)
    /\ End(p, 0)
    /\ UNCHANGED <<script, data, pipes, signalled>>

\* run_sequence at an operator: go on, or break.
Decide(p) ==
    /\ AtItem(p) /\ Item(p).op # "cmd"
    /\ LET break == \/ Item(p).op = "||" /\ proc[p].code = 0
                    \/ Item(p).op = "&&" /\ proc[p].code # 0
       IN  proc' = [proc EXCEPT ![p].pos = IF break THEN Len(proc[p].items) + 1 ELSE @ + 1]
    /\ UNCHANGED <<script, data, pipes, signalled>>

\* The sequence is over; a background copy exits with 0 whatever happened.
SequenceOver(p) ==
    /\ proc[p].at = "step" /\ proc[p].pos > Len(proc[p].items)
    /\ IF proc[p].back THEN End(p, 0) ELSE proc' = [proc EXCEPT ![p].at = "line"]
    /\ UNCHANGED <<script, data, pipes, signalled>>
-----------------------------------------------------------------------------
(* CommandItem::run                                                        *)

Run(p) ==
    /\ AtItem(p) /\ Item(p).op = "cmd"
    /\ Fork(p, [proc[p] EXCEPT !.at = "forked", !.last = Fresh], [proc[p] EXCEPT !.at = "born"])
    /\ UNCHANGED <<script, data, pipes, signalled>>

\* The parent notes the child, closes its ends of the command's pipes, and
\* enters wait.
Register(p) ==
    /\ proc[p].at = "forked"
    /\ proc' = [proc EXCEPT ![p].at = "wait", ![p].kids = @ \cup {proc[p].last},
                            ![p].holds = @ \ Used(Item(p))]
    /\ UNCHANGED <<script, data, pipes, signalled>>

(* Mutant: a status that is no exit code is a failure.                     *)
GetExitCodeOne(status) == IF status = NotExited THEN 1 ELSE status

GetExitCode(status) == IF status = NotExited THEN 0 ELSE status

\* run returns with some child's status, or without one if there is no child.
Return(p, status, reaped) ==
    proc' = [q \in Pid |->
        IF q = p THEN [proc[q] EXCEPT !.at = "step", !.pos = @ + 1, !.kids = @ \ reaped,
                                      !.code = GetExitCode(status)]
        ELSE IF q \in reaped THEN [proc[q] EXCEPT !.at = "gone"] ELSE proc[q]]

(* Mutant: wait does not block.                                            *)
NothingYet(p) == Zombies(p) = {}

Nothing(p) == Child(p) = {}

Wait(p) ==
    /\ proc[p].at = "wait"
    /\ \/ \E z \in Zombies(p) : Return(p, proc[z].exit, {z})
       \/ Nothing(p) /\ Return(p, NotExited, {})  \* status is not set
    /\ UNCHANGED <<script, data, pipes, signalled>>

\* The child closes the other side of its pipe and becomes the program; if
\* there is no such program it returns from run with status -1.
Exec(p) ==
    /\ proc[p].at = "born"
    /\ LET copy == [proc[p] EXCEPT !.holds = @ \ Other(Item(p))]
       IN  proc' = [proc EXCEPT ![p] =
            IF Exists(p)
            THEN [copy EXCEPT !.at = "runs", !.left = Writes[Word(p)], !.kids = {}]
            ELSE [copy EXCEPT !.at = "step", !.pos = @ + 1, !.code = GetExitCode(NotExited)]]
    /\ UNCHANGED <<script, data, pipes, signalled>>
-----------------------------------------------------------------------------
(* Programs (external).                                                    *)

\* Output to the terminal is taken at once; a pipe has room, is full, or has
\* no reader left, which is SIGPIPE.
Write(p) ==
    /\ proc[p].at = "runs" /\ proc[p].left > 0
    /\ LET k == Item(p).out
       IN  \/ k = 0 /\ proc' = [proc EXCEPT ![p].left = 0] /\ UNCHANGED data
           \/ /\ k # 0 /\ Holders(<<k, "r">>) # {} /\ data[k] < Capacity
              /\ proc' = [proc EXCEPT ![p].left = @ - 1]
              /\ data' = [data EXCEPT ![k] = @ + 1]
           \/ k # 0 /\ Holders(<<k, "r">>) = {} /\ End(p, NotExited) /\ UNCHANGED data
    /\ UNCHANGED <<script, pipes, signalled>>

Reads(p) == Word(p) \in Readers /\ Item(p).in # 0

Read(p) ==
    /\ proc[p].at = "runs" /\ Reads(p) /\ data[Item(p).in] > 0
    /\ data' = [data EXCEPT ![Item(p).in] = @ - 1]
    /\ UNCHANGED <<script, proc, pipes, signalled>>

Finish(p) ==
    /\ proc[p].at = "runs" /\ proc[p].left = 0
    /\ Reads(p) => data[Item(p).in] = 0 /\ Holders(<<Item(p).in, "w">>) = {}
    /\ End(p, Code[Word(p)])
    /\ UNCHANGED <<script, data, pipes, signalled>>
-----------------------------------------------------------------------------
(* Signals                                                                 *)

(* Mutant: one child for one signal.                                       *)
CollectedOne(p) ==
    IF Zombies(p) = {} THEN {} ELSE {CHOOSE q \in Zombies(p) : TRUE}

Collected(p) == Zombies(p)  \* the loop over wait3 with WNOHANG

\* child_end_handler reaps all there is.  A blocked wait that finds a child
\* takes it before the handler runs.
ChildEndHandler(p) ==
    /\ proc[p].chld /\ proc[p].at \in ShellCode
    /\ proc[p].at = "wait" => Zombies(p) = {}
    /\ proc' = [q \in Pid |->
            IF q = p THEN [proc[q] EXCEPT !.chld = FALSE]
            ELSE IF q \in Collected(p) THEN [proc[q] EXCEPT !.at = "gone"] ELSE proc[q]]
    /\ UNCHANGED <<script, data, pipes, signalled>>

\* Somebody sends SIGINT to the shell.
Interrupt ==
    /\ ~signalled /\ Alive(Shell)
    /\ signalled' = TRUE
    /\ proc' = [proc EXCEPT ![Shell].int = TRUE]
    /\ UNCHANGED <<script, data, pipes>>

\* SIGINT ends a program.  A shell passes it on to child_processes; every
\* copy of the shell then exits.
InterruptHandler(p) ==
    /\ proc[p].int
    /\ LET passed == [q \in Pid |-> IF q \in proc[p].kids /\ Alive(q)
                                    THEN [proc[q] EXCEPT !.int = TRUE] ELSE proc[q]]
       IN  IF proc[p].at = "runs" THEN End(p, NotExited)
           ELSE IF p # Shell THEN proc' = AfterEnd(passed, p, 1)
           ELSE proc' = [passed EXCEPT ![p].int = FALSE]
    /\ UNCHANGED <<script, data, pipes, signalled>>
-----------------------------------------------------------------------------
ProgramStep(p) == Write(p) \/ Read(p) \/ Finish(p)

Step(p) ==
    \/ ReadLine(p) \/ Quit(p) \/ Decide(p) \/ SequenceOver(p)
    \/ Run(p) \/ Register(p) \/ Wait(p) \/ Exec(p) \/ ProgramStep(p)

Signals(p) == ChildEndHandler(p) \/ InterruptHandler(p)

System == \E p \in Pid : Step(p) \/ Signals(p)

Next == Interrupt \/ System

\* The machine goes on as long as some process can; that is all it takes, since
\* an input is finite.  Nobody need press ^C.
Spec == Init /\ [][Next]_vars /\ WF_vars(System)
-----------------------------------------------------------------------------
(* Properties                                                              *)

NoBackground == \A i \in 1 .. Len(script) : ~Background(Items(script[i]))

\* Without background lines the commands of a shell run one after the other:
\* whoever reaps a child, wait does not return before it has ended.
OneAtATime ==
    NoBackground => \A p \in Pid : proc[p].at \in {"line", "step"} =>
        \A q \in Child(p) : proc[q].at = "zombie"

\* Without background lines a failure is never made up: the handler may take
\* the status from wait (CommandItem.cpp:79), which makes a failure look like a
\* success, but a nonzero exit_code is that of the command run last.
FailureIsReal ==
    NoBackground => \A p \in Pid : proc[p].at = "step" /\ proc[p].code > 0 =>
        \E q \in Pid : q = proc[p].last /\ proc[q].at = "gone" /\ proc[q].exit = proc[p].code

\* exit_code is that of the command before the operator: what tests/3.sh
\* and the operators && and || of LisonShell.cpp:64 are about.
CodesAreTheirs ==
    \A p \in Pid : AtItem(p) /\ Item(p).op \in {"&&", "||"} /\ proc[p].last # 0 =>
        LET q == proc[p].last IN
        proc[q].at \in Ended /\ GetExitCode(proc[q].exit) = proc[p].code

\* Whoever has a child that has ended will run the handler or is running it,
\* though several ends raise one SIGCHLD, some children are reaped by wait, and
\* a fork in between clears the child's signals: nobody stays a zombie.
NoZombieIsForgotten ==
    \A q \in Pid : proc[q].at = "zombie" => proc[proc[q].parent].chld

\* A command that is piped into another is over before the other starts, so
\* that its output must fit the pipe; a background line leaves the writing
\* end open in the shell (LisonShell.cpp:90, 96), a missing program leaves it
\* open in the copy of the shell it becomes.
Piped(line) == "|" \in Range(line)
Fits(line)  == \A i \in 1 .. Len(line) :
    line[i] \notin Operator => line[i] \in Program /\ Writes[line[i]] <= Capacity
Sound == \A i \in 1 .. Len(script) :
    Piped(script[i]) => Fits(script[i]) /\ "&" \notin Range(script[i])

\* The shell gets through its input.
SessionEnds == Sound => <>(proc[Shell].at = "gone")
=============================================================================
