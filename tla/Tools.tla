------------------------------- MODULE Tools -------------------------------
(***************************************************************************)
(* One call of a tool by the agent loop: execute of                        *)
(* src/src-tauri/src/tools/mod.rs.  A turn makes one call at a time, and   *)
(* the calls of two turns share nothing but the folder, so the calls here  *)
(* follow one another.  The calculator and the file tools answer at once;  *)
(* a program, a search and a fetched page take their time.                 *)
(***************************************************************************)
EXTENDS Integers, ReadPath

CONSTANTS
    Expressions,\* what the calculator is asked,
    Calc(_),    \* and what it says: Eval of Calculator
    Names,      \* names a file may have
    MaxRead,    \* MAX_READ_BYTES, and one size stands for all beyond it
    PipeSize,   \* what a pipe of the operating system holds
    OutCap,     \* OUT_CAP: what is kept of each stream
    MaxPrint,   \* bound: what a program prints to each stream
    MaxHops,    \* redirects a fetch follows,
    MaxFollowed \* and the HTTP client of a search by itself

Outcomes == {"refused", "answered", "unstaged", "unlaunched", "output", "timeout", "searched",
             "failed", "fetched"}

ASSUME ToolsAssumption ==
    /\ \A name \in Names : name # None /\ name # <<>> /\ name \in Seq(DOMAIN Lower)
    /\ IsFiniteSet(Names)
    /\ MaxRead \in Nat /\ PipeSize \in Nat \ {0}
    /\ OutCap \in Nat /\ MaxPrint \in Nat /\ MaxHops \in Nat /\ MaxFollowed \in Nat
    /\ None \notin Outcomes /\ None \notin {"out", "err"}

Streams == {"out", "err"}

VARIABLES
    phase,      \* where the call is
    end,        \* what became of it, or None
    asked,      \* the arguments of a call that answers at once,
    answer,     \* and its answer, or what the answer has of each stream of a program
    script,     \* the program's file is in the temporary directory
    child,      \* the process that runs it
    helper,     \* a process of its own that it left behind, with both its streams
    hung,       \* it goes on without printing, or waits for ever
    wants,      \* the stream it is about to print to, or None
    pipe,       \* printed and not yet read
    printed,    \* all it printed
    kept,       \* read and kept
    eof,        \* streams read to their end
    hops,       \* redirects followed
    sent,       \* requests made
    logged      \* rows added to the network log

process == <<script, child, helper, hung, wants, pipe, printed, kept, eof>>
net == <<hops, sent, logged>>
pure == <<asked, answer>>
toolVars == <<phase, end, pure, process, net>>

Zero == [s \in Streams |-> 0]

ToolsInit ==
    /\ phase = "idle" /\ end = None /\ asked = None /\ answer = None
    /\ script = FALSE /\ child = "none" /\ helper = FALSE /\ hung = FALSE
    /\ wants = None /\ pipe = Zero /\ printed = Zero /\ kept = Zero /\ eof = {}
    /\ hops = 0 /\ sent = 0 /\ logged = 0

Ends(what) == phase' = "over" /\ end' = what

\* The next call finds nothing of this one but what it left behind.
Another ==
    /\ phase = "over"
    /\ phase' = "idle" /\ end' = None /\ asked' = None /\ answer' = None
    /\ script' = FALSE /\ child' = "none" /\ helper' = FALSE /\ hung' = FALSE
    /\ wants' = None /\ pipe' = Zero /\ printed' = Zero /\ kept' = Zero /\ eof' = {}
    /\ hops' = 0 /\ sent' = 0 /\ logged' = 0

\* An unknown tool, an argument missing, no folder, no web: an error at once.
BadCall ==
    /\ phase = "idle" /\ Ends("refused")
    /\ UNCHANGED <<pure, process, net>>

----------------------------------------------------------------------------
(* Tools that answer at once.                                              *)

Answers(arguments, a) ==
    /\ phase = "idle" /\ Ends("answered")
    /\ asked' = arguments /\ answer' = a
    /\ UNCHANGED <<process, net>>

Calculate(e) == Answers([tool |-> "calculator", expr |-> e], Calc(e))

\* read_file: a text is cut at MaxRead; a PDF is extracted, and so is what is called one;
\* what has a zero byte in what is kept, no text, or no sense is an error.
File == [kind: {"text", "binary", "pdf", "scan", "broken"}, size: 0..MaxRead + 1]

NoContent == [ok |-> FALSE, bytes |-> 0, cut |-> FALSE]

Content(f) ==
    IF f.kind \in {"text", "pdf"}
    THEN [ok |-> TRUE, bytes |-> IF f.size > MaxRead THEN MaxRead ELSE f.size,
          cut |-> f.size > MaxRead]
    ELSE NoContent

ReadFile(want, names, f) ==
    LET name == Resolve(want, names)
    IN Answers([tool |-> "read_file", want |-> want, names |-> names, file |-> f],
               [name |-> name, content |-> IF name = None THEN NoContent ELSE Content(f)])

----------------------------------------------------------------------------
(* The code interpreter: run_code and the two reads of read_capped_pipe.   *)

\* The program is written to a file; if that fails, what was written stays.
Stage ==
    /\ phase = "idle" /\ phase' = "staged" /\ script' = TRUE
    /\ UNCHANGED <<end, pure, child, helper, hung, wants, pipe, printed, kept, eof, net>>

StageFails ==
    /\ phase = "idle" /\ Ends("unstaged")
    /\ script' \in BOOLEAN
    /\ UNCHANGED <<pure, child, helper, hung, wants, pipe, printed, kept, eof, net>>

Launch ==
    /\ phase = "staged" /\ phase' = "running" /\ child' = "alive"
    /\ UNCHANGED <<end, pure, script, helper, hung, wants, pipe, printed, kept, eof, net>>

LaunchFails ==
    /\ phase = "staged" /\ Ends("unlaunched")
    /\ script' = FALSE
    /\ UNCHANGED <<pure, child, helper, hung, wants, pipe, printed, kept, eof, net>>

\* The program prints, and waits while the pipe it prints to is full.
Working == child = "alive" /\ ~hung

Wants(s) ==
    /\ Working /\ wants = None /\ printed[s] < MaxPrint
    /\ wants' = s
    /\ UNCHANGED <<phase, end, pure, script, child, helper, hung, pipe, printed, kept, eof, net>>

Prints(s) ==
    /\ Working /\ wants = s /\ pipe[s] < PipeSize
    /\ wants' = None
    /\ pipe' = [pipe EXCEPT ![s] = @ + 1] /\ printed' = [printed EXCEPT ![s] = @ + 1]
    /\ UNCHANGED <<phase, end, pure, script, child, helper, hung, kept, eof, net>>

Hangs ==
    /\ Working /\ wants = None /\ hung' = TRUE
    /\ UNCHANGED <<phase, end, pure, script, child, helper, wants, pipe, printed, kept, eof, net>>

Forks ==
    /\ Working /\ wants = None /\ helper' = TRUE
    /\ UNCHANGED <<phase, end, pure, script, child, hung, wants, pipe, printed, kept, eof, net>>

Exits ==
    /\ Working /\ wants = None /\ child' = "exited"
    /\ UNCHANGED <<phase, end, pure, script, helper, hung, wants, pipe, printed, kept, eof, net>>

HelperEnds ==
    /\ helper /\ helper' = FALSE
    /\ UNCHANGED <<phase, end, pure, script, child, hung, wants, pipe, printed, kept, eof, net>>

\* (Mutant: a chunk that does not fit is dropped.)
TakeWhole(s, n) == IF kept[s] + n <= OutCap THEN n ELSE 0

\* Past the cap the stream is still read, and thrown away.
Take(s, n) == IF kept[s] + n <= OutCap THEN n ELSE OutCap - kept[s]

\* (Mutant: standard error is read when standard output has ended.)
DrainInOrder(s, n) ==
    /\ phase = "running" /\ n <= pipe[s] /\ (s = "err" => "out" \in eof)
    /\ pipe' = [pipe EXCEPT ![s] = @ - n] /\ kept' = [kept EXCEPT ![s] = @ + Take(s, n)]
    /\ UNCHANGED <<phase, end, pure, script, child, helper, hung, wants, printed, eof, net>>

Drain(s, n) ==
    /\ phase = "running" /\ n <= pipe[s]
    /\ pipe' = [pipe EXCEPT ![s] = @ - n] /\ kept' = [kept EXCEPT ![s] = @ + Take(s, n)]
    /\ UNCHANGED <<phase, end, pure, script, child, helper, hung, wants, printed, eof, net>>

\* A stream ends when no process has it open.
ReachesEnd(s) ==
    /\ phase = "running" /\ s \notin eof
    /\ pipe[s] = 0 /\ child # "alive" /\ ~helper
    /\ eof' = eof \cup {s}
    /\ UNCHANGED <<phase, end, pure, script, child, helper, hung, wants, pipe, printed, kept>>
    /\ UNCHANGED net

\* A stream of which only white space was kept is left out of the answer, and one that
\* reached the cap is marked: "[stdout truncated]".
Told(blank) ==
    [s \in Streams |->
        IF s \in blank THEN "nothing" ELSE IF kept[s] >= OutCap THEN "cut" ELSE "all"]

\* Both streams have ended and the program has: its output.
Finish ==
    /\ phase = "running" /\ eof = Streams /\ child = "exited"
    /\ Ends("output") /\ script' = FALSE
    /\ \E blank \in SUBSET Streams :
          {s \in Streams : kept[s] = 0} \subseteq blank /\ answer' = Told(blank)
    /\ UNCHANGED <<asked, child, helper, hung, wants, pipe, printed, kept, eof, net>>

\* (Mutant: the process is left to itself.)
TimeoutSpares ==
    /\ phase = "running" /\ Ends("timeout") /\ script' = FALSE
    /\ UNCHANGED <<pure, child, helper, hung, wants, pipe, printed, kept, eof, net>>

\* 30 seconds: the process is killed, and what it left behind is not.
Timeout ==
    /\ phase = "running" /\ Ends("timeout") /\ script' = FALSE
    /\ child' = "exited"
    /\ UNCHANGED <<pure, helper, hung, wants, pipe, printed, kept, eof, net>>

----------------------------------------------------------------------------
(* The web: web_search and fetch_url.                                      *)

Goes(to) == phase' = to /\ UNCHANGED end

Logs == logged' = logged + 1

Search ==
    /\ phase = "idle" /\ Goes("searching") /\ sent' = 1
    /\ UNCHANGED <<pure, process, hops, logged>>

\* The client of a search follows redirects unseen.
SearchRedirected ==
    /\ phase = "searching" /\ sent <= MaxFollowed
    /\ sent' = sent + 1
    /\ UNCHANGED <<phase, end, pure, process, hops, logged>>

\* The results, or a failure at any point: one row.
Searched ==
    /\ phase = "searching" /\ Ends("searched") /\ Logs
    /\ UNCHANGED <<pure, process, hops, sent>>

Fetch ==
    /\ phase = "idle" /\ Goes("vetting")
    /\ UNCHANGED <<pure, process, net>>

\* The address is not one to ask, or there is none: nothing is sent, nothing logged.
Refuses ==
    /\ phase = "vetting" /\ Ends("refused")
    /\ UNCHANGED <<pure, process, net>>

Asks ==
    /\ phase = "vetting" /\ Goes("waiting") /\ sent' = sent + 1
    /\ UNCHANGED <<pure, process, hops, logged>>

\* (Mutant: a redirect is followed before it is logged.)
RedirectsSilently ==
    /\ phase = "waiting"
    /\ IF hops >= MaxHops THEN Logs /\ Ends("failed") /\ UNCHANGED hops
       ELSE hops' = hops + 1 /\ Goes("vetting") /\ UNCHANGED logged
    /\ UNCHANGED <<pure, process, sent>>

\* A redirect is logged; one too many ends the call, and so does one that leads nowhere.
Redirects ==
    /\ phase = "waiting" /\ Logs
    /\ IF hops >= MaxHops THEN Ends("failed") /\ UNCHANGED hops
       ELSE hops' = hops + 1 /\ Goes("vetting")
    /\ UNCHANGED <<pure, process, sent>>

\* No answer, a redirect that leads nowhere, the page, or the page broken off.
Fetched ==
    /\ phase = "waiting" /\ Logs
    /\ \E what \in {"failed", "fetched"} : Ends(what)
    /\ UNCHANGED <<pure, process, hops, sent>>

----------------------------------------------------------------------------
AtOnce ==
    \/ BadCall
    \/ \E e \in Expressions : Calculate(e)
    \/ \E want \in Names, names \in SUBSET Names, f \in File : ReadFile(want, names, f)

Program ==
    \/ \E s \in Streams : Wants(s) \/ Prints(s)
    \/ Hangs \/ Forks \/ Exits

Reading ==
    \/ \E s \in Streams : ReachesEnd(s) \/ \E n \in 1..PipeSize : Drain(s, n)
    \/ Finish

Web == SearchRedirected \/ Searched \/ Refuses \/ Asks \/ Redirects \/ Fetched

ToolsNext ==
    \/ Another \/ AtOnce
    \/ Stage \/ StageFails \/ Launch \/ LaunchFails \/ Program \/ HelperEnds \/ Reading \/ Timeout
    \/ Search \/ Fetch \/ Web

\* Both streams are read, a program that does not hang goes on, requests time out (20 s);
\* of the 30 seconds nothing is assumed but that they end a call whose program hangs or
\* has left its streams to another process.
ToolsFairness ==
    /\ WF_toolVars(Launch \/ LaunchFails) /\ WF_toolVars(Web) /\ WF_toolVars(Finish)
    /\ WF_toolVars(Wants("out") \/ Wants("err") \/ Prints("out") \/ Prints("err") \/ Exits)
    /\ \A s \in Streams : WF_toolVars(ReachesEnd(s) \/ \E n \in 1..PipeSize : Drain(s, n))
    /\ WF_toolVars((hung \/ helper) /\ Timeout)

ToolsSpec == ToolsInit /\ [][ToolsNext]_toolVars /\ ToolsFairness

----------------------------------------------------------------------------
(* Properties.                                                             *)

ToolsTypeOK ==
    /\ phase \in {"idle", "staged", "running", "searching", "vetting", "waiting", "over"}
    /\ end \in Outcomes \cup {None}
    /\ (end = None) = (phase # "over")
    /\ script \in BOOLEAN /\ child \in {"none", "alive", "exited"}
    /\ helper \in BOOLEAN /\ hung \in BOOLEAN
    /\ wants \in Streams \cup {None}
    /\ pipe \in [Streams -> 0..PipeSize]
    /\ printed \in [Streams -> 0..MaxPrint] /\ kept \in [Streams -> 0..OutCap]
    /\ eof \subseteq Streams
    /\ hops \in 0..MaxHops /\ sent \in 0..MaxHops + MaxFollowed + 1 /\ logged \in 0..sent

\* read_file reads a file only if it is the one that was meant, and says so if that is
\* not all of it.
ReadsTheFile ==
    asked # None /\ asked.tool = "read_file" =>
        /\ Meant(asked.want, asked.names) =
              IF answer.name = None THEN {} ELSE {answer.name}
        /\ answer.content.ok =>
              answer.content.bytes = asked.file.size \/
              (answer.content.cut /\ answer.content.bytes = MaxRead)

\* However a program ends that was launched, it is not left running, nor its file behind.
NothingLeft ==
    /\ phase = "over" => child # "alive"
    /\ end \in {"unlaunched", "output", "timeout"} => ~script

\* Of a program that ends by itself the beginning of what it printed to each stream is
\* kept, and what the answer gives without a mark is all of it.
OutputTold ==
    end = "output" => \A s \in Streams :
        /\ kept[s] = IF printed[s] <= OutCap THEN printed[s] ELSE OutCap
        /\ answer[s] = "all" => kept[s] = printed[s]

\* "Every hop that actually opens a socket is logged", once, before the next is made; and
\* a fetch makes no more requests than it may follow redirects, and one.  Of a search
\* only the whole is logged.
Searches == phase = "searching" \/ end = "searched"

RequestsLogged ==
    IF Searches THEN logged = IF phase = "over" THEN 1 ELSE 0
    ELSE /\ sent - logged = IF phase = "waiting" THEN 1 ELSE 0
         /\ sent <= MaxHops + 1

\* What the module says of the web tools: "every request flows through the single
\* instrumented client so it lands in the network log".  Not kept: a search that
\* is redirected makes requests that do not.
EveryRequestLogged == phase = "over" => sent = logged

\* A call ends, and none waits for its 30 seconds because nobody reads what its program
\* prints.
CallEnds == phase # "idle" ~> phase = "over"
=============================================================================
