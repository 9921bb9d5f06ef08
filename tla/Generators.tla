----------------------------- MODULE Generators -----------------------------
(***************************************************************************)
(* One generator of the VM (crates/varn-vm/src/generator.rs) with the      *)
(* calls of next and close on it (exec/host/mod.rs) and, when it is an     *)
(* async generator, the tasks that step it (exec/scheduler/drive.rs).      *)
(*                                                                         *)
(* A call on a sync generator runs the body at once, on top of the caller. *)
(* A call on an async one queues a step; a step that awaits is parked with *)
(* the frame of the body and resumed later.  Between two of these moments, *)
(* and from within the body, the program calls next and close again, and   *)
(* cancels the handles of steps.                                           *)
(*                                                                         *)
(* Of the body the model keeps the try blocks it is in, whose finally is   *)
(* still to run, and how it is left.                                       *)
(***************************************************************************)
EXTENDS Naturals, Sequences, FiniteSets

CONSTANTS
    MaxCalls,   \* bound: calls of next and close, numbered as they come
    MaxDepth,   \* bound: nested try blocks
    MaxWork,    \* bound: steps of the body that are not on its way out
    None        \* no call

Calls == 1..MaxCalls

ASSUME GeneratorAssumption == {MaxCalls, MaxDepth, MaxWork} \subseteq Nat /\ None \notin Calls

VARIABLES
    isAsync,
    phase,     \* GenState.phase
    closing,   \* GenState.closing
    open,      \* try blocks whose finally the body has yet to run
    exit,      \* how the body is on its way out: "no", "return", "throw"
    work,      \* steps the body has made
    mounted,   \* the call whose frame of the body is on the stack
    ready,     \* queued steps, fresh or resumed
    parked,    \* steps that await
    call,      \* what each call is: "none", "next" or "close"
    answer,    \* what it was answered
    found,     \* the phase in which a close found the generator
    dropped    \* ways in which a body was dropped with a finally to run

body == <<open, exit, work, mounted>>
state == <<phase, closing>>
tasks == <<ready, parked>>
calls == <<call, answer, found>>
genVars == <<isAsync, state, body, tasks, calls, dropped>>

GenInit ==
    /\ isAsync \in BOOLEAN
    /\ phase = "fresh" /\ closing = FALSE
    /\ open = 0 /\ exit = "no" /\ work = 0 /\ mounted = None
    /\ ready = <<>> /\ parked = {}
    /\ call = [c \in Calls |-> "none"]
    /\ answer = [c \in Calls |-> "none"]
    /\ found = [c \in Calls |-> "none"]
    /\ dropped = {}

Is(c, resumed) == [call |-> c, resumed |-> resumed]
Answers(c, what) == answer' = [answer EXCEPT ![c] = what]

\* enter_generator: input is the signal that the body shall close.
Enter(c, input) ==
    CASE phase = "done" -> Answers(c, "null") /\ UNCHANGED <<phase, exit, mounted>>
      [] phase = "running" -> Answers(c, "busy") /\ UNCHANGED <<phase, exit, mounted>>
      [] phase = "fresh" ->
            /\ phase' = "running" /\ mounted' = c
            /\ Answers(c, "pending") /\ UNCHANGED exit
      [] phase = "suspended" ->
            /\ phase' = "running" /\ mounted' = c
            /\ exit' = IF input THEN "return" ELSE exit
            /\ Answers(c, "pending")

\* The program calls from outside, or the body itself does.
IsNext(c) == call[c] = "none" /\ \A d \in 1..(c - 1) : call[d] # "none"
Within == mounted # None

\* A sync body that is entered again is refused, so the frame below is kept.
Next_(c) ==
    /\ IsNext(c)
    /\ call' = [call EXCEPT ![c] = "next"]
    /\ IF isAsync
       THEN /\ ready' = Append(ready, Is(c, FALSE)) /\ Answers(c, "pending")
            /\ UNCHANGED <<phase, exit, mounted>>
       ELSE Enter(c, FALSE) /\ UNCHANGED ready
    /\ UNCHANGED <<isAsync, closing, open, work, parked, found, dropped>>

\* Variant: whatever the phase, the generator is done at once.
CloseAtOnce(c) ==
    /\ IsNext(c)
    /\ call' = [call EXCEPT ![c] = "close"]
    /\ found' = [found EXCEPT ![c] = phase]
    /\ phase' = "done" /\ Answers(c, "null")
    /\ UNCHANGED <<isAsync, closing, body, tasks, dropped>>

\* close_generator_state and close_async_generator.
Close(c) ==
    /\ IsNext(c)
    /\ call' = [call EXCEPT ![c] = "close"]
    /\ found' = [found EXCEPT ![c] = phase]
    /\ IF phase # "suspended"
       THEN /\ phase' = "done" /\ Answers(c, "null")
            /\ UNCHANGED <<closing, exit, mounted, ready>>
       ELSE IF isAsync
       THEN /\ closing' = TRUE /\ ready' = Append(ready, Is(c, FALSE)) /\ Answers(c, "pending")
            /\ UNCHANGED <<phase, exit, mounted>>
       ELSE Enter(c, TRUE) /\ UNCHANGED <<closing, ready>>
    /\ UNCHANGED <<isAsync, open, work, parked, dropped>>

\* The handle of a step is cancelled, by a timeout say.
CancelStep(c) ==
    /\ isAsync /\ answer[c] = "pending" /\ mounted # c
    /\ Answers(c, "cancelled")
    /\ UNCHANGED <<isAsync, state, body, tasks, call, found, dropped>>

-----------------------------------------------------------------------------
\* Variant: a step of a generator that is done is dropped, its handle forgotten.
RunStepIfAlive ==
    /\ mounted = None /\ ready # <<>>
    /\ ready' = Tail(ready)
    /\ LET step == Head(ready)
       IN  IF answer[step.call] # "pending" \/ phase = "done"
           THEN UNCHANGED <<phase, exit, mounted, answer>>
           ELSE IF step.resumed
           THEN mounted' = step.call /\ UNCHANGED <<phase, exit, answer>>
           ELSE Enter(step.call, closing)
    /\ UNCHANGED <<isAsync, closing, open, work, parked, call, found, dropped>>

\* run_task: a step whose handle is settled is dropped, and so is its frame.
RunStep ==
    /\ mounted = None /\ ready # <<>>
    /\ ready' = Tail(ready)
    /\ LET step == Head(ready)
       IN  IF answer[step.call] # "pending"
           THEN /\ dropped' = IF step.resumed THEN dropped \cup {"cancelled"} ELSE dropped
                /\ UNCHANGED <<phase, exit, mounted, answer>>
           ELSE /\ UNCHANGED dropped
                /\ IF step.resumed
                   THEN mounted' = step.call /\ UNCHANGED <<phase, exit, answer>>
                   ELSE Enter(step.call, closing)
    /\ UNCHANGED <<isAsync, closing, open, work, parked, call, found>>

\* collect_resumes: what a parked step awaits is settled.
WakeStep(c) ==
    /\ mounted = None /\ c \in parked
    /\ parked' = parked \ {c}
    /\ IF answer[c] = "pending"
       THEN ready' = Append(ready, Is(c, TRUE)) /\ UNCHANGED dropped
       ELSE dropped' = dropped \cup {"cancelled"} /\ UNCHANGED ready
    /\ UNCHANGED <<isAsync, state, body, calls>>

-----------------------------------------------------------------------------
BodyStep(condition) == Within /\ condition /\ UNCHANGED <<isAsync, closing, call, found>>

EntersTry ==
    /\ BodyStep(exit = "no" /\ open < MaxDepth /\ work < MaxWork)
    /\ open' = open + 1 /\ work' = work + 1
    /\ UNCHANGED <<phase, exit, mounted, tasks, answer, dropped>>

\* return, an error, or an error in a finally.
Leaves(how) ==
    /\ BodyStep(exit = "no" \/ (exit = "return" /\ how = "throw"))
    /\ exit' = how
    /\ UNCHANGED <<phase, open, work, mounted, tasks, answer, dropped>>

\* The innermost finally runs, on the way out or at the end of its try.
Finally ==
    /\ BodyStep(open > 0)
    /\ open' = open - 1
    /\ UNCHANGED <<phase, exit, work, mounted, tasks, answer, dropped>>

\* Variant: the generator counts as suspended while its step awaits.
AwaitsSuspended ==
    /\ BodyStep(isAsync /\ work < MaxWork)
    /\ work' = work + 1
    /\ phase' = "suspended" /\ parked' = parked \cup {mounted} /\ mounted' = None
    /\ UNCHANGED <<open, exit, ready, answer, dropped>>

\* The step is parked with its frame; the generator goes on being "running".
Awaits ==
    /\ BodyStep(isAsync /\ work < MaxWork)
    /\ work' = work + 1
    /\ parked' = parked \cup {mounted} /\ mounted' = None
    /\ UNCHANGED <<phase, open, exit, ready, answer, dropped>>

\* Variant: a body that yields while it is being closed is suspended again.
YieldsAndStays ==
    /\ BodyStep(work < MaxWork)
    /\ work' = work + 1 /\ mounted' = None
    /\ phase' = "suspended"
    /\ IF closing \/ call[mounted] = "close"
       THEN Answers(mounted, "null") /\ dropped' = dropped \cup {"yield"}
       ELSE Answers(mounted, "value") /\ UNCHANGED dropped
    /\ UNCHANGED <<open, exit, tasks>>

\* park_generator, or the end of a body that yields while it is being closed.
Yields ==
    /\ BodyStep(work < MaxWork)
    /\ work' = work + 1 /\ mounted' = None
    /\ IF closing \/ call[mounted] = "close"
       THEN /\ phase' = "done" /\ Answers(mounted, "null")
            /\ dropped' = dropped \cup {"yield"}
       ELSE /\ phase' = "suspended" /\ Answers(mounted, "value") /\ UNCHANGED dropped
    /\ UNCHANGED <<open, exit, tasks>>

\* A body that yields null, or awaits in a sync generator, is abandoned.
Abandons ==
    /\ BodyStep(work < MaxWork /\ ~closing)
    /\ work' = work + 1 /\ mounted' = None
    /\ phase' = "done" /\ Answers(mounted, "error")
    /\ dropped' = dropped \cup {"abandoned"}
    /\ UNCHANGED <<open, exit, tasks>>

Ends ==
    /\ BodyStep(exit # "no" /\ open = 0)
    /\ mounted' = None
    /\ phase' = "done" /\ Answers(mounted, IF exit = "throw" THEN "error" ELSE "null")
    /\ UNCHANGED <<open, exit, work, tasks, dropped>>

Body ==
    \/ EntersTry \/ Leaves("return") \/ Leaves("throw") \/ Finally
    \/ Awaits \/ Yields \/ Abandons \/ Ends

GenNext ==
    \/ \E c \in Calls : Next_(c) \/ Close(c) \/ CancelStep(c) \/ WakeStep(c)
    \/ RunStep \/ Body

\* The scheduler runs what is ready, what is awaited comes, and the body gets
\* on: within MaxWork it awaits, yields or ends.
GenFairness ==
    WF_genVars(RunStep \/ Body) /\ WF_genVars(\E c \in Calls : WakeStep(c))
GenSpec == GenInit /\ [][GenNext]_genVars /\ GenFairness

-----------------------------------------------------------------------------
Phases == {"fresh", "suspended", "running", "done"}

GenTypeOK ==
    /\ phase \in Phases /\ closing \in BOOLEAN
    /\ open \in 0..MaxDepth /\ exit \in {"no", "return", "throw"} /\ work \in 0..MaxWork
    /\ mounted \in Calls \cup {None}
    /\ ready \in Seq([call : Calls, resumed : BOOLEAN]) /\ parked \subseteq Calls
    /\ call \in [Calls -> {"none", "next", "close"}]
    /\ answer \in [Calls -> {"none", "pending", "value", "null", "busy", "error", "cancelled"}]
    /\ found \in [Calls -> Phases \cup {"none"}]
    /\ dropped \subseteq {"cancelled", "yield", "abandoned"}

\* Where the frame of the body is: in the generator, on the stack, or in a step.
Frames ==
    (IF phase = "suspended" THEN 1 ELSE 0) + (IF mounted # None THEN 1 ELSE 0)
        + Cardinality(parked) + Cardinality({k \in DOMAIN ready : ready[k].resumed})

\* However calls, steps and cancellations follow each other, the body has one
\* frame: it is never mounted twice, and while the generator is running its
\* frame is kept, save by a cancelled step (enter_generator, run_task).
OneFrame ==
    /\ GenTypeOK
    /\ Frames <= 1
    /\ phase \in {"fresh"} => Frames = 0
    /\ phase \in {"suspended", "running"} /\ "cancelled" \notin dropped => Frames = 1

\* Somebody called close while a step was going: the generator was declared done
\* under the step.
CutShort == \E c \in Calls : found[c] = "running"

\* When the close of a suspended generator is answered, the body is over and
\* every finally it was in has run, unless a finally yielded or the body was
\* dropped with a cancelled step (close_generator, close_async_generator).
CloseRunsFinally ==
    ~CutShort => \A c \in Calls :
        found[c] = "suspended" /\ answer[c] = "null" =>
            phase = "done" /\ Frames = 0 /\ (open = 0 \/ dropped # {})

\* The answer that a call gets in a step.
Newly(c, what) == answer[c] # what /\ answer'[c] = what

Ended(c) == answer[c] = "null" /\ (call[c] = "next" \/ found[c] = "suspended")
NullIsTheEnd == (\E c \in Calls : Ended(c)) => \A c \in Calls : ~Newly(c, "value")

\* null marks the end of the iteration: once a next has answered it, or the close
\* of a suspended generator is answered, nobody gets a value
\* (docs/lang/generators.md, section 9; park_generator).  A generator that is
\* closed while a step of it is going is the exception: a yield of that step
\* revives it.
NullMarksTheEndIfUncut == [][~CutShort => NullIsTheEnd]_genVars

\* Every call, of the MaxCalls of a behaviour, is answered in the end: a refused,
\* dropped or cancelled step is, and so are those queued behind it.
CallsAreAnswered == <>[](\A c \in Calls : answer[c] # "pending")
=============================================================================
