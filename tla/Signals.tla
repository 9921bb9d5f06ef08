------------------------------ MODULE Signals ------------------------------
(***************************************************************************)
(* The reactive library std:signals (src/std/signals: graph.vn,            *)
(* reactive.vn, effect.vn, owner.vn, scheduler.vn): signals, computed      *)
(* values that are memoized and recomputed when read, effects that run     *)
(* again when what they read has changed, batches, scopes and a manual     *)
(* scheduler.                                                              *)
(*                                                                         *)
(* The library is synchronous and re-entrant: one write runs effects that  *)
(* read, write and dispose in turn.  A call of the program is one step,    *)
(* and what the call does is computed by recursive operators, one for each *)
(* function of the library, over the record of all its mutable fields.     *)
(* The bodies of effects and computed values are data: sequences of steps  *)
(* (Steps), of which the program of a behaviour is chosen at the start.    *)
(***************************************************************************)
EXTENDS Naturals, Sequences, FiniteSets, SequencesExt

CONSTANTS
    Signals, Computeds, Effects,
    Schedules,   \* sets of effects that may be given a ManualScheduler
    Programs,    \* functions from observers to the steps of their bodies
    MaxRounds,   \* MAX_FLUSH_ROUNDS
    MaxCalls,    \* bound: calls of the program in a behaviour
    None

ASSUME NodesAssumption ==
    /\ Signals \cap Computeds = {} /\ Computeds \cap Effects = {}
    /\ Schedules \subseteq SUBSET Effects

VARIABLES
    program,   \* the bodies, fixed
    scheduled, \* the effects given a ManualScheduler, fixed
    g,         \* every field of the library, and what the runs observed
    calls      \* calls made so far

svars == <<program, scheduled, g, calls>>

Values == 0..1
Failed == 2
Sources == Signals \cup Computeds
Observers == Computeds \cup Effects

\* A step reads a node (tracked or not), writes the sum of what was read, flips
\* that sum, leaves the body unless it is 1, throws if it is 1, disposes of an
\* observer, or registers a clean-up.
Steps == [op : {"read", "untracked", "write", "dispose"}, node : Sources \cup Effects]
         \cup [op : {"flip", "guard", "fail", "cleanup"}, node : {None}]

Top(st) == IF st.running = <<>> THEN None ELSE Last(st.running)
Throw(st) == [st EXCEPT !.err = TRUE]
Count(acc, v) == (acc + v) % 2

-----------------------------------------------------------------------------
\* What a node's value would be if everything were computed anew.
RECURSIVE Fresh(_, _), FreshBody(_, _, _, _)
Fresh(st, n) ==
    IF n \in Signals THEN st.val[n]
    ELSE IF st.alive[n] THEN FreshBody(st, program[n], 1, 0)
    ELSE IF st.cache[n] = None THEN Failed ELSE st.cache[n]
FreshBody(st, body, at, acc) ==
    IF at > Len(body) \/ acc = Failed THEN acc
    ELSE CASE body[at].op \in {"read", "untracked"} ->
                LET v == Fresh(st, body[at].node)
                IN  FreshBody(st, body, at + 1, IF v = Failed THEN v ELSE Count(acc, v))
           [] body[at].op = "flip" -> FreshBody(st, body, at + 1, 1 - acc)
           [] body[at].op = "guard" /\ acc = 0 -> acc
           [] body[at].op = "fail" /\ acc = 1 -> Failed
           [] OTHER -> FreshBody(st, body, at + 1, acc)

-----------------------------------------------------------------------------
Track(st, s) ==
    IF st.paused > 0 \/ Top(st) = None \/ Contains(st.observers[s], Top(st))
    THEN st
    ELSE [st EXCEPT !.observers[s] = Append(@, Top(st)),
                    !.sources[Top(st)] = Append(@, s),
                    !.seen[Top(st)] = Append(@, st.version[s])]

\* Variant: an observer leaves the sources it read, but they keep it.
UnlinkHalf(st, o) == [st EXCEPT !.sources[o] = <<>>, !.seen[o] = <<>>]

Unlink(st, o) ==
    [st EXCEPT !.observers =
                   [s \in Sources |-> SelectSeq(@[s], LAMBDA x : x # o)],
               !.sources[o] = <<>>,
               !.seen[o] = <<>>]

\* runTracked: the frame a body runs in, and leaving it again.
Enter(st, o) == [st EXCEPT !.running = Append(@, o), !.paused = 0]
Leave(st, paused) == [st EXCEPT !.running = Front(@), !.paused = paused]

\* dispose of an effect runs its clean-ups, that of a computed does not.
DisposeObserver(st, o) ==
    IF o \in Effects /\ ~st.alive[o] THEN st
    ELSE Unlink([st EXCEPT !.alive[o] = FALSE,
                           !.cleanups[o] = IF o \in Effects THEN 0 ELSE @], o)

RECURSIVE Notify(_, _)
\* notifyObservers over the observers of s at the time, the writer excepted.
NotifyObservers(st, s) ==
    FoldLeft(LAMBDA u, o : IF u.alive[o] /\ o # Top(st) THEN Notify(u, o) ELSE u,
             st, st.observers[s])
\* Computed.notify and Effect.notify.
Notify(st, o) ==
    IF ~st.alive[o] THEN st
    ELSE IF o \in Computeds
    THEN IF st.stale[o] THEN st
         ELSE NotifyObservers([st EXCEPT !.stale[o] = TRUE], o)
    ELSE IF st.queued[o] THEN st
    ELSE IF o \in scheduled
    THEN [st EXCEPT !.queued[o] = TRUE, !.jobs = Append(@, o)]
    ELSE [st EXCEPT !.queued[o] = TRUE,
                    !.queue = IF Contains(@, o) THEN @ ELSE Append(@, o)]

-----------------------------------------------------------------------------
RECURSIVE Settle(_, _), Changed(_, _, _), Exec(_, _, _, _), Assign(_, _, _),
          RunEffect(_, _), FlushRounds(_, _)

\* changed: whether a source of o, refreshed, is at another version.
SameVersion(st, o, s, at) ==
    IF st.err THEN st
    ELSE IF st.version[s] # st.seen[o][at] THEN [st EXCEPT !.ret = 1]
    ELSE Changed(st, o, at + 1)
Changed(st, o, at) ==
    IF at > Len(st.sources[o]) THEN [st EXCEPT !.ret = 0]
    ELSE LET s == st.sources[o][at]
         IN  SameVersion(IF s \in Computeds THEN Settle(st, s) ELSE st, o, s, at)

\* derive, once its body has run.
Derived(st, c) ==
    IF st.err THEN st
    ELSE [st EXCEPT !.version[c] = IF st.ret = st.cache[c] THEN @ ELSE @ + 1,
                    !.cache[c] = st.ret,
                    !.stale[c] = FALSE]
Derive(st, c) ==
    LET entered == Enter(Unlink([st EXCEPT !.busy[c] = TRUE], c), c)
    IN  Derived([Leave(Exec(entered, c, 1, 0), st.paused) EXCEPT !.busy[c] = FALSE], c)

\* Variant: a stale computed is recomputed whatever its sources say, and every
\* recomputation counts as a change.
SettleAlways(st, c) ==
    IF ~st.stale[c] \/ ~st.alive[c] THEN st
    ELSE LET u == Derive(st, c)
         IN  IF u.err THEN u ELSE [u EXCEPT !.version[c] = st.version[c] + 1]

\* Variant: the first source's version is trusted without refreshing it.
SettleUnrefreshed(st, c) ==
    IF ~st.stale[c] \/ ~st.alive[c] THEN st
    ELSE IF st.cache[c] # None
            /\ \A k \in DOMAIN st.sources[c] : st.version[st.sources[c][k]] = st.seen[c][k]
    THEN [st EXCEPT !.stale[c] = FALSE]
    ELSE Derive(st, c)

\* settle: ret says whether there is a reason to derive.
DeriveIf(st, c) ==
    IF st.err THEN st
    ELSE IF st.ret = 0 THEN [st EXCEPT !.stale[c] = FALSE]
    ELSE IF st.busy[c] THEN Throw(st)
    ELSE Derive(st, c)
Settle(st, c) ==
    IF ~st.stale[c] \/ ~st.alive[c] THEN st
    ELSE DeriveIf(IF st.cache[c] = None THEN [st EXCEPT !.ret = 1] ELSE Changed(st, c, 1), c)

\* The value getters of Signal and Computed.  The cache of a computed that was
\* disposed of before it was ever read is empty.
ReadCache(st, c) ==
    IF st.err THEN st
    ELSE IF st.cache[c] = None THEN Throw(Track(st, c))
    ELSE [Track(st, c) EXCEPT !.ret = st.cache[c]]
ReadValue(st, n) ==
    IF n \in Signals THEN [Track(st, n) EXCEPT !.ret = st.val[n]]
    ELSE ReadCache(Settle(st, n), n)

\* What an effect has read, for the properties: the value, or that it failed.
Saw(st, before, o, n) ==
    IF o \in Computeds THEN st
    ELSE LET v == IF st.err THEN Failed ELSE st.ret
         IN  [st EXCEPT !.view[o] = {p \in @ : p[1] # n} \cup {<<n, v>>},
                        !.glitch = @ \/ v # Fresh(before, n)]

\* An effect's own write does not make it run again: what it has seen of the
\* nodes that the write changes counts as seen.
OwnWrite(st, o, s, v) ==
    LET u == [st EXCEPT !.val[s] = v]
    IN  [st EXCEPT !.view[o] =
            {IF Fresh(st, p[1]) = p[2] THEN <<p[1], Fresh(u, p[1])>> ELSE p : p \in @}]

AfterRead(st, o, at, acc) == Exec(st, o, at + 1, Count(acc, st.ret))
Exec(st, o, at, acc) ==
    IF st.err \/ at > Len(program[o]) THEN [st EXCEPT !.ret = acc]
    ELSE LET op == program[o][at].op
             n == program[o][at].node
         IN  CASE op = "read" -> AfterRead(Saw(ReadValue(st, n), st, o, n), o, at, acc)
               [] op = "untracked" ->
                    AfterRead([ReadValue([st EXCEPT !.paused = @ + 1], n) EXCEPT
                                  !.paused = st.paused], o, at, acc)
               [] op = "flip" -> Exec(st, o, at + 1, 1 - acc)
               [] op = "guard" -> IF acc = 1 THEN Exec(st, o, at + 1, acc)
                                  ELSE [st EXCEPT !.ret = acc]
               [] op = "fail" -> IF acc = 1 THEN Throw(st) ELSE Exec(st, o, at + 1, acc)
               [] op = "write" -> Exec(Assign(OwnWrite(st, o, n, acc), n, acc), o, at + 1, acc)
               [] op = "dispose" -> Exec(DisposeObserver(st, n), o, at + 1, acc)
               [] op = "cleanup" -> Exec([st EXCEPT !.cleanups[o] = @ + 1], o, at + 1, acc)

\* flush: rounds of what is queued, the failures kept for the end.
Caught(st) == [st EXCEPT !.failure = @ \/ st.err, !.err = FALSE]
RunDue(st, o) == Caught(RunEffect(st, o))
FlushRounds(st, rounds) ==
    IF st.queue = <<>> THEN [st EXCEPT !.flushing = FALSE, !.err = st.failure]
    ELSE IF rounds >= MaxRounds
    THEN [st EXCEPT !.flushing = FALSE, !.queue = <<>>, !.err = TRUE]
    ELSE FlushRounds(FoldLeft(RunDue, [st EXCEPT !.queue = <<>>], st.queue), rounds + 1)

Flush(st) ==
    IF st.flushing THEN st
    ELSE FlushRounds([st EXCEPT !.flushing = TRUE, !.failure = FALSE], 0)

\* Leaving a batch, or the notifications of a write.
EndBatch(st) ==
    LET u == [st EXCEPT !.depth = @ - 1] IN IF u.depth = 0 THEN Flush(u) ELSE u

\* Signal.set and invalidate.
Assign(st, s, v) ==
    IF st.val[s] = v THEN st
    ELSE EndBatch(NotifyObservers([st EXCEPT !.val[s] = v,
                                             !.version[s] = @ + 1,
                                             !.depth = @ + 1], s))

StartRun(st, e) ==
    Enter(Unlink([st EXCEPT !.ran[e] = TRUE, !.busy[e] = TRUE, !.cleanups[e] = 0,
                            !.view[e] = {}, !.runs[e] = @ + 1], e), e)

\* Variant: a run asked for while the effect ran is forgotten.
EndRunForgets(st, e) == st
\* A run asked for while the effect ran follows, unless its body threw.
EndRun(st, e) ==
    IF st.err \/ ~st.again[e] THEN st
    ELSE EndBatch(Notify([st EXCEPT !.again[e] = FALSE, !.depth = @ + 1], e))

\* Effect.run.
RunIfChanged(st, e) ==
    IF st.err \/ st.ret = 0 THEN st
    ELSE EndRun([Leave(Exec(StartRun(st, e), e, 1, 0), st.paused) EXCEPT !.busy[e] = FALSE], e)
RunEffect(st, e) ==
    LET u == [st EXCEPT !.queued[e] = FALSE]
    IN  IF ~u.alive[e] THEN u
        ELSE IF u.busy[e] THEN [u EXCEPT !.again[e] = TRUE]
        ELSE RunIfChanged(IF u.ran[e] THEN Changed(u, e, 1) ELSE [u EXCEPT !.ret = 1], e)

-----------------------------------------------------------------------------
SInit ==
    /\ program \in Programs
    /\ scheduled \in Schedules
    /\ calls = 0
    /\ g = [val |-> [s \in Signals |-> 0],
            version |-> [s \in Sources |-> 0],
            observers |-> [s \in Sources |-> <<>>],
            sources |-> [o \in Observers |-> <<>>],
            seen |-> [o \in Observers |-> <<>>],
            alive |-> [o \in Observers |-> TRUE],
            busy |-> [o \in Observers |-> FALSE],
            cleanups |-> [o \in Observers |-> 0],
            cache |-> [c \in Computeds |-> None],
            stale |-> [c \in Computeds |-> TRUE],
            queued |-> [e \in Effects |-> FALSE],
            again |-> [e \in Effects |-> FALSE],
            ran |-> [e \in Effects |-> FALSE],
            running |-> <<>>, paused |-> 0, depth |-> 0,
            flushing |-> FALSE, queue |-> <<>>, jobs |-> <<>>,
            owned |-> <<>>, scopeAlive |-> TRUE,
            ret |-> 0, err |-> FALSE, failure |-> FALSE,
            view |-> [e \in Effects |-> {}],
            runs |-> [e \in Effects |-> 0], made |-> {}, glitch |-> FALSE]

\* A call of the program ends in state st; an exception goes to the caller.
Call(st) ==
    /\ calls < MaxCalls
    /\ calls' = calls + 1
    /\ g' = [st EXCEPT !.err = FALSE, !.failure = FALSE, !.ret = 0]
    /\ UNCHANGED <<program, scheduled>>

Write(s, v) == g.val[s] # v /\ Call(Assign(g, s, v))

\* batch: both writes, then the flush.
WriteBoth(s, t) ==
    /\ s # t
    /\ Call(EndBatch(Assign(Assign([g EXCEPT !.depth = @ + 1], s, 1 - g.val[s]),
                            t, 1 - g.val[t])))

Read(c) == Call(ReadValue(g, c))

Register(st, e) ==
    LET u == [st EXCEPT !.made = @ \cup {e}]
    IN  IF st.scopeAlive THEN [u EXCEPT !.owned = Append(@, e)] ELSE DisposeObserver(u, e)
\* effect(), called by Scope.run: the first run comes before the registration,
\* which an exception of it skips.
Mounted(st, e) == IF st.err THEN st ELSE Register(st, e)
Mount(e) == ~g.ran[e] /\ g.alive[e] /\ Call(Mounted(RunEffect(g, e), e))

Dispose(o) == g.alive[o] /\ Call(DisposeObserver(g, o))

DisposeScope ==
    /\ g.scopeAlive
    /\ Call(FoldLeft(DisposeObserver, [g EXCEPT !.scopeAlive = FALSE, !.owned = <<>>],
                     Reverse(g.owned)))

\* ManualScheduler.flush: job after job, and those they schedule; an exception
\* leaves the rest of the round behind.
RECURSIVE RunJobs(_, _)
RunJobs(st, due) ==
    IF st.err THEN st
    ELSE IF due # <<>> THEN RunJobs(RunEffect(st, Head(due)), Tail(due))
    ELSE IF st.jobs # <<>> THEN RunJobs([st EXCEPT !.jobs = <<>>], st.jobs)
    ELSE st
RunScheduled == g.jobs # <<>> /\ Call(RunJobs(g, <<>>))

SNext ==
    \/ \E s \in Signals, v \in Values : Write(s, v)
    \/ \E s, t \in Signals : WriteBoth(s, t)
    \/ \E c \in Computeds : Read(c)
    \/ \E e \in Effects : Mount(e)
    \/ \E o \in Observers : Dispose(o)
    \/ DisposeScope
    \/ RunScheduled

SSpec == SInit /\ [][SNext]_svars

-----------------------------------------------------------------------------
STypeOK ==
    /\ program \in [Observers -> Seq(Steps)]
    /\ g.val \in [Signals -> Values]
    /\ g.version \in [Sources -> Nat]
    /\ g.observers \in [Sources -> Seq(Observers)]
    /\ g.sources \in [Observers -> Seq(Sources)]
    /\ g.seen \in [Observers -> Seq(Nat)]
    /\ g.cache \in [Computeds -> Values \cup {None}]
    /\ g.cleanups \in [Observers -> Nat]
    /\ g.running = <<>> /\ g.depth = 0 /\ g.paused = 0 /\ ~g.flushing
    /\ g.queue = <<>> /\ g.jobs \in Seq(scheduled)

\* Between calls, an alive effect that has run and is not waiting for its
\* scheduler has seen, of everything its last run read, the value a
\* computation from scratch gives: no change was lost on the way through the
\* computed values, whatever writes, failures and re-entrant runs came between
\* (graph.vn notifyObservers and flush, Effect.run, Computed.notify).  One that
\* is marked as queued is in a queue: marked and in none it would never run
\* again, for notify returns early.
EffectsAreCurrent ==
    \A e \in Effects :
        /\ g.alive[e] /\ g.ran[e] /\ ~g.queued[e] =>
               \A p \in g.view[e] : Fresh(g, p[1]) = p[2]
        /\ g.queued[e] => Contains(g.jobs, e)

\* Reading a computed that is alive gives what a computation from scratch
\* gives, through whatever is cached, stale or versioned (Computed.settle); nor
\* has an effect read, in the middle of a flush or a batch, a mix of old and new.
ReadsAreFresh ==
    /\ ~g.glitch
    /\ \A c \in Computeds : g.alive[c] =>
          LET r == ReadValue(g, c)
          IN  Fresh(g, c) = IF r.err THEN Failed ELSE r.ret

\* What was disposed of is subscribed to nothing, and its clean-ups have run
\* (Effect.dispose, Computed.dispose, unlink); those of an earlier run have run
\* before the next.  No effect that effect() returned inside a scope survives the
\* scope.  (One whose first run throws is subscribed and never registered.)
TheDeadLeaveNothing ==
    /\ \A o \in Observers :
          /\ ~g.alive[o] => g.sources[o] = <<>> /\ g.cleanups[o] = 0
          /\ g.cleanups[o] <= Len(SelectSeq(program[o], LAMBDA step : step.op = "cleanup"))
    /\ ~g.scopeAlive => \A e \in g.made : ~g.alive[e]

\* The two ends of every subscription agree, are there once, and carry a
\* version the source has had, and the dead hold none (track, unlink, dispose).
LinksAgree ==
    /\ STypeOK
    /\ \A s \in Sources, o \in Observers :
          /\ Contains(g.observers[s], o) <=> Contains(g.sources[o], s)
          /\ Len(g.seen[o]) = Len(g.sources[o])
          /\ \A k \in DOMAIN g.sources[o] : g.seen[o][k] <= g.version[g.sources[o][k]]
          /\ IsInjective(g.sources[o]) /\ IsInjective(g.observers[s])
    /\ TheDeadLeaveNothing

\* One call runs an effect at most once, and only when a value that its last
\* run read has changed: an unchanged computed wakes nobody and a batch is one
\* change.  (Effects that write may make one another run again.)
RunsOnlyForChange ==
    [][(\A o \in Observers : \A k \in DOMAIN program[o] : program[o][k].op # "write") =>
        \A e \in Effects :
            /\ g'.runs[e] <= g.runs[e] + 1
            /\ g'.runs[e] > g.runs[e] /\ g.ran[e] /\ e \notin scheduled =>
                   \E p \in g.view[e] : Fresh(g', p[1]) # p[2]]_svars
=============================================================================
