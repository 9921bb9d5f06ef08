------------------------------ MODULE FlowChecks ------------------------------
(***************************************************************************)
(* What the checker and the binder conclude from the shape of a body       *)
(* (crates/varn-checker/src/checker, crates/varn-binder/src): that every   *)
(* path of a function returns, that every path of a constructor assigns a  *)
(* field, and that a variable is assigned before it is read.  Each walks   *)
(* the statements once, without iterating loops, so each is an             *)
(* approximation of the paths there are.                                   *)
(*                                                                         *)
(* A behaviour builds a body from the inside out.  In each state Run gives *)
(* the ways through it, all of them, for one variable or field, and the    *)
(* checks are compared with that.                                          *)
(***************************************************************************)
EXTENDS Naturals, Sequences, SequencesExt

CONSTANTS
    Labels,     \* labels of loops
    Nestings,   \* the constructs a body may be put into
    MaxNest,    \* bound: constructs around the innermost statement
    None

VARIABLES
    program,    \* the statements of the body
    nest        \* constructs so far

flowVars == <<program, nest>>

\* Statements.  `Perhaps` is `c && (x = 1)`, `Never` a call of a function that
\* does not return, `Call` one that may throw.
Read == [is |-> "read"]
Assign == [is |-> "assign"]
Perhaps == [is |-> "perhaps"]
Call == [is |-> "call"]
Never == [is |-> "never"]
Throw == [is |-> "throw"]
Return == [is |-> "return"]
Break(l) == [is |-> "break", label |-> l]
Continue(l) == [is |-> "continue", label |-> l]
Declare(init) == [is |-> "declare", init |-> init]
Block(body) == [is |-> "block", body |-> body]
If(then, orelse) == [is |-> "if", then |-> then, orelse |-> orelse]
\* A loop that is `forever` has no test, or the literal `true` for one.
Loop(kind, label, init, forever, test, update, body) ==
    [is |-> kind, label |-> label, init |-> init, forever |-> forever, test |-> test,
     update |-> update, body |-> body]
Case(default, body) == [default |-> default, body |-> body]
Switch(cases) == [is |-> "switch", cases |-> cases]
\* The last clause catches whatever the others do not if `any`.
Try(body, catches, any, fin) ==
    [is |-> "try", body |-> body, catches |-> catches, any |-> any, fin |-> fin]

Loops == {"while", "do", "for", "of"}
HasDefault(s) == \E k \in DOMAIN s.cases : s.cases[k].default
Closes(body) == body # <<>> /\ Last(body) = Break(None)
Declares(stmts) == \E k \in DOMAIN stmts : stmts[k].is = "declare"

\* The statements within statements.
Lists(s) ==
    CASE s.is = "if" -> {s.then, s.orelse}
      [] s.is = "block" -> {s.body}
      [] s.is \in Loops -> {s.init, s.test, s.update, s.body}
      [] s.is = "switch" -> {s.cases[k].body : k \in DOMAIN s.cases}
      [] s.is = "try" -> {s.body, s.fin} \cup Range(s.catches)
      [] OTHER -> {}
RECURSIVE Parts(_)
Parts(stmts) ==
    Range(stmts) \cup UNION {UNION {Parts(l) : l \in Lists(s)} : s \in Range(stmts)}
Within(stmts, is) == \E s \in Parts(stmts) : s.is = is

-----------------------------------------------------------------------------
\* The paths.  A path has left the variable "undeclared", "unassigned" or
\* "assigned", and is `bad` if it has used it too early.
Path == [env |-> "unassigned", bad |-> FALSE, how |-> "on", label |-> None]

Leave(S, how, label) == {[st EXCEPT !.how = how, !.label = label] : st \in S}
On(S) == Leave(S, "on", None)
Going(S) == {st \in S : st.how = "on"}
Jumps(S, s, how) == {st \in S : st.how = how /\ st.label \in {None, s.label}}
Given(S) == {[st EXCEPT !.bad = @ \/ st.env = "undeclared", !.env = "assigned"] : st \in S}

RECURSIVE Run(_, _), Step(_, _), Tops(_, _)
Run(stmts, S) ==
    IF stmts = <<>> THEN S
    ELSE (S \ Going(S)) \cup Run(Tail(stmts), Step(Head(stmts), Going(S)))

\* A scope with a declaration of its own hides the variable of the scope around it.
InScope(declares, S, Inside(_)) ==
    IF ~declares THEN Inside(S)
    ELSE UNION {{[u EXCEPT !.env = st.env] :
                     u \in Inside({[st EXCEPT !.env = "undeclared"]})} : st \in S}
Scoped(stmts, S) == InScope(Declares(stmts), S, LAMBDA T : Run(stmts, T))

\* The ends of a turn's body from the paths S, and those that turn again.
Turn(s, S) == Scoped(s.body, IF s.is = "do" THEN S ELSE Run(s.test, S))
Again(s, ends) ==
    LET next == Run(s.update, Going(ends) \cup On(Jumps(ends, s, "continue")))
    IN  IF s.is = "do" THEN Run(s.test, next) ELSE next
Tops(s, S) ==
    LET all == S \cup Again(s, Turn(s, S)) IN IF all = S THEN S ELSE Tops(s, all)
\* The ways through a loop that has begun.
Turned(s, S) ==
    LET tops == Tops(s, S)
        ends == Turn(s, tops)
        again == Jumps(ends, s, "continue")
        left == Jumps(ends, s, "break")
    IN  (ends \ (Going(ends) \cup again \cup left)) \cup On(left)
        \cup IF s.forever THEN {}
             ELSE IF s.is = "do" THEN Again(s, ends) ELSE Run(s.test, tops)

Step(s, S) ==
    CASE s.is = "read" -> {[st EXCEPT !.bad = @ \/ st.env # "assigned"] : st \in S}
      [] s.is = "assign" -> Given(S)
      [] s.is = "perhaps" -> S \cup Given(S)
      [] s.is = "call" -> S \cup Leave(S, "throw", None)
      [] s.is \in {"never", "throw"} -> Leave(S, "throw", None)
      [] s.is = "return" -> Leave(S, "return", None)
      [] s.is \in {"break", "continue"} -> Leave(S, s.is, s.label)
      [] s.is = "declare" ->
            {[st EXCEPT !.env = IF s.init THEN "assigned" ELSE "unassigned"] : st \in S}
      [] s.is = "block" -> Scoped(s.body, S)
      [] s.is = "if" -> Scoped(s.then, S) \cup Scoped(s.orelse, S)
      [] s.is \in Loops ->
            InScope(Declares(s.init), S, LAMBDA T : Turned(s, Run(s.init, T)))
      \* One case runs, without the break that closes it (switch_cases).
      [] s.is = "switch" ->
            UNION {LET body == s.cases[k].body
                   IN  Scoped(IF Closes(body) THEN Front(body) ELSE body, S)
                   : k \in DOMAIN s.cases}
            \cup IF HasDefault(s) THEN {} ELSE S
      [] s.is = "try" ->
            LET u == Scoped(s.body, S)
                thrown == {st \in u : st.how = "throw"}
                handled == UNION {Scoped(s.catches[k], On(thrown)) : k \in DOMAIN s.catches}
                all == (u \ thrown) \cup handled \cup IF s.any THEN {} ELSE thrown
            IN  UNION {{IF w.how = "on" THEN [w EXCEPT !.how = st.how, !.label = st.label]
                        ELSE w : w \in Scoped(s.fin, On({st}))} : st \in all}

Paths(stmts) == Run(stmts, {Path})

-----------------------------------------------------------------------------
\* What other checks leave over: a jump has a loop to go to, an unlabelled break
\* stands in a loop or closes a case, the default comes last, only the last case
\* may be empty, and no finally returns.
RECURSIVE Stray(_)
Stray(stmts) ==
    \E k \in DOMAIN stmts :
        LET s == stmts[k]
        IN  \/ s = Break(None)
            \/ s.is \in {"block", "if", "try"} /\ \E l \in Lists(s) : Stray(l)

CaseShape(s) ==
    \A k \in DOMAIN s.cases :
        LET c == s.cases[k]
        IN  /\ k # Len(s.cases) => ~c.default /\ c.body # <<>>
            /\ ~Stray(IF Closes(c.body) THEN Front(c.body) ELSE c.body)

RECURSIVE JumpsLand(_, _, _)
JumpsLand(stmts, labels, inSwitch) ==
    \A k \in DOMAIN stmts :
        LET s == stmts[k]
            deeper(l) == JumpsLand(l, IF s.is \in Loops THEN labels \cup {s.label, None} ELSE labels,
                                   inSwitch \/ s.is = "switch")
        IN  CASE s.is = "break" -> s.label \in labels \/ (s.label = None /\ inSwitch)
              [] s.is = "continue" -> s.label \in labels
              [] OTHER -> \A l \in Lists(s) : deeper(l)

WellFormed(stmts) ==
    /\ JumpsLand(stmts, {}, FALSE)
    /\ \A s \in Parts(stmts) :
        /\ s.is = "switch" => CaseShape(s)
        /\ s.is = "try" => ~Within(s.fin, "return")

-----------------------------------------------------------------------------
\* May the end of the body be reached (completes, breaks, labeled_break)?

\* Variant: breaks in nested statements are overlooked.
LabeledBreakHere(stmts) == \E k \in DOMAIN stmts : stmts[k].is = "break" /\ stmts[k].label # None

RECURSIVE LabeledBreak(_)
LabeledBreak(stmts) ==
    \E k \in DOMAIN stmts :
        LET s == stmts[k]
        IN  IF s.is = "break" THEN s.label # None ELSE \E l \in Lists(s) : LabeledBreak(l)

RECURSIVE Breaks(_)
Breaks(stmts) ==
    \E k \in DOMAIN stmts :
        LET s == stmts[k]
        IN  CASE s.is = "break" -> TRUE
              [] s.is \in {"block", "if", "try"} -> \E l \in Lists(s) : Breaks(l)
              [] s.is = "switch" ->
                    \E l \in Lists(s) : \E j \in DOMAIN l :
                        l[j].is = "break" /\ l[j].label # None
              [] s.is \in Loops -> LabeledBreak(s.body)
              [] OTHER -> FALSE

RECURSIVE Completes(_)
Completes(stmts) ==
    \A k \in DOMAIN stmts :
        LET s == stmts[k]
        IN  CASE s.is \in {"return", "throw", "never"} -> FALSE
              [] s.is = "block" -> Completes(s.body)
              [] s.is = "if" -> Completes(s.then) \/ Completes(s.orelse)
              [] s.is \in {"while", "do", "for"} -> ~s.forever \/ Breaks(s.body)
              [] s.is = "switch" ->
                    \/ ~HasDefault(s)
                    \/ \E l \in Lists(s) : Breaks(l)
                    \/ Completes(Last(s.cases).body)
              [] s.is = "try" ->
                    /\ Completes(s.fin)
                    /\ Completes(s.body) \/ \E l \in Range(s.catches) : Completes(l)
              [] OTHER -> TRUE

\* can_complete_normally, from which a function that returns nothing is found to
\* be one that never returns.
RECURSIVE CanComplete(_)
CanComplete(stmts) ==
    \A k \in DOMAIN stmts :
        LET s == stmts[k]
        IN  CASE s.is \in {"return", "throw", "break", "continue"} -> FALSE
              [] s.is = "block" -> CanComplete(s.body)
              [] s.is = "if" -> CanComplete(s.then) \/ CanComplete(s.orelse)
              [] s.is = "try" ->
                    /\ CanComplete(s.fin)
                    /\ CanComplete(s.body) \/ \E l \in Range(s.catches) : CanComplete(l)
              [] OTHER -> TRUE

-----------------------------------------------------------------------------
\* Is a field assigned on every path of the constructor (ctor_flow.rs)?  `over`
\* is a walk that has left the statements, `missing` an exit without the field,
\* `early` a read of it.
CtorStart == [set |-> FALSE, over |-> FALSE, missing |-> FALSE, early |-> FALSE]

Exit(c) == [c EXCEPT !.missing = @ \/ ~c.set]
Noted(c, arms) ==
    [c EXCEPT !.missing = \E a \in arms : a.missing, !.early = \E a \in arms : a.early]
\* Variant: an arm without an assignment does not count.
JoinAny(c, arms) ==
    LET live == {a \in arms : ~a.over}
    IN  [Noted(c, arms) EXCEPT !.over = live = {}, !.set = @ \/ \E a \in live : a.set]
\* join: the arms that have left are dropped.
Join(c, arms) ==
    LET live == {a \in arms : ~a.over}
    IN  [Noted(c, arms) EXCEPT !.over = live = {},
                               !.set = @ \/ (live # {} /\ \A a \in live : a.set)]

RECURSIVE Ctor(_, _), CtorStmt(_, _)
Ctor(stmts, c) ==
    IF stmts = <<>> \/ c.over THEN c ELSE Ctor(Tail(stmts), CtorStmt(Head(stmts), c))
CtorStmt(s, c) ==
    CASE s.is = "read" -> [c EXCEPT !.early = @ \/ ~c.set]
      [] s.is = "assign" -> [c EXCEPT !.set = TRUE]
      [] s.is = "return" -> [Exit(c) EXCEPT !.over = TRUE]
      [] s.is \in {"throw", "break", "continue"} -> [c EXCEPT !.over = TRUE]
      [] s.is = "block" -> Ctor(s.body, c)
      [] s.is = "if" -> Join(c, {Ctor(s.then, c), Ctor(s.orelse, c)})
      [] s.is \in Loops ->
            LET tested == Ctor(s.test, Ctor(s.init, c))
                inner == Ctor(s.body, tested)
            IN  Noted(tested, {Ctor(s.update, [inner EXCEPT !.over = FALSE])})
      [] s.is = "switch" ->
            LET arms == {Ctor(l, c) : l \in Lists(s)}
            IN  IF HasDefault(s) THEN Join(c, arms) ELSE Noted(c, arms)
      [] s.is = "try" ->
            LET joined == Join(c, {Ctor(l, c) : l \in {s.body} \cup Range(s.catches)})
                fin == Ctor(s.fin, [joined EXCEPT !.over = FALSE])
            IN  [fin EXCEPT !.over = @ \/ joined.over]
      [] OTHER -> c

CtorAccepts(stmts) ==
    LET c == Ctor(stmts, CtorStart)
        end == IF c.over THEN c ELSE Exit(c)
    IN  ~end.missing /\ ~end.early

\* fields_assigned_on_every_path: the fields that need not be optional.
RECURSIVE Guaranteed(_)
Guaranteed(stmts) ==
    \E k \in DOMAIN stmts :
        LET s == stmts[k]
        IN  CASE s.is = "assign" -> TRUE
              [] s.is = "block" -> Guaranteed(s.body)
              [] s.is = "if" -> Guaranteed(s.then) /\ Guaranteed(s.orelse)
              [] OTHER -> FALSE

-----------------------------------------------------------------------------
\* Is a variable declared and assigned before it is read (traversal.rs)?
FlowStart == [pending |-> FALSE, assigned |-> FALSE, undeclared |-> FALSE,
              diverged |-> FALSE, error |-> FALSE]

DaRead(f) ==
    IF f.undeclared THEN [f EXCEPT !.undeclared = FALSE, !.assigned = TRUE, !.error = TRUE]
    ELSE IF f.pending /\ ~f.assigned THEN [f EXCEPT !.assigned = TRUE, !.error = TRUE]
    ELSE f
DaAssign(f) == [IF f.undeclared THEN DaRead(f) ELSE f EXCEPT !.assigned = TRUE]
DaDeclare(f, init) ==
    [f EXCEPT !.undeclared = FALSE, !.assigned = init, !.pending = IF init THEN FALSE ELSE TRUE]

Erred(f, arms) == [f EXCEPT !.error = \E a \in arms : a.error]
\* Variant: what either branch assigns is assigned.
MergeEither(f, a, b) ==
    Erred(CASE a.diverged /\ b.diverged -> [f EXCEPT !.diverged = TRUE]
            [] a.diverged /\ ~b.diverged -> b
            [] ~a.diverged /\ b.diverged -> a
            [] OTHER -> [f EXCEPT !.assigned = @ \/ a.assigned \/ b.assigned],
          {a, b})
Merge(f, a, b) ==
    Erred(CASE a.diverged /\ b.diverged -> [f EXCEPT !.diverged = TRUE]
            [] a.diverged /\ ~b.diverged -> b
            [] ~a.diverged /\ b.diverged -> a
            [] OTHER -> [f EXCEPT !.assigned = @ \/ (a.assigned /\ b.assigned)],
          {a, b})

RECURSIVE DaAll(_, _), DaStmt(_, _)
DaAll(stmts, f) ==
    IF stmts = <<>> \/ f.diverged THEN f ELSE DaAll(Tail(stmts), DaStmt(Head(stmts), f))

\* da_block: its declarations hide the variable until it is left.
DaBlock(stmts, f) ==
    IF ~Declares(stmts) THEN DaAll(stmts, f)
    ELSE LET inner == DaAll(stmts, [f EXCEPT !.assigned = FALSE, !.pending = TRUE,
                                             !.undeclared = TRUE])
         IN  [f EXCEPT !.diverged = inner.diverged, !.error = inner.error]

\* What a for declares counts as assigned, in the flow around the for and for good.
DaInit(init, f) == IF Declares(init) THEN [f EXCEPT !.assigned = TRUE] ELSE DaAll(init, f)

DaStmt(s, f) ==
    CASE s.is = "read" -> DaRead(f)
      [] s.is \in {"assign", "perhaps"} -> DaAssign(f)
      [] s.is = "declare" -> DaDeclare(f, s.init)
      [] s.is \in {"return", "throw", "break", "continue"} -> [f EXCEPT !.diverged = TRUE]
      [] s.is = "block" -> DaBlock(s.body, f)
      [] s.is = "if" -> Merge(f, DaBlock(s.then, f), DaBlock(s.orelse, f))
      [] s.is \in Loops ->
            LET tested == DaAll(s.test, DaInit(s.init, f))
                inner == DaBlock(s.body, tested)
            IN  Erred(tested, {DaAll(s.update, [inner EXCEPT !.diverged = FALSE])})
      [] s.is = "switch" ->
            LET arms == [k \in DOMAIN s.cases |-> DaAll(s.cases[k].body, f)]
                all == FoldLeft(LAMBDA a, b : Merge(f, a, b), Head(arms), Tail(arms))
            IN  IF HasDefault(s) THEN all ELSE Erred(f, {all})
      [] s.is = "try" ->
            LET caught == IF s.catches = <<>> THEN f ELSE DaBlock(Head(s.catches), f)
            IN  DaBlock(s.fin, Merge(f, DaBlock(s.body, f), caught))
      [] OTHER -> f

\* The body of a function that declares the variable at its top.
Local(stmts) == <<Block(<<Declare(FALSE)>> \o stmts)>>
FlowAccepts(stmts) == ~DaAll(stmts, FlowStart).error

-----------------------------------------------------------------------------
\* The bodies: a statement, then more around it.
Leaf == {Read, Assign, Perhaps, Call, Never, Throw, Return}
        \cup {Break(l) : l \in Labels \cup {None}} \cup {Continue(l) : l \in Labels \cup {None}}

FlowInit == program \in {<<s>> : s \in Leaf} /\ nest = 0

Around(p) ==
    [before |-> {<<s>> \o p : s \in {Read, Assign, Call}},
     after |-> {Append(p, s) : s \in {Read, Assign, Return}},
     if |-> {<<If(p, orelse)>> : orelse \in {<<>>, <<Assign>>, <<Return>>}},
     while |-> {<<Loop("while", l, <<>>, forever, <<>>, <<>>, p)>> :
                    l \in Labels \cup {None}, forever \in BOOLEAN},
     do |-> {<<Loop("do", l, <<>>, FALSE, test, <<>>, p)>> :
                    l \in Labels \cup {None}, test \in {<<>>, <<Read>>}},
     for |-> {<<Loop("for", None, init, forever, <<>>, update, p)>> :
                    init \in {<<>>, <<Assign>>, <<Declare(TRUE)>>},
                    forever \in BOOLEAN, update \in {<<Read>>, <<Assign>>}},
     switch |-> {<<Switch(<<Case(FALSE, body), Case(TRUE, other)>>)>> :
                    body \in {p, Append(p, Break(None))}, other \in {<<Assign>>, <<Return>>}}
                \cup {<<Switch(<<Case(FALSE, other), Case(TRUE, p)>>)>> :
                    other \in {<<Assign>>, <<Return>>, <<Break(None)>>}},
     body |-> {<<Try(p, catches, TRUE, <<>>)>> :
                    catches \in {<< <<Assign>> >>, << <<Throw>> >>}}
              \cup {<<Try(p, <<>>, FALSE, <<Read>>)>>, <<Try(p, << <<Throw>> >>, TRUE, <<Read>>)>>},
     handler |-> {<<Try(<<Call, Assign>>, << p >>, TRUE, fin)>> : fin \in {<<>>, <<Read>>}}
                 \cup {<<Try(<<Call>>, << <<Assign>>, p >>, FALSE, <<>>)>>},
     finally |-> {<<Try(<<Call, Assign>>, catches, TRUE, p)>> :
                    catches \in {<< <<Return>> >>, << <<Assign>> >>}},
     scope |-> {<<Block(Append(p, Declare(init)))>> : init \in BOOLEAN}
               \cup {<<Block(<<Declare(init)>> \o p)>> : init \in BOOLEAN}]

Nest(kind) ==
    /\ nest < MaxNest
    /\ nest' = nest + 1
    /\ program' \in Around(program)[kind]

FlowNext == \E kind \in Nestings : Nest(kind)
FlowSpec == FlowInit /\ [][FlowNext]_flowVars

-----------------------------------------------------------------------------
\* Straight statements and branches: there the checks are to be exact.
Simple(stmts) ==
    \A s \in Parts(stmts) : s.is \in {"read", "assign", "return", "throw", "if", "block"}

Ends(stmts) == {st \in Paths(stmts) : st.how = "on"}
Leaves(stmts) == {st \in Paths(stmts) : st.how \in {"on", "return"}}

\* Left out: cases that complete, of which only the last is looked at, and labelled
\* breaks deeper in a case, which `breaks` does not look for.
ReturnCovers(stmts) ==
    \A s \in Parts(stmts) : s.is = "switch" =>
        /\ \A k \in 1..(Len(s.cases) - 1) : ~Completes(s.cases[k].body)
        /\ \A l \in Lists(s) : LabeledBreak(l) => Breaks(<<Switch(<<Case(TRUE, l)>>)>>)

\* A body the checker lets pass as one that returns on every path has no path to
\* its end, and neither has one that it takes never to return
\* (require_return, can_complete_normally).  Of straight statements and branches
\* it refuses only those that have such a path.
EveryPathReturns ==
    WellFormed(program) =>
        /\ ~Completes(program) /\ ReturnCovers(program) => Ends(program) = {}
        /\ ~CanComplete(program) => Ends(program) = {}
        /\ Simple(program) =>
               /\ Completes(program) <=> Ends(program) # {}
               /\ CanComplete(program) <=> Ends(program) # {}

\* Left out: the break that closes a case, for which the case is dropped where the
\* arms meet; reads in a finally, which is walked as if nothing before it could
\* have thrown; and a `continue` to an update that reads.
CtorCovers(stmts) ==
    \A s \in Parts(stmts) :
        /\ s.is # "declare"
        /\ s.is = "switch" /\ HasDefault(s) => \A l \in Lists(s) : ~Closes(l)
        /\ s.is = "try" => ~Within(s.fin, "read")
        /\ s.is = "for" /\ Within(s.update, "read") => ~Within(s.body, "continue")

\* Every path of a constructor that the checker accepts assigns the field before it
\* ends or returns, and none reads it before (ctor_flow.rs); on every path to the
\* end of a body without a return the fields are assigned that the binder
\* leaves without undefined (definite_field_assignment.rs).
FieldsAreAssigned ==
    WellFormed(program) /\ CtorCovers(program) =>
        LET right == /\ \A st \in Paths(program) : ~st.bad
                     /\ \A st \in Leaves(program) : st.env = "assigned"
        IN  /\ CtorAccepts(program) => right
            /\ Simple(program) /\ right => CtorAccepts(program)
            /\ Guaranteed(program) /\ ~Within(program, "return") =>
                   \A st \in Ends(program) : st.env = "assigned"

\* Left out: the same, `c && (x = 1)`, which counts as an assignment, a second catch
\* clause, which is not walked, and a for that declares the variable's name again,
\* after which the variable counts as assigned.
FlowCovers(stmts) ==
    \A s \in Parts(stmts) :
        /\ s.is # "perhaps" /\ (s.is = "for" => ~Declares(s.init))
        /\ s.is = "switch" /\ HasDefault(s) => \A l \in Lists(s) : ~Closes(l)
        /\ s.is = "try" => ~Within(s.fin, "read") /\ Len(s.catches) <= 1
        /\ s.is = "for" /\ Within(s.update, "read") => ~Within(s.body, "continue")

\* On no path of a body that the checker accepts is a variable read before it is
\* declared and assigned, also where an inner block (not the head of a for) declares
\* its name again (flow.rs, traversal.rs).
LocalsAreAssigned ==
    WellFormed(program) /\ FlowCovers(program) =>
        LET right == \A st \in Paths(Local(program)) : ~st.bad
        IN  /\ FlowAccepts(Local(program)) => right
            /\ Simple(program) /\ right => FlowAccepts(Local(program))

\* "retorna por toda ruta: error VN4018 si el cuerpo puede terminar sin return ni
\* throw" (docs/lang/types.md).
NoWayPastReturn ==
    WellFormed(program) /\ ~Completes(program) => Ends(program) = {}
=============================================================================
