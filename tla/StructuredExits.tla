--------------------------- MODULE StructuredExits ---------------------------
(***************************************************************************)
(* How the front end lowers the ways out of a statement (crates/varn-emit  *)
(* src/body): the source has labelled loops, do loops, for loops with an   *)
(* update, walks over a generator that is closed on the way out, blocks    *)
(* with a `using`, and try with typed catches and a finally.  The typed IR *)
(* it is lowered to has only if, loop, break, continue and a try with one  *)
(* handler, so a finally is copied before each exit that crosses it, a do  *)
(* loop ends in its test, and a labelled jump becomes a flag that the      *)
(* loops in between look at.                                               *)
(*                                                                         *)
(* A behaviour builds a program from the inside out; in each state Lower   *)
(* gives its IR, and Exec runs either language: a program that means       *)
(* something else once lowered is a state that violates the property.      *)
(***************************************************************************)
EXTENDS Naturals, Sequences, FiniteSets, SequencesExt

CONSTANTS
    Labels,     \* labels of loops
    Nestings,   \* the constructs a program may be put into
    MaxNest,    \* bound: constructs around the innermost statement
    MaxChoices, \* bound: conditional exits beside it
    MaxTurns,   \* bound: turns of a loop that nothing leaves
    None

VARIABLES
    program,  \* statements of the source
    nest,     \* constructs so far: each has its number
    choices   \* conditional exits so far

exitVars == <<program, nest, choices>>

Ids == 1..MaxNest
Errors == {"A", "B"}

\* Statements of both languages.
Log(what) == [is |-> "log", what |-> what]
Boom == [is |-> "boom"]                     \* an expression that raises B
Throw(e) == [is |-> "throw", err |-> e, of |-> 0]
Return == [is |-> "return", held |-> FALSE]
Break(l) == [is |-> "break", label |-> l]
Continue(l) == [is |-> "continue", label |-> l]
If(test, then, orelse) == [is |-> "if", test |-> test, then |-> then, orelse |-> orelse]
\* Tests: the parity of the log, whether the iterator of a loop has another
\* item, the error of a handler, and the locals the lowering makes.
Test(on, id, value) == [on |-> on, id |-> id, value |-> value]
Always == Test("always", 0, 0)
Next_(id) == Test("next", id, 0)
Loop(label, test, update, close, body) ==
    [is |-> "loop", label |-> label, test |-> test, update |-> update,
     close |-> close, body |-> body]
\* do body while (test).
Do(label, test, body) == [Loop(label, test, <<>>, <<>>, body) EXCEPT !.is = "do"]
Loops == {"loop", "do"}
\* Of the IR alone.
Set(local, id, value) == [is |-> "set", local |-> local, id |-> id, value |-> value]
Hold(held) == [is |-> "hold", held |-> held]
TirTry(id, body, handler) == [is |-> "tirtry", id |-> id, body |-> body, handler |-> handler]

-----------------------------------------------------------------------------
\* The meaning of both languages.
Straight == [how |-> "on", label |-> None, err |-> None, value |-> 0]
Start == [trace |-> <<>>, exit |-> Straight, ok |-> TRUE, held |-> 0,
          flag |-> [i \in Ids |-> 0], first |-> [i \in Ids |-> 0],
          turn |-> [i \in Ids |-> 0], caught |-> [i \in Ids |-> None]]

Leaves(st, how, label, err, value) ==
    [st EXCEPT !.exit = [how |-> how, label |-> label, err |-> err, value |-> value]]
On(st) == [st EXCEPT !.exit = Straight]

Ask(test, st) ==
    CASE test.on = "always" -> [st EXCEPT !.ok = TRUE]
      [] test.on = "even" -> [st EXCEPT !.ok = Len(st.trace) % 2 = 0]
      [] test.on = "next" -> [st EXCEPT !.ok = st.turn[test.id] < MaxTurns,
                                        !.turn[test.id] = @ + 1]
      [] test.on = "caught" -> [st EXCEPT !.ok = st.caught[test.id] = test.value]
      [] test.on = "flag" -> [st EXCEPT !.ok = st.flag[test.id] = test.value]
      [] test.on = "jumping" -> [st EXCEPT !.ok = st.flag[test.id] # 0]
      [] test.on = "first" -> [st EXCEPT !.ok = st.first[test.id] = test.value]

RECURSIVE Run(_, _), Step(_, _), Turns(_, _), Turn(_, _)
Run(stmts, st) ==
    IF stmts = <<>> \/ st.exit # Straight THEN st
    ELSE Run(Tail(stmts), Step(Head(stmts), st))

\* The exit st is at goes on after fin, unless fin leaves in its own way.
Finish(st, fin) ==
    LET u == Run(fin, On(st))
    IN  IF u.exit = Straight THEN [u EXCEPT !.exit = st.exit] ELSE u

Turns(s, st) ==
    LET asked == Ask(s.test, st)
    IN  IF asked.ok THEN Turn(s, asked) ELSE asked

Turn(s, st) ==
    LET u == Run(s.body, st)
        mine == u.exit.label \in {None, s.label}
    IN  IF u.exit.how = "break" /\ mine THEN On(u)
        ELSE IF u.exit = Straight \/ (u.exit.how = "continue" /\ mine)
        THEN Turns(s, Run(s.update, On(u)))
        ELSE u

FirstFor(clauses, err) ==
    SelectSeq(clauses, LAMBDA c : c.type \in {None, err})

Step(s, st) ==
    CASE s.is = "log" -> [st EXCEPT !.trace = Append(@, s.what)]
      [] s.is = "boom" -> Leaves(st, "throw", None, "B", 0)
      [] s.is = "throw" ->
            Leaves(st, "throw", None, IF s.of = 0 THEN s.err ELSE st.caught[s.of], 0)
      [] s.is = "return" ->
            Leaves(st, "return", None, None, IF s.held THEN st.held ELSE Len(st.trace))
      [] s.is \in {"break", "continue"} -> Leaves(st, s.is, s.label, None, 0)
      [] s.is = "if" ->
            LET asked == Ask(s.test, st)
            IN  Run(IF asked.ok THEN s.then ELSE s.orelse, asked)
      [] s.is = "loop" ->
            Finish(Turns(s, IF s.test = Always THEN st ELSE [st EXCEPT !.turn[s.test.id] = 0]),
                   s.close)
      [] s.is = "do" -> Turn(s, [st EXCEPT !.turn[s.test.id] = 0])
      [] s.is = "block" -> Finish(Run(s.body, st), s.close)
      [] s.is = "try" ->
            LET u == Run(s.body, st)
                clauses == FirstFor(s.catches, u.exit.err)
            IN  Finish(IF u.exit.how = "throw" /\ clauses # <<>>
                       THEN Run(Head(clauses).body, On(u)) ELSE u, s.fin)
      [] s.is = "set" ->
            IF s.local = "flag" THEN [st EXCEPT !.flag[s.id] = s.value]
            ELSE IF s.local = "first" THEN [st EXCEPT !.first[s.id] = s.value]
            ELSE [st EXCEPT !.turn[s.id] = s.value]
      [] s.is = "hold" -> [st EXCEPT !.held = IF s.held THEN @ ELSE Len(st.trace)]
      [] s.is = "tirtry" ->
            LET u == Run(s.body, st)
            IN  IF u.exit.how # "throw" THEN u
                ELSE Run(s.handler, On([u EXCEPT !.caught[s.id] = u.exit.err]))

Exec(stmts) == LET u == Run(stmts, Start) IN <<u.trace, u.exit>>

-----------------------------------------------------------------------------
\* The lowering.  A loop that is being lowered is known by its label and number.

\* splice_finally_impl: fin goes before the exits in `on`; those of a loop's
\* body that stay inside the loop are none, and an explicit throw is one only
\* where no try encloses it.
RECURSIVE Splice(_, _, _)
Splice(stmts, fin, on) ==
    FlattenSeq([k \in DOMAIN stmts |->
        LET s == stmts[k]
        IN  CASE s.is = "return" ->
                    <<Hold(s.held)>> \o fin \o <<[s EXCEPT !.held = TRUE]>>
              [] s.is \in {"break", "continue", "throw"} \cap on -> Append(fin, s)
              [] s.is = "if" -> <<[s EXCEPT !.then = Splice(@, fin, on),
                                            !.orelse = Splice(@, fin, on)]>>
              [] s.is = "loop" -> <<[s EXCEPT !.body = Splice(@, fin, {"return"})]>>
              [] s.is = "tirtry" -> <<[s EXCEPT !.body = Splice(@, fin, on \ {"throw"}),
                                                !.handler = Splice(@, fin, on)]>>
              [] OTHER -> <<s>>])

Exits == {"return", "break", "continue"}

\* The body, the handler and what follows them, each with its copies of fin.
WithFinally(id, body, handler, fin) ==
    IF fin = <<>> THEN <<TirTry(id, body, handler)>>
    ELSE <<TirTry(id, Splice(body, fin, Exits),
                      Splice(handler, fin, Exits \cup {"throw"}))>> \o fin

Rethrow(id) == [is |-> "throw", err |-> None, of |-> id]

\* has_continue: a `continue` of this loop, or a labelled one of a loop inside.
RECURSIVE HasContinue(_, _)
HasContinue(stmts, nested) ==
    \E k \in DOMAIN stmts :
        LET s == stmts[k]
        IN  CASE s.is = "continue" -> nested => s.label # None
              [] s.is = "if" -> HasContinue(s.then, nested) \/ HasContinue(s.orelse, nested)
              [] s.is = "block" -> HasContinue(s.body, nested)
              [] s.is \in Loops -> HasContinue(s.body, TRUE)
              [] s.is = "try" ->
                    \/ HasContinue(s.body, nested) \/ HasContinue(s.fin, nested)
                    \/ \E c \in DOMAIN s.catches : HasContinue(s.catches[c].body, nested)
              [] OTHER -> FALSE

\* The innermost loop with a label, 0 if there is none (rposition).
Target(loops, label) == SelectLastInSeq(loops, LAMBDA f : f.label = label /\ label # None)

\* The loops that labelled jumps within stmts leave other loops to reach: those
\* that get a flag, which the loops in between are crossed by.
RECURSIVE Jumps(_, _)
Jumps(stmts, loops) ==
    UNION {LET s == stmts[k]
           IN  CASE s.is \in {"break", "continue"} ->
                        {Target(loops, s.label)} \ {0, Len(loops)}
                 [] s.is = "if" -> Jumps(s.then, loops) \cup Jumps(s.orelse, loops)
                 [] s.is = "block" -> Jumps(s.body, loops)
                 [] s.is \in Loops ->
                        Jumps(s.body, Append(loops, [label |-> s.label, id |-> s.test.id]))
                 [] s.is = "try" ->
                        Jumps(s.body, loops) \cup Jumps(s.fin, loops)
                        \cup UNION {Jumps(s.catches[c].body, loops) : c \in DOMAIN s.catches}
                 [] OTHER -> {}
           : k \in DOMAIN stmts}

LEAVE == 1
AGAIN == 2

JumpTo(s, loops) ==
    LET target == Target(loops, s.label)
        direct == [s EXCEPT !.label = None]
    IN  IF target \in {0, Len(loops)} THEN <<direct>>
        ELSE <<Set("flag", loops[target].id, IF s.is = "break" THEN LEAVE ELSE AGAIN),
               Break(None)>>

\* Variant: the flag is not cleared by the loop it is for.
OnwardSticky(target, around, id) ==
    IF target = around
    THEN <<If(Test("flag", id, LEAVE), <<Break(None)>>, <<>>),
           If(Test("flag", id, AGAIN), <<Continue(None)>>, <<>>)>>
    ELSE <<If(Test("jumping", id, 0), <<Break(None)>>, <<>>)>>
\* What follows a loop that a jump to another crosses.
Onward(target, around, id) ==
    IF target = around
    THEN <<If(Test("flag", id, LEAVE), <<Set("flag", id, 0), Break(None)>>, <<>>),
           If(Test("flag", id, AGAIN), <<Set("flag", id, 0), Continue(None)>>, <<>>)>>
    ELSE <<If(Test("jumping", id, 0), <<Break(None)>>, <<>>)>>

\* lower_for: the update stands at the end of the body, unless a `continue`
\* would skip it; then it comes first in every turn but the first.
ForLoop(s, body) ==
    LET id == s.test.id
    IN  IF ~HasContinue(s.body, FALSE)
        THEN <<Loop(None, s.test, <<>>, <<>>, body \o s.update)>>
        ELSE <<Set("first", id, 1),
               Loop(None, Always, <<>>, <<>>,
                    <<If(Test("first", id, 0), s.update, <<>>),
                      Set("first", id, 0),
                      If(s.test, <<>>, <<Break(None)>>)>> \o body)>>

\* The test of a do loop ends its body: a `continue` goes to the head, past it.
DoLoop(s, body) == Loop(None, Always, <<>>, <<>>, body \o <<If(s.test, <<>>, <<Break(None)>>)>>)

\* for_of_protocol and closing_on_exit.
Walk(s, body) ==
    WithFinally(s.test.id,
                <<Loop(None, Always, <<>>, <<>>,
                       <<If(s.test, <<>>, <<Break(None)>>)>> \o body)>>,
                <<Rethrow(s.test.id)>>, s.close)

RECURSIVE Lower(_, _), LowerLoop(_, _)
\* The handler: typed clauses from the first, then the one without a type, or
\* the error is thrown again.
Chain(id, clauses, loops) ==
    LET any == SelectSeq(clauses, LAMBDA c : c.type = None)
    IN  FoldRight(LAMBDA c, rest :
                      <<If(Test("caught", id, c.type), Lower(c.body, loops), rest)>>,
                  SelectSeq(clauses, LAMBDA c : c.type # None),
                  IF any = <<>> THEN <<Rethrow(id)>> ELSE Lower(Head(any).body, loops))

Lower(stmts, loops) ==
    FlattenSeq([k \in DOMAIN stmts |->
        LET s == stmts[k]
        IN  CASE s.is \in {"break", "continue"} -> JumpTo(s, loops)
              [] s.is = "if" -> <<If(s.test, Lower(s.then, loops), Lower(s.orelse, loops))>>
              [] s.is = "block" -> Lower(s.body, loops) \o s.close
              [] s.is \in Loops -> LowerLoop(s, loops)
              [] s.is = "try" -> WithFinally(s.id, Lower(s.body, loops),
                                             Chain(s.id, s.catches, loops),
                                             Lower(s.fin, loops))
              [] OTHER -> <<s>>])

LowerLoop(s, loops) ==
    LET id == s.test.id
        inner == Append(loops, [label |-> s.label, id |-> id])
        body == Lower(s.body, inner)
        jumps == Jumps(s.body, inner)
        around == Len(loops)
        flag == IF Len(inner) \in jumps THEN <<Set("flag", id, 0)>> ELSE <<>>
        crossing == SetToSortSeq(jumps \cap DOMAIN loops, <)
    IN  flag \o <<Set("turn", id, 0)>>
        \o (IF s.is = "do" THEN <<DoLoop(s, body)>>
            ELSE IF s.close # <<>> THEN Walk(s, body)
            ELSE IF s.update # <<>> THEN ForLoop(s, body)
            ELSE <<Loop(None, s.test, <<>>, <<>>, body)>>)
        \o FlattenSeq([k \in DOMAIN crossing |->
                           Onward(crossing[k], around, loops[crossing[k]].id)])

-----------------------------------------------------------------------------
\* The programs: an exit, or nothing, in constructs that log what they do.
Leaf == {Log("work"), Boom, Throw("A"), Return}
        \cup {Break(l) : l \in Labels \cup {None}} \cup {Continue(l) : l \in Labels \cup {None}}

ExitsInit == program \in {<<s>> : s \in Leaf} /\ nest = 0 /\ choices = 0

Clause(type, body) == [type |-> type, body |-> body]
Try(id, body, catches, fin) ==
    [is |-> "try", id |-> id, body |-> body, catches |-> catches, fin |-> fin]
Noted(body) == <<Log("in")>> \o body \o <<Log("out")>>
Fin == <<Log("finally")>>
Handled == <<Log("handled")>>

\* One more construct around the program p.
Around(p, id) ==
    [while |-> {Loop(l, Next_(id), <<>>, <<>>, p) : l \in Labels \cup {None}},
     do |-> {Do(l, Next_(id), p) : l \in Labels \cup {None}},
     for |-> {Loop(l, Next_(id), <<Log("update")>>, <<>>, p) : l \in Labels \cup {None}},
     walk |-> {Loop(l, Next_(id), <<>>, <<Log("close")>>, p) : l \in Labels \cup {None}},
     using |-> {[is |-> "block", body |-> p, close |-> <<Log("dispose")>>]},
     body |-> {Try(id, p, <<>>, Fin), Try(id, p, <<Clause(None, Handled)>>, Fin),
             Try(id, p, <<Clause("A", Handled)>>, Fin),
             Try(id, p, <<Clause("A", Handled), Clause(None, Fin)>>, <<>>)},
     handler |-> {Try(id, <<Boom>>, <<Clause(None, p)>>, Fin),
                Try(id, <<Throw("A")>>, <<Clause("A", p)>>, Fin)},
     finally |-> {Try(id, <<Return>>, <<Clause(None, Handled)>>, p)}]
Nest(kind) ==
    /\ nest < MaxNest
    /\ nest' = nest + 1
    /\ \E s \in Around(Noted(program), nest + 1)[kind] : program' = <<s>>
    /\ UNCHANGED choices

\* A conditional exit before the rest.
Choose ==
    /\ choices < MaxChoices
    /\ choices' = choices + 1
    /\ \E s \in Leaf : program' = <<If(Test("even", 0, 0), <<s>>, program)>>
    /\ UNCHANGED nest

ExitsNext == Choose \/ \E kind \in Nestings : Nest(kind)
ExitsSpec == ExitsInit /\ [][ExitsNext]_exitVars

-----------------------------------------------------------------------------
\* Only programs whose jumps have a loop to go to get past the checker.
RECURSIVE Closed(_, _)
Closed(stmts, loops) ==
    \A k \in DOMAIN stmts :
        LET s == stmts[k]
        IN  CASE s.is \in {"break", "continue"} ->
                    IF s.label = None THEN loops # <<>> ELSE Target(loops, s.label) # 0
              [] s.is = "if" -> Closed(s.then, loops) /\ Closed(s.orelse, loops)
              [] s.is = "block" -> Closed(s.body, loops)
              [] s.is \in Loops ->
                    Closed(s.body, Append(loops, [label |-> s.label, id |-> s.test.id]))
              [] s.is = "try" ->
                    /\ Closed(s.body, loops) /\ Closed(s.fin, loops)
                    /\ \A c \in DOMAIN s.catches : Closed(s.catches[c].body, loops)
              [] OTHER -> TRUE

\* What the lowering is known not to cover: a `continue` of a do loop, an exit of a
\* block with a `using`, an expression that raises in a handler whose try has a
\* finally, a throw in a loop of such a handler, and anything but straight statements
\* in a finally.  `not` holds the statements that may not stand here, `past` the labels
\* that a `continue` may not have.
RECURSIVE Covered(_, _, _)
Covered(stmts, not, past) ==
    \A k \in DOMAIN stmts :
        LET s == stmts[k]
            abrupt == Exits \cup {"throw", "boom"}
            inner == past \ {None, s.label}
            inLoop == IF "boom" \in not THEN not \cup {"throw"} ELSE not
        IN  CASE s.is \in abrupt ->
                    s.is \notin not /\ (s.is = "continue" => s.label \notin past)
              [] s.is = "if" -> Covered(s.then, not, past) /\ Covered(s.orelse, not, past)
              [] s.is = "block" -> Covered(s.body, abrupt, past)
              [] s.is = "loop" -> Covered(s.body, inLoop, inner)
              [] s.is = "do" -> Covered(s.body, inLoop, inner \cup {None, s.label})
              [] s.is = "try" ->
                    /\ Covered(s.body, not, past) /\ Covered(s.fin, abrupt, past)
                    /\ \A c \in DOMAIN s.catches :
                           Covered(s.catches[c].body,
                                   IF s.fin = <<>> THEN not ELSE not \cup {"boom"}, past)
              [] OTHER -> TRUE

\* Programs of the IR: no label, finally, clause,
\* `using`, update or closing walk is left for the back end to see.
RECURSIVE IsTir(_)
IsTir(stmts) ==
    \A k \in DOMAIN stmts :
        LET s == stmts[k]
        IN  CASE s.is \in {"break", "continue"} -> s.label = None
              [] s.is = "if" -> IsTir(s.then) /\ IsTir(s.orelse)
              [] s.is = "loop" ->
                    s.label = None /\ s.update = <<>> /\ s.close = <<>> /\ IsTir(s.body)
              [] s.is = "tirtry" -> IsTir(s.body) /\ IsTir(s.handler)
              [] OTHER -> s.is \in {"log", "boom", "throw", "return", "set", "hold"}

\* The lowering reaches the IR, and a program and its IR do the same things in the
\* same order and end the same way, with the same value or error, whatever exit
\* crosses whatever loops, handlers and finally blocks (lower_try, splice_finally_impl,
\* lower_loop, jump_to, lower_for, closing_on_exit), for the programs the lowering
\* covers.
LoweringKeepsMeaning ==
    LET lowered == Lower(program, <<>>)
    IN  /\ IsTir(lowered)
        /\ Closed(program, <<>>) /\ Covered(program, {}, {}) => Exec(lowered) = Exec(program)

\* "finally siempre se ejecuta" (docs/lang/statements.md): a finally that the
\* source runs, the lowered program runs, and as often.
FinallyAlwaysRuns ==
    LET finals(stmts) == Len(SelectSeq(Exec(stmts)[1], LAMBDA e : e = "finally"))
    IN  Closed(program, <<>>) => finals(Lower(program, <<>>)) = finals(program)
=============================================================================
