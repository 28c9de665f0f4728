------------------------------ MODULE Lowering ------------------------------
(***************************************************************************)
(* The lowering of one function body, as far as the ends of values depend  *)
(* on it: the blocks it reserves and in which order, the branches between  *)
(* them, and, per block, what it journals for the drop pass and marks for  *)
(* the borrow checker.  Values and conditions are left out: a condition is *)
(* a branch either way, a value is a fresh one or the one in a place.      *)
(*                                                                         *)
(* A body is lowered statement by statement (lower_stmt): every body that  *)
(* keeps to MaxStatements and Allowance is a behaviour of this module.     *)
(***************************************************************************)
EXTENDS Places

CONSTANTS
    NamedParts,     \* the parts of a place that statements name
    Allowance,      \* how many statements of each kind a body has at most
    MaxStatements   \* how many it has at most, by the type of its one parameter

ASSUME LoweringAssumption ==
    /\ DOMAIN MaxStatements \subseteq Shapes
    /\ \A t \in DOMAIN MaxStatements : MaxStatements[t] \in Nat
    /\ NamedParts \subseteq 1..2
    /\ \A kind \in DOMAIN Allowance : Allowance[kind] \in Nat

VARIABLES
    phase,      \* what the compiler is at: this module is "lower"
    types,      \* locals: the type of each local so far
    code,       \* streams_, ownership_, end_sites_: per block, what was put there
    succ,       \* the targets of each block's terminator
    shut,       \* the blocks that have a terminator
    cur,        \* cur_
    open,       \* the statements being lowered, the innermost last
    visible,    \* the locals a name can reach
    left,       \* how many more statements the body may have
    quota,      \* and of each kind
    irregular   \* history: forms of the body the properties tell apart

lowerVars == <<types, code, succ, shut, cur, open, visible, left, quota, irregular>>

(***************************************************************************)
(* What a block can hold.                                                  *)
(*   bind l    Alloca and Store of a new local, and its Bind event         *)
(*   take p    a use of p that consumes it: Move marker and Move event     *)
(*   spend p   the same marker and event, with the value left in its slot  *)
(*   leave p   record_move_event alone                                     *)
(*   mark p    emit_move_marker alone                                      *)
(*   read p    a Load of the place                                         *)
(*   store p   Store over p, and its Store event                           *)
(*   drop p    record_drop_in_place                                        *)
(*   end l, m  an end site for the locals l to m                           *)
(***************************************************************************)
Op(kind, place) == [do |-> kind, at |-> place]

OpKinds == {"bind", "take", "spend", "leave", "mark", "read", "store", "drop", "end"}

Blocks == DOMAIN code

\* terminated_cur
Terminated == cur \in shut

\* Appending to a block's stream.
Put(c, b, ops) == [c EXCEPT ![b] = @ \o ops]

\* record_end: nothing to record when no local was bound since the mark.
RecordEnd(mark, n) == IF mark >= n THEN <<>> ELSE <<Op("end", <<mark + 1, n>>)>>

\* reserve_block, called n times.
Reserve(c, n) == c \o [i \in 1..n |-> <<>>]
ReserveTargets(s, n) == s \o [i \in 1..n |-> {}]

\* The innermost open loop: break_targets_.back(), continue_targets_.back().
Loops == {i \in DOMAIN open : open[i].form = "while"}
InnermostAt == CHOOSE i \in Loops : \A j \in Loops : j <= i
Innermost == open[InnermostAt]

Top == open[Len(open)]
Pop == SubSeq(open, 1, Len(open) - 1)

\* The places a statement can name, and those that hold an enum a pattern tests.
Named ==
    {<<l>> : l \in visible}
      \cup {<<l, f>> : l \in {v \in visible : types[v] # "leaf"}, f \in NamedParts}
Enums == {<<l>> : l \in {v \in visible : types[v] = "leaf"}}

\* lower_fn: the entry block binds the parameter.
LowerInit ==
    /\ phase = "lower"
    /\ \E t \in DOMAIN MaxStatements : types = <<t>> /\ left = MaxStatements[t]
    /\ code = << <<Op("bind", <<1>>)>> >>
    /\ succ = <<{}>>
    /\ shut = {}
    /\ cur = 1
    /\ open = <<>>
    /\ visible = {1}
    /\ quota = Allowance
    /\ irregular = {}

(***************************************************************************)
(* lower_stmt: a statement is lowered where the block is still open.       *)
(***************************************************************************)
Statement(kind) ==
    /\ phase = "lower"
    /\ ~Terminated
    /\ left > 0
    /\ kind \in DOMAIN quota
    /\ quota[kind] > 0
    /\ left' = left - 1
    /\ quota' = [quota EXCEPT ![kind] = @ - 1]
    /\ UNCHANGED phase

\* A statement that stays in the block it is in.
Straight(ops) ==
    /\ code' = Put(code, cur, ops)
    /\ UNCHANGED <<succ, shut, cur, open>>

\* A use of a scrutinee inside the arm its pattern matched in, where the borrow
\* marker has not come yet.
NoteUse(p) ==
    IF \E i \in DOMAIN open : p # <<>> /\ open[i].form = "then" /\ open[i].scrutinee = p
    THEN {"late marker"} ELSE {}

\* let v = make();
Let ==
    /\ Statement("let")
    /\ types' = Append(types, "leaf")
    /\ visible' = visible \cup {Len(types) + 1}
    /\ Straight(<<Op("bind", <<Len(types) + 1>>)>>)
    /\ UNCHANGED irregular

\* take(p);
Take(p) ==
    /\ Statement("use")
    /\ Straight(<<Op("take", p)>>)
    /\ irregular' = irregular \cup NoteUse(p)
    /\ UNCHANGED <<types, visible>>

\* p;  or  _ := p;  The place is consumed first, and the value ended where it is.
Discard(p) ==
    /\ Statement("use")
    /\ Straight(<<Op("spend", p), Op("drop", p)>>)
    /\ irregular' = irregular \cup NoteUse(p)
    /\ UNCHANGED <<types, visible>>

\* p = make();
Assign(p) ==
    /\ Statement("assign")
    /\ Straight(<<Op("store", p)>>)
    /\ UNCHANGED <<types, visible, irregular>>

\* take(S { a: make(), ..p });  The part the initializer wrote ends where it
\* stands, the other one moves into the result.
Update(p) ==
    /\ Statement("use")
    /\ TypeAt(types, p) = "struct"
    /\ Straight(<<Op("drop", Append(p, 1)), Op("take", Append(p, 2))>>)
    /\ UNCHANGED <<types, visible, irregular>>

(***************************************************************************)
(* lower_if.  The blocks are reserved in the order else, then-epilogue,    *)
(* else-epilogue, then; the join only when an epilogue that is reached     *)
(* asks for it.                                                            *)
(***************************************************************************)
ElseBlock(f) == f.base + 1
ThenEpilogue(f) == f.base + 2
ElseEpilogue(f) == f.base + 3
ThenBlock(f) == f.base + 4

IfFrame(form, scrutinee, mark) ==
    [form |-> form, base |-> Len(code), scrutinee |-> scrutinee,
     arm |-> Len(types), mark |-> mark, names |-> visible, thenLive |-> FALSE]

OpenArms(frame, before, atTop) ==
    /\ code' = Put(Put(Reserve(code, 4), cur, before), ThenBlock(frame), atTop)
    /\ succ' = [ReserveTargets(succ, 4)
                   EXCEPT ![cur] = {ThenBlock(frame), ElseBlock(frame)}]
    /\ shut' = shut \cup {cur}
    /\ cur' = ThenBlock(frame)
    /\ open' = Append(open, frame)
    /\ irregular' = irregular \cup NoteUse(frame.scrutinee)

\* if c {
OpenIf ==
    /\ Statement("if")
    /\ OpenArms(IfFrame("then", <<>>, Len(types)), <<>>, <<>>)
    /\ UNCHANGED <<types, visible>>

\* if P(v) := s {   The payload is bound at the top of the body, where the
\* drop walk's move event lands too; the borrow marker waits for the tail.
OpenIfIs(s) ==
    /\ Statement("if is")
    /\ LET v == Len(types) + 1
       IN  /\ types' = Append(types, "leaf")
           /\ visible' = visible \cup {v}
           /\ OpenArms(IfFrame("then", s, v), <<Op("read", s)>>,
                       <<Op("bind", <<v>>), Op("leave", s)>>)

\* The tail of an arm that is still open: the block's own end, what the
\* pattern's arm adds, and the arm's end.
ArmTail(f, extra) ==
    RecordEnd(f.mark, Len(types)) \o extra \o RecordEnd(f.arm, Len(types))

ThenTail(f) ==
    ArmTail(f, IF f.scrutinee = <<>> THEN <<>> ELSE <<Op("mark", f.scrutinee)>>)
ElseTail(f) ==
    ArmTail(f, IF f.scrutinee = <<>> THEN <<>> ELSE <<Op("drop", f.scrutinee)>>)

\* } else {
Else ==
    /\ phase = "lower"
    /\ open # <<>>
    /\ Top.form = "then"
    /\ code' = IF Terminated THEN code ELSE Put(code, cur, ThenTail(Top))
    /\ succ' = IF Terminated THEN succ ELSE [succ EXCEPT ![cur] = {ThenEpilogue(Top)}]
    /\ shut' = shut \cup {cur}
    /\ cur' = ElseBlock(Top)
    /\ open' = Append(Pop, [Top EXCEPT !.form = "else", !.mark = Len(types),
                              !.arm = IF Top.scrutinee = <<>> THEN Len(types) ELSE @,
                              !.thenLive = ~Terminated])
    /\ visible' = Top.names
    /\ UNCHANGED <<phase, types, left, quota, irregular>>

\* fill_epilogue, for both arms: a reached epilogue branches to the join, which
\* the first one reserves; with none reached the statement never ends.
FillEpilogues(f, c, s, thenLive, elseLive) ==
    LET join == Len(c) + 1
        live == thenLive \/ elseLive
        To(l) == IF l THEN {join} ELSE {}
        more == IF live THEN 1 ELSE 0
    IN  /\ code' = Reserve(c, more)
        /\ succ' = [ReserveTargets(s, more) EXCEPT
                       ![ThenEpilogue(f)] = To(thenLive),
                       ![ElseEpilogue(f)] = To(elseLive)]
        /\ cur' = IF live THEN join ELSE ElseEpilogue(f)

\* }   where there is no else: the empty arm owns everything.
CloseThen ==
    /\ phase = "lower"
    /\ open # <<>>
    /\ Top.form = "then"
    /\ LET f == Top
           c == IF Terminated THEN code ELSE Put(code, cur, ThenTail(f))
           s == IF Terminated THEN succ ELSE [succ EXCEPT ![cur] = {ThenEpilogue(f)}]
       IN  /\ FillEpilogues(f, c, [s EXCEPT ![ElseBlock(f)] = {ElseEpilogue(f)}],
                            ~Terminated, TRUE)
           /\ shut' = shut \cup {cur, ElseBlock(f), ThenEpilogue(f), ElseEpilogue(f)}
           /\ visible' = f.names
    /\ open' = Pop
    /\ UNCHANGED <<phase, types, left, quota, irregular>>

\* }   after the else arm.
CloseElse ==
    /\ phase = "lower"
    /\ open # <<>>
    /\ Top.form = "else"
    /\ LET f == Top
           c == IF Terminated THEN code ELSE Put(code, cur, ElseTail(f))
           s == IF Terminated THEN succ ELSE [succ EXCEPT ![cur] = {ElseEpilogue(f)}]
       IN  /\ FillEpilogues(f, c, s, f.thenLive, ~Terminated)
           /\ shut' = shut \cup {cur, ThenEpilogue(f), ElseEpilogue(f)}
           /\ visible' = f.names
    /\ open' = Pop
    /\ UNCHANGED <<phase, types, left, quota, irregular>>

(***************************************************************************)
(* lower_while: header, body and exit are reserved at once.                *)
(***************************************************************************)
Header(f) == f.base + 1
LoopBody(f) == f.base + 2

\* Fault: the exit is counted as if it were reserved behind a fourth block.
ExitMiscounted(f) == f.base + 4

Exit(f) == f.base + 3

WhileFrame(mark) ==
    [form |-> "while", base |-> Len(code), scrutinee |-> <<>>,
     arm |-> Len(types), mark |-> mark, names |-> visible, thenLive |-> FALSE]

OpenLoop(f, inHeader, atTop) ==
    /\ code' = [Reserve(code, 3) EXCEPT ![Header(f)] = inHeader, ![LoopBody(f)] = atTop]
    /\ succ' = [ReserveTargets(succ, 3) EXCEPT
                   ![cur] = {Header(f)}, ![Header(f)] = {LoopBody(f), Exit(f)}]
    /\ shut' = shut \cup {cur, Header(f)}
    /\ cur' = LoopBody(f)
    /\ open' = Append(open, f)

\* while c {
OpenWhile ==
    /\ Statement("loop")
    /\ OpenLoop(WhileFrame(Len(types)), <<>>, <<>>)
    /\ UNCHANGED <<types, visible, irregular>>

\* while P(v) := s {   The header tests and the body binds and takes.
OpenWhileIs(s) ==
    /\ Statement("loop")
    /\ LET v == Len(types) + 1
       IN  /\ types' = Append(types, "leaf")
           /\ visible' = visible \cup {v}
           /\ OpenLoop(WhileFrame(v), <<Op("read", s)>>,
                       <<Op("bind", <<v>>), Op("take", s)>>)
    /\ irregular' = irregular \cup NoteUse(s)

\* }   The body's locals end, then the condition's, before the next test.
CloseWhile ==
    /\ phase = "lower"
    /\ open # <<>>
    /\ Top.form = "while"
    /\ code' = IF Terminated THEN code ELSE Put(code, cur, ArmTail(Top, <<>>))
    /\ succ' = IF Terminated THEN succ ELSE [succ EXCEPT ![cur] = {Header(Top)}]
    /\ shut' = shut \cup {cur}
    /\ cur' = Exit(Top)
    /\ open' = Pop
    /\ visible' = Top.names
    /\ UNCHANGED <<phase, types, left, quota, irregular>>

(***************************************************************************)
(* Leaving early.  Everything bound since the mark ends here, in whichever *)
(* nested block the statement stands; for a return that is every local the *)
(* body has bound so far, the ones whose scope is closed included.         *)
(***************************************************************************)
Leave(mark, targets) ==
    /\ code' = Put(code, cur, RecordEnd(mark, Len(types)))
    /\ succ' = [succ EXCEPT ![cur] = targets]
    /\ shut' = shut \cup {cur}
    /\ UNCHANGED <<types, cur, open, visible>>

\* A jump out of the arm a pattern matched in passes its borrow marker by.
NoteLeave ==
    IF \E i \in DOMAIN open : /\ i > InnermostAt
                              /\ open[i].form = "then"
                              /\ open[i].scrutinee # <<>>
    THEN {"late marker"} ELSE {}

Break ==
    /\ Statement("jump")
    /\ Loops # {}
    /\ Leave(Innermost.arm, {Exit(Innermost)})
    /\ irregular' = irregular \cup NoteLeave

\* Fault: only the innermost block's own locals end.
ContinueFromBlock ==
    /\ Statement("jump")
    /\ Loops # {}
    /\ Leave(Top.mark, {Header(Innermost)})
    /\ irregular' = irregular \cup NoteLeave

Continue ==
    /\ Statement("jump")
    /\ Loops # {}
    /\ Leave(Innermost.arm, {Header(Innermost)})
    /\ irregular' = irregular \cup NoteLeave

Return ==
    /\ Statement("jump")
    /\ Leave(0, {})
    /\ UNCHANGED irregular

\* The end of lower_fn: the body's block ends its locals, the function the rest.
Finish ==
    /\ phase = "lower"
    /\ open = <<>>
    /\ code' = IF Terminated THEN code
               ELSE Put(code, cur, RecordEnd(1, Len(types)) \o RecordEnd(0, Len(types)))
    /\ shut' = shut \cup {cur}
    /\ phase' = "place"
    /\ visible' = {}
    /\ left' = 0
    /\ quota' = <<>>
    /\ cur' = 1
    /\ UNCHANGED <<types, succ, open, irregular>>

LowerNext ==
    \/ Let
    \/ \E p \in Named : Take(p) \/ Discard(p) \/ Assign(p) \/ Update(p)
    \/ \E s \in Enums : OpenIfIs(s) \/ OpenWhileIs(s)
    \/ OpenIf \/ Else \/ CloseThen \/ CloseElse
    \/ OpenWhile \/ CloseWhile
    \/ Break \/ Continue \/ Return
    \/ Finish
=============================================================================
