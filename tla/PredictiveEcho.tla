--------------------------- MODULE PredictiveEcho ---------------------------
(***************************************************************************)
(* Guessing the echo of what is typed at a remote shell, over a link on     *)
(* which keys and output are on their way.  The remote reads lines one      *)
(* after the other: at a shell's prompt, which echoes; at a prompt that     *)
(* shows "*" for every key; at one that shows nothing.                      *)
(***************************************************************************)
EXTENDS Integers, Sequences, FiniteSets, TLC

CONSTANTS
    Chars,          \* characters typed
    Prompts,        \* the prompts the remote may show: how each looks and how it echoes
    Cols,           \* columns of the terminal
    TypeAhead,      \* keys are typed before an Enter is answered
    MaxKeys,        \* bound on keys typed
    MaxRow          \* bound on rows

VARIABLES
    p,              \* the EchoPredictor
    promptRow,      \* the row typed on while guessing was ruled out, or NoRow
    cells, cursor,  \* the terminal's screen
    up, down,       \* keys and output on their way
    remote,         \* what the remote reads: its prompt and the length of the line
    typed,          \* keys typed
    shown,          \* ghost: keys whose guess was ever drawn
    secret          \* ghost: keys read at a prompt that does not echo them

screenVars == <<cells, cursor>>
vars == <<p, promptRow, screenVars, up, down, remote, typed, shown, secret>>

NoRow == -1
Blank == " "
Mask == "*"
NoSuspect == [row |-> NoRow, char |-> Blank]
Nothing == {}
Screen == [row |-> cursor.row, col |-> cursor.col, cells |-> cells]
CharAt(s, row, col) == IF <<row, col>> \in DOMAIN s.cells THEN s.cells[<<row, col>>] ELSE Blank

EndsLine(k) == k = "enter"

-----------------------------------------------------------------------------
(* The predictor.                                                          *)

Clear(q) == [q EXCEPT !.row = NoRow, !.pending = <<>>, !.confirmed = FALSE, !.doubt = FALSE]
Reset(q) == [Clear(q) EXCEPT !.tentative = TRUE]

LastOf(q) == q.pending[Len(q.pending)]

\* nextCol: after the last guess, or at the cursor, where a new row is started over.
AtNextCol(q, s) ==
    IF q.pending # <<>> THEN q
    ELSE LET on == IF q.row # s.row THEN [Clear(q) EXCEPT !.row = s.row, !.lineStart = s.col] ELSE q
         IN  [on EXCEPT !.lineStart = IF s.col < @ THEN s.col ELSE @, !.base = s.col, !.doubt = FALSE]
NextCol(q, s) == IF q.pending # <<>> THEN LastOf(q).after ELSE s.col

\* valueAt: what the cell holds once the guesses are echoed.
ValueAt(q, s, col) ==
    LET guesses == {i \in DOMAIN q.pending : q.pending[i].col = col}
    IN  IF guesses # {} THEN q.pending[CHOOSE i \in guesses : \A j \in guesses : j <= i].value
        ELSE CharAt(s, IF q.row = NoRow THEN s.row ELSE q.row, col)

\* insert and erase; a key that cannot be placed resets.
Insert(q, s, char, id) ==
    LET on == AtNextCol(q, s)
        col == NextCol(q, s)
    IN  IF col >= Cols - 1 \/ ValueAt(on, s, col) \notin {Blank, char} THEN Reset(on)
        ELSE [on EXCEPT !.pending = Append(@, [col |-> col, value |-> char, after |-> col + 1,
                                               erases |-> FALSE, id |-> id])]

Erase(q, s, id) ==
    LET on == AtNextCol(q, s)
        col == NextCol(q, s)
    IN  IF col <= on.lineStart THEN Reset(on)
        ELSE [on EXCEPT !.pending = Append(@, [col |-> col - 1, value |-> Blank, after |-> col - 1,
                                               erases |-> TRUE, id |-> id])]

TypeKey(q, s, k, id) ==
    LET fresh == IF EndsLine(k) THEN [q EXCEPT !.masked = NoRow, !.suspect = NoSuspect] ELSE q
    IN  CASE k = "bs" -> Erase(fresh, s, id)
          [] k \in Chars -> Insert(fresh, s, k, id)
          [] OTHER -> Reset(fresh)

\* echoedAs: the cells of typed keys the cursor is just past that hold another character.
EchoedAs(q, s) ==
    {CharAt(s, q.row, q.pending[i].col) :
        i \in {j \in DOMAIN q.pending : /\ s.row = q.row /\ ~q.pending[j].erases
                                        /\ q.pending[j].after = s.col
                                        /\ CharAt(s, q.row, q.pending[j].col) # q.pending[j].value}}

\* echoedBefore: how many guesses, from the first, the line shows before the cursor.
EchoedBefore(q, s) ==
    LET erasing == {i \in DOMAIN q.pending : q.pending[i].erases}
        chars == IF erasing = {} THEN Len(q.pending)
                 ELSE (CHOOSE i \in erasing : \A j \in erasing : i <= j) - 1
        fits == {n \in 0..chars : /\ n <= s.col
                                  /\ \A i \in 1..n : CharAt(s, s.row, s.col - n + i - 1) = q.pending[i].value}
    IN  CHOOSE n \in fits : \A m \in fits : m <= n

\* place: the tentative guesses move to where the line shows typing goes.
Place(q, s) ==
    LET other == EchoedAs(q, s)
        keys == SubSeq(q.pending, EchoedBefore(q, s) + 1, Len(q.pending))
        start == [q EXCEPT !.suspect = IF other = {} THEN @ ELSE [row |-> q.row, char |-> CHOOSE c \in other : TRUE],
                           !.pending = <<>>, !.row = IF s.row # q.row THEN NoRow ELSE @]
        placed[i \in 0..Len(keys)] ==
            IF i = 0 THEN start
            ELSE LET prev == placed[i-1]
                 IN  IF i > 1 /\ prev.pending = <<>> THEN prev       \* a key could not be placed
                     ELSE IF keys[i].erases THEN Erase(prev, s, keys[i].id)
                     ELSE Insert(prev, s, keys[i].value, keys[i].id)
    IN  placed[Len(keys)]

\* Only the echo of a typed character shows that the row echoes typing.
\* Mutant: the echo of a backspace does, too.
EraseConfirms(q, key) == q.row # q.masked /\ ~(q.suspect.row = q.row /\ q.suspect.char = key.value)
Confirms(q, key) == /\ ~key.erases
                    /\ q.row # q.masked
                    /\ ~(q.suspect.row = q.row /\ q.suspect.char = key.value)

Reconcile(q, s) ==
    LET hits == {i \in DOMAIN q.pending : /\ s.row = q.row /\ q.pending[i].after = s.col
                                          /\ CharAt(s, q.row, q.pending[i].col) = q.pending[i].value}
        echoed == CHOOSE i \in hits : \A j \in hits : i <= j
        key == q.pending[echoed]
    IN  IF q.row = NoRow \/ q.pending = <<>> THEN q
        ELSE IF hits # {}
        THEN [q EXCEPT !.confirmed = @ \/ Confirms(q, key), !.tentative = FALSE, !.doubt = FALSE,
                       !.base = key.after, !.pending = SubSeq(@, echoed + 1, Len(@))]
        ELSE IF q.tentative THEN Place(q, s)
        ELSE IF EchoedAs(q, s) # {} THEN [Clear(q) EXCEPT !.masked = q.row]
        ELSE [q EXCEPT !.doubt = ~(s.row = q.row /\ s.col = q.base)]

\* expire: the line is in doubt for too long, or an echo is overdue.
Matches(q, s) ==
    \/ q.row = NoRow \/ q.pending = <<>>
    \/ /\ s.row = q.row /\ s.col = LastOf(q).after
       /\ \A i \in DOMAIN q.pending : CharAt(s, q.row, q.pending[i].col) = ValueAt(q, s, q.pending[i].col)
Overdue(q, s) ==
    LET kept == [q EXCEPT !.base = s.col, !.pending = <<>>]
    IN  [(IF Matches(q, s) THEN kept ELSE Clear(q)) EXCEPT !.tentative = FALSE]

\* view: the cells drawn.
Hidden(q) == q.row = NoRow \/ ~q.confirmed \/ q.tentative \/ q.doubt \/ q.pending = <<>>
Drawn(q) == IF Hidden(q) THEN {}
            ELSE {i \in DOMAIN q.pending : \A j \in DOMAIN q.pending : q.pending[j].col = q.pending[i].col => j <= i}
DrawnKeys(q) == {q.pending[i].id : i \in {j \in Drawn(q) : ~q.pending[j].erases}}

Update(q) == p' = q /\ shown' = shown \cup DrawnKeys(q)

-----------------------------------------------------------------------------
(* The terminal and its session.                                           *)

\* A password prompt at the cursor is told by how it looks.
CanPredict(s) == CharAt(s, s.row, s.col - 1) # "P"

EnterAnswered == "newline" \notin {down[i] : i \in DOMAIN down}
                 /\ "enter" \notin {typed[up[i]] : i \in DOMAIN up}

\* noteInput, and the key goes out.  A line has room for what is typed.
NoteInput ==
    \E k \in Chars \cup {"bs", "enter", "tab"} :
        LET id == Len(typed) + 1
            ruledOut == IF EndsLine(k) THEN NoRow ELSE IF ~CanPredict(Screen) THEN cursor.row ELSE promptRow
        IN  /\ id <= MaxKeys /\ (TypeAhead \/ EnterAnswered)
            /\ typed' = Append(typed, k) /\ up' = Append(up, id)
            /\ promptRow' = ruledOut
            /\ Update(IF ~CanPredict(Screen) \/ cursor.row = ruledOut THEN Reset(p)
                      ELSE TypeKey(p, Screen, k, id))
            /\ UNCHANGED <<screenVars, down, remote, secret>>

\* One write of the remote on the screen.
Apply(s, op) ==
    CASE op = "newline" -> [s EXCEPT !.row = @ + 1, !.col = 0]
      [] op = "erase" -> [s EXCEPT !.col = @ - 1, !.cells = [x \in DOMAIN @ \ {<<s.row, s.col - 1>>} |-> @[x]]]
      [] OTHER -> [s EXCEPT !.col = @ + 1,
                            !.cells = [x \in DOMAIN @ \cup {<<s.row, s.col>>} |->
                                         IF x = <<s.row, s.col>> THEN op ELSE @[x]]]
Applied(s, ops) ==
    LET after[i \in 0..Len(ops)] == IF i = 0 THEN s ELSE Apply(after[i-1], ops[i])
    IN  after[Len(ops)]

\* Output is parsed, any part of what has arrived, and the guesses are checked.
WriteParsed ==
    \E n \in 1..Len(down) :
        LET s == Applied(Screen, SubSeq(down, 1, n))
        IN  /\ cells' = s.cells /\ cursor' = [row |-> s.row, col |-> s.col]
            /\ down' = SubSeq(down, n + 1, Len(down))
            /\ Update(Reconcile(p, s))
            /\ UNCHANGED <<promptRow, up, remote, typed, secret>>

\* The timer, every 100 ms while guesses wait.  An echo is overdue only when
\* all that was on its way has arrived: it waits four round trips or more.
Tick ==
    /\ \/ p.doubt /\ Update(Reset(p))
       \/ ~p.doubt /\ p.pending # <<>> /\ up = <<>> /\ down = <<>> /\ Update(Overdue(p, Screen))
    /\ UNCHANGED <<promptRow, screenVars, up, down, remote, typed, secret>>

\* The terminal is resized, switches buffers, or drops the line typed on.
Moved ==
    /\ p.pending # <<>> /\ ~p.tentative
    /\ Update(Reset(p))
    /\ UNCHANGED <<promptRow, screenVars, up, down, remote, typed, secret>>

-----------------------------------------------------------------------------
(* The remote reads a key.                                                 *)

Echo(r, k) ==
    CASE k \in Chars -> IF r.prompt.echo = "shell" THEN <<k>> ELSE IF r.prompt.echo = "mask" THEN <<Mask>> ELSE <<>>
      [] k = "bs" -> IF r.line > 0 /\ r.prompt.echo # "silent" THEN <<"erase">> ELSE <<>>
      [] k = "tab" -> IF r.prompt.echo = "shell" THEN <<CHOOSE c \in Chars : TRUE>>
                      ELSE IF r.prompt.echo = "mask" THEN <<Mask>> ELSE <<>>
      [] OTHER -> <<"newline">>

LineAfter(r, k) == IF k = "bs" THEN (IF r.line > 0 THEN r.line - 1 ELSE 0) ELSE r.line + 1

RemoteReads ==
    /\ up # <<>>
    /\ LET id == Head(up)
           k == typed[id]
       IN  /\ up' = Tail(up)
           /\ IF k = "enter"
              THEN \E next \in Prompts :
                      /\ remote.row < MaxRow
                      /\ remote' = [row |-> remote.row + 1, prompt |-> next, line |-> 0]
                      /\ down' = down \o <<"newline", next.look>>
              ELSE /\ remote' = [remote EXCEPT !.line = LineAfter(remote, k)]
                   /\ down' = down \o Echo(remote, k)
           /\ secret' = IF k \in Chars /\ remote.prompt.echo # "shell" THEN secret \cup {id} ELSE secret
    /\ UNCHANGED <<p, promptRow, screenVars, typed, shown>>

Init ==
    /\ p = [row |-> NoRow, lineStart |-> 0, base |-> 0, pending |-> <<>>, confirmed |-> FALSE,
            doubt |-> FALSE, masked |-> NoRow, tentative |-> FALSE, suspect |-> NoSuspect]
    /\ promptRow = NoRow
    /\ \E first \in Prompts :
          /\ remote = [row |-> 0, prompt |-> first, line |-> 0]
          /\ cells = (<<0, 0>> :> first.look)
    /\ cursor = [row |-> 0, col |-> 1]
    /\ up = <<>> /\ down = <<>> /\ typed = <<>> /\ shown = {} /\ secret = {}

Next == NoteInput \/ WriteParsed \/ Tick \/ Moved \/ RemoteReads
Spec == Init /\ [][Next]_vars

-----------------------------------------------------------------------------
(* Correctness.                                                            *)

\* "nothing typed at a prompt that does not echo, such as a password prompt, is
\* shown" (predictiveEcho.ts:5-6): however typing runs ahead of the prompts, the
\* guess of a key that such a prompt reads was never drawn.
SecretsNeverDrawn == shown \cap secret = {}
=============================================================================
