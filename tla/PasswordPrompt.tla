--------------------------- MODULE PasswordPrompt ---------------------------
(***************************************************************************)
(* Password prompts in an SSH terminal: savedPasswordPrompts.ts finds them *)
(* on the cursor's line, looks up whether a saved password can be offered, *)
(* and fills it; terminalInput.ts keeps what is typed at them out of the   *)
(* command history; the login script waits for them.                       *)
(*                                                                         *)
(* A line is a shell prompt, other text, or a password prompt for the      *)
(* session's own or another account.  A prompt is told from an earlier one *)
(* with the same words by the line feeds between them: one that comes back *)
(* on its line is the same prompt.  Replies the terminal sends by itself   *)
(* and the 20 s clock are left out: a fill may stop counting at any time.  *)
(***************************************************************************)
EXTENDS Naturals

CONSTANTS
    MaxFeeds,      \* bound on line feeds
    MaxChecks,     \* bound on passwordPromptCheckId
    MaxScript      \* lines of the login script

VARIABLES
    cursorLine,    \* the text before the cursor
    lineFeeds,     \* session.lineFeedCount
    promptKey,     \* session.currentPromptKey
    prompt,        \* currentPrompt: under the cursor and not yet ended
    answered,      \* answeredPromptKey
    offered,       \* offeredPrompt
    bar,           \* what the bar or the overlay shows
    checkId,       \* session.passwordPromptCheckId
    lookups,       \* calls of get_sudo_password_source under way
    rejected,      \* savedPasswordRejected
    lastFill,      \* session.lastPasswordFill
    filling,       \* prompts a saved password is being written for
    suspended,     \* session.commandCaptureSuspended
    captured,      \* what session.commandCaptureState.text holds
    recorded,      \* what went into the command history
    scriptLeft,    \* lines the login script has yet to type; its timer runs
    scriptTimer,
    asking         \* the remote waits for a password nobody has given yet

promptVars == <<promptKey, prompt, answered, offered, bar, checkId, lookups>>
fillVars == <<rejected, lastFill, filling>>
captureVars == <<suspended, captured, recorded>>
vars == <<cursorLine, lineFeeds, promptVars, fillVars, captureVars, scriptLeft, scriptTimer, asking>>

Prompts == {"own", "other"}
CursorLines == {"shell", "text"} \cup Prompts
NoKey == <<>>

Init ==
    /\ cursorLine = "text" /\ lineFeeds = 0
    /\ promptKey = NoKey /\ prompt = "none" /\ answered = NoKey
    /\ offered = "none" /\ bar = "none" /\ checkId = 0 /\ lookups = {}
    /\ rejected = FALSE /\ lastFill = "none" /\ filling = {}
    /\ suspended = FALSE /\ captured = {} /\ recorded = {}
    /\ scriptLeft = MaxScript /\ scriptTimer = (MaxScript > 0)
    /\ asking = FALSE

\* matchPasswordPrompt of the line under the cursor
MatchPasswordPrompt(line) == IF line \in Prompts THEN line ELSE "none"

ClearOfferKeepsCheck ==
    /\ checkId' = checkId
    /\ offered' = "none"

\* A lookup under way must not revive the offer.
ClearSavedPasswordOffer ==
    /\ checkId' = checkId + 1
    /\ offered' = "none"

AnswerCurrentPrompt ==
    /\ answered' = IF promptKey # NoKey THEN promptKey ELSE answered
    /\ ClearSavedPasswordOffer

----------------------------------------------------------------------------
\* A prompt not answered before: capture stops, and a saved password is
\* looked up unless the last one was refused or the prompt is another's.
HandlePasswordPrompt(match) ==
    LET refused == lastFill = match
        looksUp == ~refused /\ ~rejected /\ match = "own"
    IN  /\ suspended' = TRUE /\ captured' = {} /\ UNCHANGED recorded
        /\ lastFill' = "none"
        /\ rejected' = (rejected \/ refused)
        /\ checkId' = checkId + (IF looksUp THEN 2 ELSE 1)
        /\ lookups' = lookups \cup (IF looksUp THEN {[id |-> checkId + 2, prompt |-> match]} ELSE {})
        /\ bar' = IF looksUp THEN "none" ELSE IF refused THEN "rejected" ELSE "manual"
        /\ offered' = "none"
        /\ asking' = TRUE

\* checkPasswordPrompt, after each chunk of output is on the screen
CheckPasswordPrompt(line, feeds) ==
    LET match == MatchPasswordPrompt(line)
        key == IF match = "none" THEN NoKey ELSE <<feeds, match>>
    IN  \/ key = promptKey /\ UNCHANGED <<promptVars, rejected, lastFill, captureVars, asking>>
        \/ /\ key # promptKey
           /\ promptKey' = key /\ prompt' = match /\ UNCHANGED answered
           /\ \/ match # "none" /\ key # answered /\ HandlePasswordPrompt(match)
              \/ /\ match = "none" \/ key = answered
                 /\ ClearSavedPasswordOffer
                 /\ bar' = "none"
                 /\ asking' = (asking /\ feeds = lineFeeds)
                 /\ UNCHANGED <<lookups, rejected, lastFill, captureVars>>

\* Output arrives; the login script waits for quiet again.
Output ==
    \E line \in CursorLines, feeds \in lineFeeds..(lineFeeds + 1) :
        /\ feeds <= MaxFeeds /\ checkId + 2 <= MaxChecks
        /\ cursorLine' = line /\ lineFeeds' = feeds
        /\ CheckPasswordPrompt(line, feeds)
        /\ scriptTimer' = (scriptLeft > 0)
        /\ UNCHANGED <<filling, scriptLeft>>

\* get_sudo_password_source answers, with no password or a saved one.
LookupAnswers ==
    \E call \in lookups, found \in BOOLEAN :
        /\ lookups' = lookups \ {call}
        /\ IF call.id # checkId THEN UNCHANGED <<offered, bar>>
           ELSE /\ offered' = IF found THEN call.prompt ELSE offered
                /\ bar' = IF found THEN "available" ELSE "manual"
        /\ UNCHANGED <<cursorLine, lineFeeds, promptKey, prompt, answered, checkId, fillVars,
                       captureVars, scriptLeft, scriptTimer, asking>>

----------------------------------------------------------------------------
\* fillSavedPassword, from the bar's button or its shortcut
FillSavedPassword ==
    /\ offered # "none" /\ checkId < MaxChecks
    /\ AnswerCurrentPrompt
    /\ bar' = "none"
    /\ suspended' = FALSE /\ captured' = {}
    /\ filling' = filling \cup {offered}
    /\ asking' = FALSE
    /\ UNCHANGED <<cursorLine, lineFeeds, promptKey, prompt, lookups, rejected, lastFill, recorded,
                   scriptLeft, scriptTimer>>

\* The backend wrote the password, or found the prompt gone.
FillWritten ==
    \E p \in filling, written \in BOOLEAN :
        /\ filling' = filling \ {p}
        /\ lastFill' = IF written THEN p ELSE lastFill
        /\ UNCHANGED <<cursorLine, lineFeeds, promptVars, rejected, captureVars, scriptLeft,
                       scriptTimer, asking>>

\* The bar offers only its buttons; closing it leaves the prompt to be typed at.
DismissCurrentPrompt ==
    /\ bar \in {"available", "rejected"} /\ checkId < MaxChecks
    /\ AnswerCurrentPrompt
    /\ bar' = IF prompt # "none" THEN "manual" ELSE "none"
    /\ UNCHANGED <<cursorLine, lineFeeds, promptKey, prompt, lookups, fillVars, captureVars,
                   scriptLeft, scriptTimer, asking>>

\* PASSWORD_REJECT_WINDOW_MS is over.
FillForgotten ==
    /\ lastFill # "none" /\ lastFill' = "none"
    /\ UNCHANGED <<cursorLine, lineFeeds, promptVars, rejected, filling, captureVars, scriptLeft,
                   scriptTimer, asking>>

----------------------------------------------------------------------------
\* typeAtPrompt: Enter or Ctrl+C ends the prompt.
TypeAtPrompt(ends) ==
    /\ AnswerCurrentPrompt
    /\ bar' = IF prompt # "none" /\ ~ends THEN "manual" ELSE "none"
    /\ prompt' = IF ends THEN "none" ELSE prompt

\* emitTypedCommand of what was captured, unless a program runs or the shell
\* reports its commands itself
EmitTypedCommand(text) ==
    \E emits \in BOOLEAN :
        /\ emits => text # {}
        /\ recorded' = IF emits THEN recorded \cup text ELSE recorded
        /\ lastFill' = IF emits THEN "none" ELSE lastFill

CaptureThenResume(text, ends, interrupts) ==
    /\ suspended' = (suspended /\ ~ends)
    /\ captured' = IF ends THEN {} ELSE IF suspended THEN captured ELSE captured \cup text
    /\ IF ends /\ ~interrupts THEN EmitTypedCommand(captured \cup text)
       ELSE UNCHANGED <<recorded, lastFill>>

\* captureTerminalInput, unless it is suspended until the line ends
CaptureTerminalInput(text, ends, interrupts) ==
    /\ suspended' = (suspended /\ ~ends)
    /\ captured' = IF ends THEN {} ELSE IF suspended THEN captured ELSE captured \cup text
    /\ IF ends /\ ~interrupts /\ ~suspended THEN EmitTypedCommand(captured \cup text)
       ELSE UNCHANGED <<recorded, lastFill>>

\* attachTerminalInput: a key, Enter, Ctrl+C, or a line pasted with its end
TypeData ==
    \E keys \in {"key", "enter", "interrupt", "line"} :
        LET ends == keys # "key"
            text == IF keys \in {"enter", "interrupt"} THEN {}
                    ELSE {IF asking THEN "secret" ELSE "command"}
        IN  /\ checkId < MaxChecks
            /\ scriptLeft' = IF promptKey = NoKey THEN 0 ELSE scriptLeft
            /\ scriptTimer' = (scriptTimer /\ promptKey # NoKey)
            /\ TypeAtPrompt(ends)
            /\ CaptureTerminalInput(text, ends, keys = "interrupt")
            /\ asking' = (asking /\ ~ends)
            /\ UNCHANGED <<cursorLine, lineFeeds, promptKey, lookups, rejected, filling>>

\* The shell's own report of a command: recordCommand.
ShellReportsCommand ==
    /\ lastFill' = "none" /\ recorded' = recorded \cup {"command"}
    /\ UNCHANGED <<cursorLine, lineFeeds, promptVars, rejected, filling, suspended, captured,
                   scriptLeft, scriptTimer, asking>>

\* LoginScriptRunner: the output has gone quiet.
LoginScriptTypes ==
    /\ scriptTimer /\ scriptTimer' = FALSE
    /\ scriptLeft' = IF promptKey # NoKey THEN scriptLeft ELSE scriptLeft - 1
    /\ UNCHANGED <<cursorLine, lineFeeds, promptVars, fillVars, captureVars, asking>>

----------------------------------------------------------------------------
Next ==
    \/ Output \/ LookupAnswers \/ FillSavedPassword \/ FillWritten \/ DismissCurrentPrompt
    \/ FillForgotten \/ TypeData \/ ShellReportsCommand \/ LoginScriptTypes

Spec == Init /\ [][Next]_vars

----------------------------------------------------------------------------
TypeOK ==
    /\ cursorLine \in CursorLines /\ lineFeeds \in 0..MaxFeeds
    /\ {promptKey, answered} \subseteq {NoKey} \cup ((0..MaxFeeds) \X Prompts)
    /\ {prompt, offered, lastFill} \subseteq Prompts \cup {"none"}
    /\ bar \in {"none", "manual", "available", "rejected"}
    /\ checkId \in 0..MaxChecks /\ lookups \subseteq [id : 0..MaxChecks, prompt : Prompts]
    /\ filling \subseteq Prompts
    /\ {rejected, suspended, scriptTimer, asking} \subseteq BOOLEAN
    /\ captured \subseteq {"secret", "command"} /\ recorded \subseteq {"secret", "command"}
    /\ scriptLeft \in 0..MaxScript

\* The saved password is offered for the unanswered prompt on the screen only,
\* never at another account's and never again once it was refused, though
\* lookups answer late and the user types or the prompt goes meanwhile.
OfferIsForThePrompt ==
    offered # "none" =>
        /\ promptKey # NoKey /\ promptKey # answered
        /\ offered = "own" /\ cursorLine = "own"
        /\ ~rejected /\ bar = "available"

\* What is typed at a prompt that waits for a password never gets into the
\* command history: not the keys typed before an offer appears or after it is
\* closed, nor those typed while the prompt's line is redrawn.
SecretsNotRecorded == "secret" \notin recorded

\* The key names the prompt under the cursor, and its line.
KeyOfLine == promptKey = IF cursorLine \in Prompts THEN <<lineFeeds, cursorLine>> ELSE NoKey

\* The one lookup still wanted is for the unanswered prompt on the screen.
LookupsAreForThePrompt ==
    \A call \in lookups :
        /\ call.id <= checkId /\ call.prompt = "own"
        /\ call.id = checkId => /\ promptKey # NoKey /\ promptKey # answered
                               /\ cursorLine = "own" /\ offered = "none" /\ ~rejected

\* Nothing typed is captured while a password is waited for.
SecretsNotCaptured == /\ asking => suspended
                      /\ "secret" \notin captured

TimerHasLine == scriptTimer => scriptLeft > 0

PromptInv ==
    /\ TypeOK /\ KeyOfLine /\ TimerHasLine
    /\ LookupsAreForThePrompt /\ OfferIsForThePrompt
    /\ SecretsNotCaptured /\ SecretsNotRecorded
=============================================================================
