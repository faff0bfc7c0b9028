------------------------------ MODULE Vault ------------------------------
(***************************************************************************)
(* Saved passwords: the secret store as the front end drives it, the one   *)
(* unlock prompt and the one verification prompt every caller shares, the  *)
(* work that failed while locked and runs again, and the security page.    *)
(* `vault' is the backend's store, `status' the front end's copy of it.    *)
(***************************************************************************)
EXTENDS Integers, FiniteSets

CONSTANTS
    Callers,        \* calls, each made once, that need the store: reveal, export, remove the recovery password
    MaxActs         \* commands of the security page and wrong passwords typed

VARIABLES
    vault,      \* the store: mode, unlocked, hasMasterPassword, pending
    status,     \* secretStatus
    call,       \* per caller: where it is, whether the unlock and verification were asked
    waiters,    \* unlockWaitersRef: callers waiting on the unlock prompt
    unlocking,  \* the unlock prompt: whether it is open, and a password was sent
    request,    \* requestRef: the caller the verification prompt is for
    verifying,  \* handleSubmit under way
    verified,   \* the store's verification is still good
    command,    \* the security page's action under way
    asked,      \* the security page: a question asked, or a password mode being chosen
    shown,      \* the secret shown in plain text, and what was last asked for
    failed,     \* background work that the store refused, its report on the way
    retries,    \* lockedRetriesRef
    dismissed,  \* the startup prompt was dismissed
    commands, wrong

vars == <<vault, status, call, waiters, unlocking, request, verifying, verified, command,
          asked, shown, failed, retries, dismissed, commands, wrong>>

NoCaller == "nobody"

Idle == [at |-> "idle", unlockAsked |-> FALSE, verifyAsked |-> FALSE]

\* Unlocked by the credential store or not; a master password, or an old vault
\* still to be moved.
InitialVaults ==
    {v \in [mode : {"system", "password", "memory"}, unlocked : BOOLEAN,
            hasMasterPassword : BOOLEAN, pending : BOOLEAN] :
        /\ v.mode = "memory" => v.unlocked /\ ~v.pending /\ ~v.hasMasterPassword
        /\ v.mode = "password" => ~v.unlocked
        /\ v.pending => ~v.unlocked}

MayAct == commands + wrong < MaxActs

Init ==
    /\ vault \in InitialVaults /\ status = vault
    /\ call = [c \in Callers |-> Idle]
    /\ waiters = {} /\ unlocking = [open |-> FALSE, sent |-> FALSE]
    /\ request = NoCaller /\ verifying = FALSE /\ verified = FALSE
    /\ command = "none" /\ asked = "nothing"
    /\ shown = [now |-> NoCaller, asked |-> NoCaller]
    /\ failed = FALSE /\ retries = FALSE /\ dismissed = FALSE
    /\ commands = 0 /\ wrong = 0

-----------------------------------------------------------------------------
\* A password typed in a prompt can unlock.
vaultUnlockable(s) == s.mode # "memory" /\ (s.pending \/ s.hasMasterPassword)

\* The startup prompt, and whether SSH connections may start.
ShouldPromptStartup ==
    /\ ~status.unlocked /\ ~dismissed
    /\ status.pending \/ (status.hasMasterPassword /\ status.mode # "memory")

DismissStartupPrompt ==
    /\ ShouldPromptStartup
    /\ dismissed' = TRUE
    /\ UNCHANGED <<vault, status, call, waiters, unlocking, request, verifying, verified, command,
                   asked, shown, failed, retries, commands, wrong>>

\* applySecretStatus; once unlocked, what failed meanwhile runs again.
Apply(v) ==
    /\ status' = v
    /\ retries' = IF v.unlocked /\ ~status.unlocked THEN FALSE ELSE retries

-----------------------------------------------------------------------------
(* withVerification = withVaultUnlock of verify.                           *)

Put(c, r) == call' = [call EXCEPT ![c] = r]

\* Settling callers whose prompt is answered or given up.
Settle(cs, to) ==
    [c \in Callers |-> IF c \in cs THEN [call[c] EXCEPT !.at = to] ELSE call[c]]

Begin(c) ==
    /\ call[c].at = "idle"
    /\ Put(c, [call[c] EXCEPT !.at = "acting"])
    /\ shown' = [now |-> NoCaller, asked |-> c]
    /\ UNCHANGED <<vault, status, waiters, unlocking, request, verifying, verified, command,
                   asked, failed, retries, dismissed, commands, wrong>>

\* The backend refuses a locked store, then an unverified user; what the
\* caller gets is a record of the first refusal.
BackendActs(c) ==
    /\ call[c].at = "acting"
    /\ Put(c, [call[c] EXCEPT !.at =
           IF ~vault.unlocked THEN "locked" ELSE IF ~verified THEN "unverified" ELSE "answered"])
    /\ UNCHANGED <<vault, status, waiters, unlocking, request, verifying, verified, command,
                   asked, shown, failed, retries, dismissed, commands, wrong>>

\* withVaultUnlock: the unlock prompt once, then the error is the caller's.
AskUnlock(c) ==
    /\ call[c].at = "locked"
    /\ IF ~call[c].unlockAsked /\ vaultUnlockable(status)
       THEN /\ Put(c, [at |-> "waitUnlock", unlockAsked |-> TRUE, verifyAsked |-> FALSE])
            /\ waiters' = waiters \cup {c}
            /\ unlocking' = [unlocking EXCEPT !.open = TRUE]
       ELSE Put(c, [call[c] EXCEPT !.at = "error"]) /\ UNCHANGED <<waiters, unlocking>>
    /\ UNCHANGED <<vault, status, request, verifying, verified, command, asked, shown, failed,
                   retries, dismissed, commands, wrong>>

\* The system verifies by itself, or the user backs out.
VerifyBySystem(c) ==
    /\ call[c].at = "unverified" /\ ~call[c].verifyAsked
    /\ \/ verified' = TRUE /\ Put(c, [call[c] EXCEPT !.at = "acting", !.verifyAsked = TRUE])
       \/ Put(c, [call[c] EXCEPT !.at = "canceled"]) /\ UNCHANGED verified
    /\ UNCHANGED <<vault, status, waiters, unlocking, request, verifying, command, asked, shown,
                   failed, retries, dismissed, commands, wrong>>

AskForPasswordOver(c) ==
    /\ call' = [call EXCEPT ![c] = [call[c] EXCEPT !.at = "waitVerify", !.verifyAsked = TRUE]]
    /\ request' = c

\* A prompt already open for something else is given up.
AskForPassword(c) ==
    /\ call' = [Settle({request} \cap Callers, "canceled")
                   EXCEPT ![c] = [call[c] EXCEPT !.at = "waitVerify", !.verifyAsked = TRUE]]
    /\ request' = c

Verify(c) ==
    /\ call[c].at = "unverified"
    /\ IF call[c].verifyAsked
       THEN Put(c, [call[c] EXCEPT !.at = "error"]) /\ UNCHANGED request
       ELSE AskForPassword(c)
    /\ UNCHANGED <<vault, status, waiters, unlocking, verifying, verified, command, asked, shown,
                   failed, retries, dismissed, commands, wrong>>

\* finish: whoever the prompt is for by then.
Finish(to) ==
    /\ call' = Settle({request} \cap Callers, to)
    /\ request' = NoCaller

HandleSubmit ==
    /\ request # NoCaller /\ ~verifying
    /\ verifying' = TRUE
    /\ UNCHANGED <<vault, status, call, waiters, unlocking, request, verified, command, asked,
                   shown, failed, retries, dismissed, commands, wrong>>

VerifyAnswered ==
    /\ verifying
    /\ verifying' = FALSE
    /\ \/ verified' = TRUE /\ Finish("acting") /\ UNCHANGED wrong
       \/ MayAct /\ wrong' = wrong + 1 /\ UNCHANGED <<verified, call, request>>
    /\ UNCHANGED <<vault, status, waiters, unlocking, command, asked, shown, failed, retries,
                   dismissed, commands>>

\* The prompt closes only while it is not verifying.
CancelVerify ==
    /\ request # NoCaller /\ ~verifying
    /\ Finish("canceled")
    /\ UNCHANGED <<vault, status, waiters, unlocking, verifying, verified, command, asked, shown,
                   failed, retries, dismissed, commands, wrong>>

\* The store forgets a verification after a while, and when it locks.
VerificationExpires ==
    /\ verified /\ verified' = FALSE
    /\ \A c \in Callers : call[c].at # "acting"
    /\ UNCHANGED <<vault, status, call, waiters, unlocking, request, verifying, command, asked,
                   shown, failed, retries, dismissed, commands, wrong>>

-----------------------------------------------------------------------------
(* The unlock prompt.                                                      *)

FinishUnlock(to) ==
    /\ call' = Settle(waiters, to)
    /\ waiters' = {}

SubmitUnlock ==
    /\ unlocking.open /\ ~unlocking.sent
    /\ unlocking' = [unlocking EXCEPT !.sent = TRUE]
    /\ UNCHANGED <<vault, status, call, waiters, request, verifying, verified, command, asked,
                   shown, failed, retries, dismissed, commands, wrong>>

UnlockAnswered ==
    /\ unlocking.sent
    /\ \/ /\ vault' = [vault EXCEPT !.unlocked = TRUE, !.pending = FALSE]
          /\ Apply(vault') /\ FinishUnlock("acting") /\ UNCHANGED wrong
          /\ unlocking' = [open |-> FALSE, sent |-> FALSE]
       \/ /\ MayAct /\ wrong' = wrong + 1
          /\ unlocking' = [unlocking EXCEPT !.sent = FALSE]
          /\ UNCHANGED <<vault, status, retries, call, waiters>>
    /\ UNCHANGED <<request, verifying, verified, command, asked, shown, failed, dismissed, commands>>

\* Unlike the verification prompt, this one also closes while it is sending;
\* the answer then finds nobody waiting, or whoever asked again meanwhile.
CloseUnlock ==
    /\ unlocking.open
    /\ FinishUnlock("canceled")
    /\ unlocking' = [unlocking EXCEPT !.open = FALSE]
    /\ UNCHANGED <<vault, status, request, verifying, verified, command, asked, shown, failed,
                   retries, dismissed, commands, wrong>>

-----------------------------------------------------------------------------
(* A secret shown on the security page.                                    *)

\* handleRevealToggle: an answer to an older request is dropped.
Reveal(c) ==
    /\ call[c].at = "answered"
    /\ Put(c, [Idle EXCEPT !.at = "done"])
    /\ shown' = IF shown.asked = c THEN [shown EXCEPT !.now = c] ELSE shown
    /\ UNCHANGED <<vault, status, waiters, unlocking, request, verifying, verified, command,
                   asked, failed, retries, dismissed, commands, wrong>>

RevealFails(c) ==
    /\ call[c].at \in {"error", "canceled"}
    /\ Put(c, [Idle EXCEPT !.at = "done"])
    /\ UNCHANGED <<vault, status, waiters, unlocking, request, verifying, verified, command,
                   asked, shown, failed, retries, dismissed, commands, wrong>>

\* The ten seconds are over, or the user hides it.
ClearRevealedPassword ==
    /\ shown.now # NoCaller
    /\ shown' = [shown EXCEPT !.now = NoCaller]
    /\ UNCHANGED <<vault, status, call, waiters, unlocking, request, verifying, verified, command,
                   asked, failed, retries, dismissed, commands, wrong>>

-----------------------------------------------------------------------------
(* Background work, such as a tab connecting, that needs a saved password. *)

startupConnectionsReady == ~ShouldPromptStartup

BackgroundRefused ==
    /\ startupConnectionsReady /\ ~vault.unlocked /\ ~failed /\ ~retries
    /\ failed' = TRUE
    /\ UNCHANGED <<vault, status, call, waiters, unlocking, request, verifying, verified, command,
                   asked, shown, retries, dismissed, commands, wrong>>

\* handleLocked: the work waits for the store to be unlocked.
HandleLocked ==
    /\ failed
    /\ failed' = FALSE /\ retries' = TRUE
    /\ UNCHANGED <<vault, status, call, waiters, unlocking, request, verifying, verified, command,
                   asked, shown, dismissed, commands, wrong>>

\* The notice's button opens the unlock prompt.
NoticeUnlock ==
    /\ retries /\ vaultUnlockable(status) /\ ~unlocking.open /\ MayAct
    /\ commands' = commands + 1
    /\ unlocking' = [unlocking EXCEPT !.open = TRUE]
    /\ UNCHANGED <<vault, status, call, waiters, request, verifying, verified, command, asked,
                   shown, failed, retries, dismissed, wrong>>

-----------------------------------------------------------------------------
(* The security page: what each card offers, and the command it sends.     *)

choosingPasswordMode == asked = "passwordMode"

\* What the password box above the list is for.
unlockPurpose ==
    IF status.pending THEN "migrate"
    ELSE IF status.mode = "password" /\ ~status.hasMasterPassword /\ ~choosingPasswordMode THEN "setPassword"
    ELSE IF status.mode = "password" /\ ~status.unlocked THEN "unlock"
    ELSE IF status.mode = "system" /\ ~status.unlocked /\ status.hasMasterPassword THEN "recover"
    ELSE "none"

systemUnlockFailed == ~status.pending /\ status.mode = "system" /\ ~status.unlocked

showMasterPasswordCard == ~status.pending /\ ~choosingPasswordMode /\ status.unlocked /\ status.mode # "memory"

page == <<vault, status, call, waiters, unlocking, request, verifying, verified, failed, retries,
          dismissed, wrong>>

\* run: one command at a time, its button busy.
Run(name) == command = "none" /\ MayAct /\ command' = name /\ commands' = commands + 1

HandleModeChange(next) ==
    /\ status.unlocked /\ ~status.pending /\ command = "none"
    /\ IF next = "password" /\ ~status.hasMasterPassword
       THEN asked' = "passwordMode" /\ UNCHANGED <<command, commands>>
       ELSE asked' = "nothing" /\ Run(next)
    /\ UNCHANGED shown /\ UNCHANGED page

HandleConfirmPasswordMode ==
    /\ choosingPasswordMode /\ Run("password") /\ asked' = "nothing"
    /\ UNCHANGED shown /\ UNCHANGED page

HandleUnlock ==
    /\ unlockPurpose # "none"
    /\ Run("unlock") /\ UNCHANGED <<asked, shown>> /\ UNCHANGED page

HandleLock ==
    /\ showMasterPasswordCard /\ status.mode = "password"
    /\ Run("lock") /\ shown' = [shown EXCEPT !.now = NoCaller]
    /\ UNCHANGED asked /\ UNCHANGED page

HandleRetrySystemUnlock ==
    /\ systemUnlockFailed /\ Run("retry") /\ UNCHANGED <<asked, shown>> /\ UNCHANGED page

HandleResetSavedPasswords ==
    /\ systemUnlockFailed /\ asked = "nothing" /\ asked' = "reset"
    /\ UNCHANGED <<command, commands, shown>> /\ UNCHANGED page

ResetConfirmed(yes) ==
    /\ asked = "reset" /\ asked' = "nothing"
    /\ IF yes THEN Run("reset") /\ shown' = [shown EXCEPT !.now = NoCaller]
              ELSE UNCHANGED <<command, commands, shown>>
    /\ UNCHANGED page

\* Changing, setting or removing the recovery password.
HandleMasterPassword(name) ==
    /\ showMasterPasswordCard
    /\ CASE name = "change" -> status.hasMasterPassword
         [] name = "set" -> ~status.hasMasterPassword /\ status.mode = "system"
         [] name = "remove" -> status.hasMasterPassword /\ status.mode = "system"
    /\ Run(name) /\ UNCHANGED <<asked, shown>> /\ UNCHANGED page

\* What a command leaves in the store.
After(name) ==
    CASE name \in {"system", "memory"} -> [vault EXCEPT !.mode = name]
      [] name = "password" -> [vault EXCEPT !.mode = name, !.hasMasterPassword = TRUE]
      [] name = "unlock" -> [vault EXCEPT !.unlocked = TRUE, !.pending = FALSE,
                                !.hasMasterPassword = @ \/ vault.mode = "password"]
      [] name = "lock" -> [vault EXCEPT !.unlocked = FALSE]
      [] name \in {"retry", "reset"} -> [vault EXCEPT !.unlocked = TRUE,
                                !.hasMasterPassword = @ /\ name = "retry"]
      [] name = "set" -> [vault EXCEPT !.hasMasterPassword = TRUE]
      [] name = "remove" -> [vault EXCEPT !.hasMasterPassword = FALSE]
      [] name = "change" -> vault

CommandAnswered ==
    /\ command # "none"
    /\ command' = "none"
    /\ \/ /\ vault' = After(command)
          /\ Apply(vault')
          /\ verified' = (verified /\ command # "lock")
       \/ UNCHANGED <<vault, status, retries, verified>>
    /\ UNCHANGED <<call, waiters, unlocking, request, verifying, asked, shown, failed, dismissed,
                   commands, wrong>>

-----------------------------------------------------------------------------
Next ==
    \/ DismissStartupPrompt
    \/ \E c \in Callers :
        \/ Begin(c) \/ BackendActs(c) \/ AskUnlock(c) \/ VerifyBySystem(c) \/ Verify(c)
        \/ Reveal(c) \/ RevealFails(c)
    \/ HandleSubmit \/ VerifyAnswered \/ CancelVerify \/ VerificationExpires
    \/ SubmitUnlock \/ UnlockAnswered \/ CloseUnlock
    \/ ClearRevealedPassword
    \/ BackgroundRefused \/ HandleLocked \/ NoticeUnlock
    \/ \E m \in {"system", "password", "memory"} : HandleModeChange(m)
    \/ HandleConfirmPasswordMode \/ HandleUnlock \/ HandleLock \/ HandleRetrySystemUnlock
    \/ HandleResetSavedPasswords \/ \E yes \in BOOLEAN : ResetConfirmed(yes)
    \/ \E n \in {"change", "set", "remove"} : HandleMasterPassword(n)
    \/ CommandAnswered

\* The backend answers, the event loop reacts, and a user looking at a modal
\* prompt answers or closes it.
Fairness ==
    /\ \A c \in Callers :
        /\ WF_vars(BackendActs(c)) /\ WF_vars(AskUnlock(c)) /\ WF_vars(Verify(c))
        /\ WF_vars(Reveal(c)) /\ WF_vars(RevealFails(c))
    /\ WF_vars(VerifyAnswered) /\ WF_vars(UnlockAnswered) /\ WF_vars(CommandAnswered)
    /\ WF_vars(HandleLocked)
    /\ SF_vars(CancelVerify) /\ WF_vars(CloseUnlock) /\ WF_vars(ClearRevealedPassword)

Spec == Init /\ [][Next]_vars /\ Fairness

-----------------------------------------------------------------------------
(* Every call that meets the unlock or the verification prompt comes back: *)
(* all callers share the two prompts, a second verification takes the      *)
(* prompt over, and none may be left waiting on a prompt that is gone.     *)
AllAnswered == \A c \in Callers : call[c].at \in {"idle", "done"}
CallersAnswered == []<>AllAnswered

(* Work that failed while saved passwords were locked waits only as long   *)
(* as they are: once unlocked it runs again.                               *)
RetriesRun == status.unlocked => ~retries
=============================================================================
