-------------------------- MODULE ConnectionDialog --------------------------
(***************************************************************************)
(* The connection dialog: its form, the lookups that tell it which secrets  *)
(* are saved (useSavedPasswordAvailability), its submit and test, and what  *)
(* save_profile then does to the saved secrets.  Lookups answer while the   *)
(* form is edited, and nothing stops a second submit while one is being     *)
(* saved.                                                                   *)
(*                                                                         *)
(* A jump host is its address; what is typed in other fields is left out,   *)
(* but for whether it can be submitted.                                     *)
(***************************************************************************)
EXTENDS Integers, Sequences

CONSTANTS
    Hops,          \* addresses of jump hosts
    MaxJumps,      \* MAX_JUMP_HOSTS
    MaxEdits,      \* bound on changes to the form
    MaxSubmits     \* bound on submits

VARIABLES
    mode,          \* "edit" a profile, "quick": save a quick connection, or "new"
    profile,       \* the profile in the database: how it logs in, and its hops
    store,         \* the secrets saved for it
    form,          \* the form; "closed" when the dialog is
    known,         \* what the lookups have found
    asking,        \* the lookup of the target's password is on its way
    test,          \* useConnectionTest
    saves,         \* save_profile calls, with the form they were made from
    opened,        \* whether onConnect has opened a tab
    edits

vars == <<mode, profile, store, form, known, asking, test, saves, opened, edits>>
backendVars == <<profile, store>>

Blank == "blank"
Range(s) == {s[i] : i \in 1..Len(s)}
PasswordHops(jumps) == {j.hop : j \in {k \in Range(jumps) : k.auth = "password"}}
Jump(hop, auth) == [hop |-> hop, auth |-> auth, typed |-> FALSE, ref |-> FALSE, key |-> auth = "key"]

\* buildInitialForm: remember starts unticked, whatever is saved.
BuildInitialForm(p) ==
    [open |-> TRUE, type |-> "ssh", complete |-> p.host, auth |-> p.auth, remember |-> FALSE, typed |-> FALSE,
     jumps |-> p.jumps, useJump |-> p.jumps # <<>>, sudo |-> FALSE, clearSudo |-> FALSE,
     clash |-> FALSE, moved |-> FALSE]

JumpHosts == [hop : Hops \cup {Blank}, auth : {"password", "key"}, typed : BOOLEAN, ref : BOOLEAN, key : BOOLEAN]
Saved(host, auth, jumps) == [host |-> host, auth |-> auth, jumps |-> jumps]
NothingKnown == [target |-> FALSE, typed |-> FALSE, jumps |-> {}, sudo |-> FALSE, profiles |-> FALSE]
Auths == {"password", "key"}

\* The profile that is opened, and the secrets saved for it.
Chains == {<<>>} \cup {<<Jump(h, a)>> : h \in Hops, a \in Auths}
InitProfile ==
    \E auth \in Auths, jumps \in Chains :
       profile = IF mode = "new" THEN Saved(FALSE, "password", <<>>) ELSE Saved(TRUE, auth, jumps)
InitSecrets ==
    \E target, sudo \in BOOLEAN, jumps \in SUBSET Hops :
       /\ store = [target |-> target, jumps |-> jumps, sudo |-> sudo]
       /\ target => mode = "edit" /\ profile.auth = "password"
       /\ sudo => mode = "edit"
       /\ jumps \subseteq (IF mode = "edit" THEN PasswordHops(profile.jumps) ELSE {})

Init ==
    /\ mode \in {"edit", "quick", "new"} /\ InitProfile /\ InitSecrets
    /\ form = BuildInitialForm(profile)
    /\ known = NothingKnown
    /\ asking = (mode # "new") /\ test = "none" /\ saves = {} /\ opened = FALSE
    /\ edits = 0

----------------------------------------------------------------------------
(* The lookups.                                                            *)

ssh == form.open /\ form.type = "ssh"

\* has_saved_password: what is found ticks remember, whatever the user did to it.
TargetLookedUp ==
    /\ ssh /\ mode = "edit" /\ asking /\ form.auth = "password" /\ asking' = FALSE
    /\ IF store.target
       THEN known' = [known EXCEPT !.target = TRUE] /\ form' = [form EXCEPT !.remember = TRUE]
       ELSE UNCHANGED <<known, form>>
    /\ UNCHANGED <<mode, backendVars, test, saves, opened, edits>>

\* has_typed_password: what was typed while the quick connection signed in.
TypedLookedUp ==
    /\ form.open /\ mode = "quick" /\ asking /\ asking' = FALSE
    /\ \E target \in {FALSE, profile.auth = "password"}, jumps \in SUBSET (PasswordHops(profile.jumps) \cap Hops) :
          IF target \/ jumps # {}
          THEN /\ known' = [known EXCEPT !.typed = target, !.jumps = jumps]
               /\ form' = [form EXCEPT !.remember = TRUE]
          ELSE UNCHANGED <<known, form>>
    /\ UNCHANGED <<mode, backendVars, test, saves, opened, edits>>

\* has_saved_jump_host_password, for the hops the form names now.
JumpsLookedUp ==
    /\ ssh /\ mode = "edit" /\ form.useJump /\ PasswordHops(form.jumps) \ {Blank} # {}
    /\ known' = [known EXCEPT !.jumps = (PasswordHops(form.jumps) \ {Blank}) \cap store.jumps] /\ known' # known
    /\ UNCHANGED <<mode, backendVars, form, asking, test, saves, opened, edits>>

\* has_saved_sudo_password, and the profiles names are compared with.
SudoLookedUp ==
    /\ ssh /\ mode = "edit" /\ known' = [known EXCEPT !.sudo = store.sudo] /\ known' # known
    /\ UNCHANGED <<mode, backendVars, form, asking, test, saves, opened, edits>>

ProfilesListed ==
    /\ form.open /\ ~known.profiles /\ known' = [known EXCEPT !.profiles = TRUE]
    /\ UNCHANGED <<mode, backendVars, form, asking, test, saves, opened, edits>>

----------------------------------------------------------------------------
(* The form.                                                               *)

\* What the form shows of a saved secret: masked until something is typed.
SavedPasswordMasked(f, k) ==
    f.auth = "password" /\ (k.target \/ k.typed) /\ f.remember /\ ~f.typed

JumpMasked(f, k, j) == j.auth = "password" /\ j.hop \in k.jumps /\ f.remember /\ ~j.typed /\ ~j.ref

CanRememberPasswords ==
    form.auth = "password" \/ (form.useJump /\ PasswordHops(form.jumps) # {})

Edited(f) ==
    /\ form.open /\ edits < MaxEdits /\ edits' = edits + 1 /\ form' = f
    /\ UNCHANGED <<mode, backendVars, known, test, saves, opened>>

\* The buttons of a new connection's type; only SSH keeps secrets.
ChooseType ==
    /\ mode = "new" /\ \E type \in {"ssh", "serial", "terminal"} \ {form.type} : Edited([form EXCEPT !.type = type])
    /\ UNCHANGED asking

\* Name, group, address and the fields that follow them: whether all that must
\* be filled in is, whether the name is taken, whether the target is another one.
SshFields ==
    /\ form.type = "ssh"
    /\ \E field \in {"complete", "clash", "moved"} : Edited([form EXCEPT ![field] = ~@])
    /\ UNCHANGED asking

\* The fields another type requires: the port, the path of a new shell.
Required(shownFor) == shownFor /\ Edited([form EXCEPT !.complete = ~@]) /\ UNCHANGED asking
SerialFields == Required(form.type = "serial")
TerminalFields == Required(form.type = "terminal")

\* Another way to log in: the target's password is looked up again.
ChooseAuthMethod ==
    /\ form.type = "ssh"
    /\ \E auth \in Auths \ {form.auth} : Edited([form EXCEPT !.auth = auth])
    /\ asking' = IF mode = "edit" THEN form'.auth = "password" ELSE asking

\* Typing over a masked password drops the mask; deleting the mask means not
\* to remember it.
TypePassword ==
    /\ form.type = "ssh" /\ form.auth = "password"
    /\ IF SavedPasswordMasked(form, known)
       THEN \/ Edited([form EXCEPT !.typed = TRUE]) \/ Edited([form EXCEPT !.remember = FALSE])
       ELSE Edited([form EXCEPT !.typed = ~@])
    /\ UNCHANGED asking

RememberPassword ==
    /\ form.type = "ssh" /\ CanRememberPasswords /\ Edited([form EXCEPT !.remember = ~@]) /\ UNCHANGED asking

\* A sudo password typed or cleared.
SudoFields ==
    /\ form.type = "ssh"
    /\ \/ Edited([form EXCEPT !.sudo = TRUE, !.clearSudo = FALSE])
       \/ known.sudo /\ ~form.clearSudo /\ Edited([form EXCEPT !.sudo = FALSE, !.clearSudo = TRUE])
    /\ UNCHANGED asking

AddJumpHost ==
    /\ form.type = "ssh" /\ Len(form.jumps) < MaxJumps
    /\ Edited([form EXCEPT !.useJump = TRUE, !.jumps = Append(@, Jump(Blank, "password"))]) /\ UNCHANGED asking

\* Unticking keeps the hops; ticking it with none adds one.
UseJumpHost ==
    /\ form.type = "ssh"
    /\ Edited([form EXCEPT !.useJump = ~@,
           !.jumps = IF ~form.useJump /\ @ = <<>> THEN <<Jump(Blank, "password")>> ELSE @]) /\ UNCHANGED asking

RemoveJumpHost ==
    /\ form.type = "ssh" /\ form.useJump
    /\ \E i \in 1..Len(form.jumps) :
          LET rest == SubSeq(form.jumps, 1, i - 1) \o SubSeq(form.jumps, i + 1, Len(form.jumps)) IN
          Edited([form EXCEPT !.jumps = rest, !.useJump = rest # <<>>])
    /\ UNCHANGED asking

ClearJumpHosts ==
    /\ form.type = "ssh" /\ form.jumps # <<>> /\ Edited([form EXCEPT !.jumps = <<>>, !.useJump = FALSE]) /\ UNCHANGED asking

MoveJumpHost ==
    /\ form.useJump /\ \E i \in 1..Len(form.jumps) - 1 :
          Edited([form EXCEPT !.jumps = [@ EXCEPT ![i] = form.jumps[i + 1], ![i + 1] = form.jumps[i]]])
    /\ UNCHANGED asking

\* A hop's own fields: its address, how it logs in, its password, or a saved
\* connection it logs in as.
JumpHostManualFields ==
    /\ form.useJump
    /\ \E i \in 1..Len(form.jumps) :
          LET j == form.jumps[i] IN
          \/ /\ ~j.ref /\ \E hop \in Hops \ {k.hop : k \in Range(form.jumps)} :
                   Edited([form EXCEPT !.jumps[i].hop = hop])
          \/ /\ ~j.ref /\ \E auth \in Auths \ {j.auth} : Edited([form EXCEPT !.jumps[i].auth = auth])
          \/ ~j.ref /\ j.auth = "password" /\ Edited([form EXCEPT !.jumps[i].typed = ~@])
    /\ UNCHANGED asking

\* The key a hop logs in with: a file, or one of the vault.
PrivateKeyField ==
    /\ form.useJump
    /\ \E i \in 1..Len(form.jumps) :
          /\ ~form.jumps[i].ref /\ form.jumps[i].auth = "key"
          /\ Edited([form EXCEPT !.jumps[i].key = ~@])
    /\ UNCHANGED asking

JumpHostSource ==
    /\ form.useJump
    /\ \E i \in 1..Len(form.jumps) : form.jumps[i].hop # Blank /\ Edited([form EXCEPT !.jumps[i].ref = ~@, !.jumps[i].typed = FALSE])
    /\ UNCHANGED asking

----------------------------------------------------------------------------
(* Submit and test.                                                        *)

JumpHostsValid(f) ==
    f.useJump => f.jumps # <<>> /\ \A j \in Range(f.jumps) : j.ref \/ (j.hop # Blank /\ (j.auth = "key" => j.key))

\* The form goes with the dialog, the lookups' answers too.
Close ==
    /\ form' = [BuildInitialForm(Saved(FALSE, "password", <<>>)) EXCEPT !.open = FALSE]
    /\ known' = NothingKnown /\ asking' = FALSE

\* handleSubmit of "Save", or of "Save and connect": checked, then saved.
SubmitSave ==
    /\ form.open /\ form.type # "terminal" /\ form.complete /\ JumpHostsValid(form)
    /\ ~(known.profiles /\ form.clash)
    /\ \E n \in 1..MaxSubmits :
          /\ \A s \in saves : s.n # n
          /\ saves' = saves \cup {[n |-> n, form |-> form, known |-> known, at |-> "sent"]}
    /\ UNCHANGED <<mode, backendVars, form, known, asking, test, opened, edits>>

\* "Connect" saves nothing; it opens the tab at once.
SubmitConnect ==
    /\ form.open /\ mode = "new" /\ JumpHostsValid(form) /\ form.complete
    /\ opened' = TRUE /\ Close
    /\ UNCHANGED <<mode, backendVars, test, saves, edits>>

KeepsPassword(f) == f.type = "ssh" /\ f.auth # "key" /\ f.remember
\* What is typed, or was typed while connecting when the form still names that target.
Given(s) == s.form.typed \/ (s.known.typed /\ ~s.form.moved)
HopGiven(s, j) == j.typed \/ (mode = "quick" /\ j.hop \in s.known.jumps)

\* The hops that are sent: those of an SSH connection, whether it uses them or not.
SentJumps(f) == IF f.type = "ssh" THEN f.jumps ELSE <<>>

\* A hop's password stays, or is saved, only with remember ticked and the hop not using a key.
HopKept(s, h) == \A j \in Range(SentJumps(s.form)) : j.hop = h => s.form.remember /\ j.auth # "key"
HopSecrets(s) == store.jumps \cup {j.hop : j \in {k \in Range(SentJumps(s.form)) : HopGiven(s, k) /\ ~k.ref}}
TargetSecret(s) == KeepsPassword(s.form) /\ (store.target \/ (s.form.auth = "password" /\ Given(s)))
SudoSecret(f) == f.type = "ssh" /\ ~f.clearSudo /\ (store.sudo \/ f.sudo)

\* Mutant: the secrets of hops the profile no longer has are left behind.
StoredSecretsLeft(s) ==
    [target |-> TargetSecret(s), jumps |-> {h \in HopSecrets(s) : HopKept(s, h)}, sudo |-> SudoSecret(s.form)]

\* store_profile: secrets first, those of hops that are gone last.
StoredSecrets(s) ==
    LET gone == PasswordHops(profile.jumps) \ PasswordHops(SentJumps(s.form))
    IN [target |-> TargetSecret(s), jumps |-> {h \in HopSecrets(s) : HopKept(s, h) /\ h \notin gone},
        sudo |-> SudoSecret(s.form)]

StoreProfile ==
    /\ \E s \in saves :
          /\ s.at = "sent"
          /\ \/ /\ store' = StoredSecrets(s) /\ profile' = Saved(TRUE, s.form.auth, SentJumps(s.form))
                /\ saves' = (saves \ {s}) \cup {[s EXCEPT !.at = "saved"]}
             \/ /\ saves' = (saves \ {s}) \cup {[s EXCEPT !.at = "failed"]}
                /\ UNCHANGED backendVars
    /\ UNCHANGED <<mode, form, known, asking, test, opened, edits>>

\* After it: a save-only dialog tells of running tunnels, reports and closes;
\* the other connects, even when the dialog was closed meanwhile.
SaveAnswered ==
    /\ \E s \in saves :
          \/ s.at = "failed" /\ saves' = saves \ {s} /\ UNCHANGED <<form, known, asking, opened>>
          \/ /\ s.at = "saved" /\ saves' = saves \ {s} /\ Close
             /\ opened' = (opened \/ mode = "new")
    /\ UNCHANGED <<mode, backendVars, test, edits>>

CancelDialog ==
    /\ form.open /\ Close
    /\ UNCHANGED <<mode, backendVars, test, saves, opened, edits>>

HandleTestConnection ==
    /\ ssh /\ test = "none" /\ form.complete /\ JumpHostsValid(form) /\ test' = "testing"
    /\ UNCHANGED <<mode, backendVars, form, known, asking, saves, opened, edits>>

\* The host key, or a password, is asked for on the way.
TestAnswered ==
    /\ \/ test = "testing" /\ test' \in {"prompt", "none"}
       \/ test = "prompt" /\ test' \in {"testing", "none"}
    /\ UNCHANGED <<mode, backendVars, form, known, asking, saves, opened, edits>>

Next ==
    \/ TargetLookedUp \/ TypedLookedUp \/ JumpsLookedUp \/ SudoLookedUp \/ ProfilesListed
    \/ ChooseType \/ SshFields \/ SerialFields \/ TerminalFields \/ PrivateKeyField \/ ChooseAuthMethod \/ TypePassword
    \/ RememberPassword \/ SudoFields \/ AddJumpHost \/ UseJumpHost \/ RemoveJumpHost \/ ClearJumpHosts
    \/ MoveJumpHost \/ JumpHostManualFields \/ JumpHostSource
    \/ SubmitSave \/ SubmitConnect \/ StoreProfile \/ SaveAnswered \/ CancelDialog
    \/ HandleTestConnection \/ TestAnswered

Spec == Init /\ [][Next]_vars

----------------------------------------------------------------------------
\* A save keeps the secrets the form showed as saved and removes those it was
\* told to forget: a masked password (of the target, or of a hop) is still
\* there, and with remember unticked neither it nor that of any hop, named now
\* or before, is left, however the lookups, edits and saves interleave.
SecretsAsShown ==
    \A s \in saves : (s.at = "sent" /\ [s EXCEPT !.at = "saved"] \in saves') =>
          /\ (SavedPasswordMasked(s.form, s.known) /\ s.known.target /\ store.target) => store'.target
          /\ \A j \in Range(s.form.jumps) : (JumpMasked(s.form, s.known, j) /\ j.hop \in store.jumps) => j.hop \in store'.jumps
          /\ ~s.form.remember => ~store'.target /\ store'.jumps = {}

\* Once the lookups have answered, the form says which passwords of an edited
\* profile are saved, unless the user has changed it.
SavedPasswordsShown ==
    (form.open /\ mode = "edit" /\ edits = 0 /\ ~asking /\ known.jumps = store.jumps) =>
        \A j \in Range(form.jumps) : j.hop \in store.jumps => JumpMasked(form, known, j)

TypeOK ==
    /\ mode \in {"edit", "quick", "new"}
    /\ DOMAIN form = DOMAIN BuildInitialForm(profile) /\ form.jumps \in Seq(JumpHosts)
    /\ DOMAIN known = DOMAIN NothingKnown /\ known.jumps \subseteq Hops
    /\ profile.jumps \in Seq(JumpHosts)
    /\ \A s \in saves : DOMAIN s = {"n", "form", "known", "at"} /\ s.form.jumps \in Seq(JumpHosts)
                          /\ s.known.jumps \subseteq Hops

\* Only an SSH form finds saved secrets, and it names a hop once.
NamedOnce(jumps) ==
    \A i, k \in 1..Len(jumps) : (jumps[i].hop = jumps[k].hop /\ jumps[i].hop # Blank) => i = k
FormFits(f, k) == (k.target \/ k.jumps # {} => f.type = "ssh") /\ NamedOnce(f.jumps)

\* What keeps SecretsAsShown true from step to step: every secret kept is of a hop the
\* stored profile names, and every save was made from a form that fits its lookups.
SecretInv ==
    /\ TypeOK
    /\ mode # "new" => form.type = "ssh"
    /\ mode = "new" => ~known.target /\ known.jumps = {}
    /\ store.jumps \subseteq PasswordHops(profile.jumps)
    /\ NamedOnce(form.jumps)
    /\ \A s \in saves : FormFits(s.form, s.known)
    /\ \A s, u \in saves : s.n = u.n => s = u
=============================================================================
