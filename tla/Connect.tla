------------------------------- MODULE Connect -------------------------------
(***************************************************************************)
(* One connection of wtssh, or one upload of scpm: the program starts the  *)
(* OpenSSH client and waits for it; in saved-password mode OpenSSH starts  *)
(* the same executable again, as its SSH_ASKPASS helper, for every         *)
(* question it has.  Meanwhile another session may delete or save the      *)
(* credential.                                                             *)
(*                                                                         *)
(* OpenSSH is external: it is modelled by what the arguments, environment  *)
(* and prompts handled in the code require of it.                          *)
(***************************************************************************)
EXTENDS Integers

CONSTANTS
  Platforms,  \* "posix", "windows"
  Programs,   \* "wtssh", "scpm"
  AuthModes,  \* "auto", "key", "password"
  HalfRange   \* 2^31: a Windows exit code from here on is a negative int

ASSUME HalfRangeAssumption == HalfRange \in Nat /\ HalfRange >= 256

VARIABLES
  platform, program, auth_mode,
  noChildStatus,  \* was the program started with SIGCHLD ignored?
  secret,    \* does the vault hold the password of the entry's id?
  pc,        \* "check", "launch", "wait", "done"
  result,    \* the program's exit code, once done
  ssh,       \* the OpenSSH process
  ask,       \* the helper process
  reads,     \* how often the password was taken out of the vault
  released   \* how often it was handed to OpenSSH

setup == <<platform, program, auth_mode, noChildStatus>>
vars == <<setup, secret, pc, result, ssh, ask, reads, released>>

-----------------------------------------------------------------------------
(***************************************************************************)
(* Prompts: OpenSSH may mark a question as a confirmation, and its text    *)
(* holds some of the phrases run_askpass looks for.                        *)
(***************************************************************************)
Phrases == {"are you sure", "authenticity", "please type 'yes'", "please type \"yes\"", "yes/no"}

Prompt(about, hint, phrases) == [about |-> about, hint |-> hint, phrases |-> phrases]

HostPrompts ==
  {Prompt("host", TRUE, {}), Prompt("host", FALSE, {"are you sure", "authenticity", "yes/no"})}

SecretPrompt(about) == Prompt(about, FALSE, {})

NoPrompt == SecretPrompt("none")

\* The environment hint is not looked at.
classify_text_only(prompt) ==
  IF prompt.phrases \intersect Phrases # {} THEN "TextConfirmation" ELSE "Secret"

classify_askpass_prompt(prompt) ==
  IF prompt.hint THEN "HintedConfirmation"
  ELSE IF prompt.phrases \intersect Phrases # {} THEN "TextConfirmation"
  ELSE "Secret"

(***************************************************************************)
(* build_ssh_args and build_scp_args: the methods OpenSSH may try, and how *)
(* often it may ask for a password.  3 is OpenSSH's own default.           *)
(***************************************************************************)
AllMethods == {"passphrase", "otp", "password"}

\* Without PubkeyAuthentication=no, KbdInteractiveAuthentication=no and
\* NumberOfPasswordPrompts=1.
unrestricted_args == [methods |-> AllMethods, prompts |-> 3]

build_args ==
  CASE auth_mode = "key" -> [methods |-> {"passphrase"}, prompts |-> 3]
    [] auth_mode = "password" -> [methods |-> {"password"}, prompts |-> 1]
    [] OTHER -> [methods |-> AllMethods, prompts |-> 3]

\* SSH_ASKPASS, SSH_ASKPASS_REQUIRE=force, the mode flag and the id are set.
Helped == auth_mode = "password"

-----------------------------------------------------------------------------
\* What becomes of OpenSSH: an exit code, or on POSIX a signal.
Exit(n) == [kind |-> "exit", n |-> n]
Signal(n) == [kind |-> "signal", n |-> n]

Crashed == IF platform = "posix" THEN Signal(15) ELSE Exit(2 * HalfRange - 64)

\* Conversion of a DWORD to int.
AsInt(n) == IF n >= HalfRange THEN n - 2 * HalfRange ELSE n

\* The exit status of a child killed by a signal is taken for its code.
code_of_exit(status) ==
  IF platform = "windows" THEN AsInt(status.n)
  ELSE IF status.kind = "exit" THEN status.n ELSE 0

code_of(status) ==
  IF platform = "windows" THEN AsInt(status.n)
  ELSE IF status.kind = "exit" THEN status.n ELSE 128 + status.n

unchecked_result(code) == code

\* connect_entry and transfer_files never return a negative code.
result_of(code) == IF code < 0 THEN 1 ELSE code

Finish(code) ==
  /\ pc' = "done"
  /\ result' = result_of(code)

-----------------------------------------------------------------------------
NotStarted == [pc |-> "off", verified |-> FALSE, asked |-> 0, status |-> Exit(0)]
NoHelper == [pc |-> "off", prompt |-> NoPrompt, code |-> 0, output |-> "none"]

Init ==
  /\ platform \in Platforms /\ program \in Programs /\ auth_mode \in AuthModes
  /\ noChildStatus \in BOOLEAN /\ (noChildStatus => platform = "posix")
  /\ secret \in BOOLEAN
  /\ pc = "check" /\ result = -1
  /\ ssh = NotStarted /\ ask = NoHelper
  /\ reads = 0 /\ released = 0

\* transfer_files refuses missing arguments, files and directories first.
FilesRejected ==
  /\ pc = "check" /\ program = "scpm"
  /\ Finish(1)
  /\ UNCHANGED <<setup, secret, ssh, ask, reads, released>>

\* credentials.exists: every vault answers by looking the password up, and
\* any error is a no.
Check ==
  /\ pc = "check"
  /\ \/ /\ ~Helped
        /\ pc' = "launch" /\ UNCHANGED <<result, reads>>
     \/ /\ Helped /\ secret
        /\ reads' = reads + 1
        /\ pc' = "launch" /\ UNCHANGED result
     \/ /\ Helped
        /\ Finish(1) /\ UNCHANGED reads
  /\ UNCHANGED <<setup, secret, ssh, ask, released>>

\* A bad DISPLAY or rule, no executable path, no client, no process.
LaunchFails ==
  /\ pc = "launch"
  /\ Finish(-1)
  /\ UNCHANGED <<setup, secret, ssh, ask, reads, released>>

\* The client starts; it may know the host's key already.
Launch ==
  /\ pc = "launch"
  /\ \E known \in BOOLEAN :
       ssh' = [ssh EXCEPT !.pc = IF known THEN "auth" ELSE "verify", !.verified = known]
  /\ pc' = "wait"
  /\ UNCHANGED <<setup, secret, result, ask, reads, released>>

Ended == ssh.pc = "ended"

\* Every error of waitpid is taken for an interruption.
WaitRetriesForever ==
  /\ pc = "wait" /\ Ended /\ ~noChildStatus
  /\ Finish(code_of(ssh.status))
  /\ UNCHANGED <<setup, secret, ssh, ask, reads, released>>

\* The wait, interruptions and all, and its only other outcome.
Wait ==
  /\ pc = "wait" /\ Ended
  /\ Finish(IF noChildStatus THEN -1 ELSE code_of(ssh.status))
  /\ UNCHANGED <<setup, secret, ssh, ask, reads, released>>

Program == FilesRejected \/ Check \/ LaunchFails \/ Launch \/ Wait

-----------------------------------------------------------------------------
(***************************************************************************)
(* The helper: run_askpass.                                                *)
(***************************************************************************)
HelperEnds(code, output) ==
  ask' = [ask EXCEPT !.pc = "ended", !.code = code, !.output = output]

\* Yes, no, an unreadable answer, no terminal, a failed write.
Confirm ==
  /\ ask.pc = "start"
  /\ LET kind == classify_askpass_prompt(ask.prompt) IN
     /\ kind # "Secret"
     /\ \/ HelperEnds(1, "none")
        \/ HelperEnds(0, IF kind = "TextConfirmation" THEN "yes" ELSE "none")
  /\ UNCHANGED <<setup, secret, pc, result, ssh, reads, released>>

ReadSecret ==
  /\ ask.pc = "start" /\ classify_askpass_prompt(ask.prompt) = "Secret"
  /\ \/ /\ secret
        /\ reads' = reads + 1
        /\ ask' = [ask EXCEPT !.pc = "write"]
     \/ HelperEnds(1, "none") /\ UNCHANGED reads
  /\ UNCHANGED <<setup, secret, pc, result, ssh, released>>

WriteSecret ==
  /\ ask.pc = "write"
  /\ \/ ~Ended /\ HelperEnds(0, "password") /\ released' = released + 1
     \/ HelperEnds(1, "none") /\ UNCHANGED released
  /\ UNCHANGED <<setup, secret, pc, result, ssh, reads>>

Helper == Confirm \/ ReadSecret \/ WriteSecret

-----------------------------------------------------------------------------
(***************************************************************************)
(* OpenSSH.                                                                *)
(***************************************************************************)
SshEnds(status) == ssh' = [ssh EXCEPT !.pc = "ended", !.status = status]

AskHelper(prompt) ==
  /\ ask.pc \in {"off", "ended"}
  /\ ask' = [NoHelper EXCEPT !.pc = "start", !.prompt = prompt]

\* The unknown host key: the helper is asked, or the user on the terminal.
Verify ==
  /\ ssh.pc = "verify"
  /\ \/ /\ Helped
        /\ \E prompt \in HostPrompts : AskHelper(prompt)
        /\ ssh' = [ssh EXCEPT !.pc = "waiting"]
     \/ /\ ~Helped
        /\ \/ ssh' = [ssh EXCEPT !.pc = "auth", !.verified = TRUE]
           \/ SshEnds(Exit(255))
        /\ UNCHANGED ask
  /\ UNCHANGED <<setup, secret, pc, result, reads, released>>

\* Another secret to ask for, or nothing left to try.
Authenticate ==
  /\ ssh.pc = "auth"
  /\ \/ /\ Helped /\ ssh.asked < build_args.prompts
        /\ \E about \in build_args.methods : AskHelper(SecretPrompt(about))
        /\ ssh' = [ssh EXCEPT !.pc = "waiting", !.asked = @ + 1]
     \/ /\ Helped => ssh.asked = build_args.prompts
        /\ SshEnds(Exit(255)) /\ UNCHANGED ask
     \/ /\ ~Helped
        /\ ssh' = [ssh EXCEPT !.pc = "session"] /\ UNCHANGED ask
  /\ UNCHANGED <<setup, secret, pc, result, reads, released>>

Accepted ==
  ask.code = 0 /\ (ask.prompt.hint \/ ask.output = "yes")

\* The helper's answer arrives; the server may not like the secret.
Answer ==
  /\ ssh.pc = "waiting" /\ ask.pc = "ended"
  /\ IF ask.prompt.about = "host"
       THEN IF Accepted THEN ssh' = [ssh EXCEPT !.pc = "auth", !.verified = TRUE]
                        ELSE SshEnds(Exit(255))
       ELSE \/ ssh' = [ssh EXCEPT !.pc = "auth"]
            \/ ask.output = "password" /\ ssh' = [ssh EXCEPT !.pc = "session"]
  /\ UNCHANGED <<setup, secret, pc, result, ask, reads, released>>

\* The session or the copy ends with the remote command's code.
SessionEnds ==
  /\ ssh.pc = "session"
  /\ \E n \in {0, 1, 255} : SshEnds(Exit(n))
  /\ UNCHANGED <<setup, secret, pc, result, ask, reads, released>>

SshCrashes ==
  /\ ssh.pc \notin {"off", "ended"}
  /\ SshEnds(Crashed)
  /\ UNCHANGED <<setup, secret, pc, result, ask, reads, released>>

\* Another session saves or deletes the entry's password.
OtherSession ==
  /\ secret' = ~secret
  /\ UNCHANGED <<setup, pc, result, ssh, ask, reads, released>>

Next ==
  \/ Program \/ Helper
  \/ Verify \/ Authenticate \/ Answer \/ SessionEnds \/ SshCrashes
  \/ OtherSession

Spec == Init /\ [][Next]_vars

(***************************************************************************)
(* The program and the helper run on, the user answers the helper's        *)
(* dialog, and OpenSSH reads the answer of a helper that has ended.        *)
(* Nothing is assumed of the server: a session may last forever.           *)
(***************************************************************************)
FairSpec ==
  Spec /\ WF_vars(Program) /\ WF_vars(Helper) /\ WF_vars(Answer)

-----------------------------------------------------------------------------
\* The state's type; an exit code is never negative.
TypeOK ==
  /\ platform \in Platforms /\ program \in Programs /\ auth_mode \in AuthModes
  /\ noChildStatus \in BOOLEAN /\ secret \in BOOLEAN
  /\ pc \in {"check", "launch", "wait", "done"}
  /\ result \in IF pc = "done" THEN Nat ELSE {-1}
  /\ ssh.pc \in {"off", "verify", "auth", "waiting", "session", "ended"}
  /\ ask.pc \in {"off", "start", "write", "ended"}
  /\ reads \in Nat /\ released \in Nat

(***************************************************************************)
(* The password is handed over only to a host whose key was known or has   *)
(* been accepted: no confirmation, hinted or textual, is answered with it. *)
(***************************************************************************)
ReleaseOnlyVerified ==
  [][released' # released => ssh.verified /\ ask.prompt.about # "host"]_vars

(***************************************************************************)
(* README.md:192: one attempt, of the password method only; in the other   *)
(* modes never.                                                            *)
(***************************************************************************)
OneAttempt ==
  /\ released <= IF auth_mode = "password" THEN 1 ELSE 0
  /\ released > 0 => ask.prompt.about = "password"

(***************************************************************************)
(* The exit code is 0 only when OpenSSH ran and ended with 0, and it is 0  *)
(* then unless the child's status was lost.                                *)
(***************************************************************************)
Succeeded == Ended /\ ssh.status = Exit(0)

ExitCodeIsTrue ==
  pc = "done" =>
    /\ result = 0 => Succeeded
    /\ Succeeded => result = 0 \/ noChildStatus

(***************************************************************************)
(* OpenSSH never waits forever for the helper, nor the program for an      *)
(* OpenSSH that has ended.                                                 *)
(***************************************************************************)
NobodyHangs ==
  /\ ssh.pc = "waiting" ~> ssh.pc # "waiting"
  /\ Ended ~> pc = "done"

(***************************************************************************)
(* README.md:194: "The password is requested from the native credential    *)
(* vault only after host verification succeeds."                           *)
(***************************************************************************)
VaultAfterVerification ==
  [][reads' # reads => ssh.verified]_vars
==============================================================================
