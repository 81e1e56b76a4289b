--------------------------- MODULE PasswordsProofs ---------------------------
(***************************************************************************)
(* What holds of Connect for every width of an exit code and every choice  *)
(* of platforms, programs and modes: the password leaves the vault for     *)
(* OpenSSH at most once, never for another question and never before the   *)
(* host is verified, and the exit code tells what became of OpenSSH.       *)
(*                                                                         *)
(* The composition of a connection with a session that edits its entry is  *)
(* an instance of Connect, whose results it inherits; and for any targets, *)
(* passwords and vaults the password that is handed over is the right one. *)
(***************************************************************************)
EXTENDS Passwords, SequenceTheorems, TLAPS

Statuses == {Exit(0), Exit(1), Exit(255), Crashed}

SecretPrompts == {SecretPrompt(about) : about \in AllMethods \union {"none"}}

SshType ==
  [pc : {"off", "verify", "auth", "waiting", "session", "ended"},
   verified : BOOLEAN, asked : Nat, status : Statuses]

AskType ==
  [pc : {"off", "start", "write", "ended"}, prompt : HostPrompts \union SecretPrompts,
   code : {0, 1}, output : {"none", "yes", "password"}]

-----------------------------------------------------------------------------
(***************************************************************************)
(* Exit codes and prompts.                                                 *)
(***************************************************************************)

\* A code is 0 for a success and for nothing else, and never negative.
LEMMA CodeIsTrue ==
  ASSUME NEW status \in Statuses
  PROVE  /\ result_of(code_of(status)) \in Nat
         /\ result_of(code_of(status)) = 0 <=> status = Exit(0)
  BY HalfRangeAssumption DEF Statuses, Crashed, Exit, Signal, code_of, AsInt, result_of

LEMMA FailureCode == result_of(-1) = 1 /\ result_of(1) = 1
  BY DEF result_of

\* No question about the host is taken for one about a secret.
LEMMA HostIsConfirmed ==
  ASSUME NEW prompt \in HostPrompts
  PROVE  classify_askpass_prompt(prompt) # "Secret" /\ prompt.about = "host"
<1>1. CASE prompt = Prompt("host", TRUE, {})
  BY <1>1 DEF Prompt, classify_askpass_prompt
<1>2. CASE prompt = Prompt("host", FALSE, {"are you sure", "authenticity", "yes/no"})
  <2>1. "yes/no" \in prompt.phrases \intersect Phrases
    BY <1>2 DEF Prompt, Phrases
  <2> QED
    BY <1>2, <2>1 DEF Prompt, classify_askpass_prompt
<1> QED
  BY <1>1, <1>2 DEF HostPrompts

LEMMA SecretIsNotHost ==
  ASSUME NEW about \in AllMethods \union {"none"}
  PROVE  SecretPrompt(about).about = about /\ about # "host"
  BY DEF SecretPrompt, Prompt, AllMethods

\* What saved-password mode lets OpenSSH ask.
LEMMA PasswordArgs == Helped => build_args.methods = {"password"} /\ build_args.prompts = 1
  BY DEF Helped, build_args

-----------------------------------------------------------------------------
(***************************************************************************)
(* The invariant.                                                          *)
(*                                                                         *)
(* OpenSSH counts its questions for a secret, and asks the first one only  *)
(* when the host is verified.  Until then every question is about the      *)
(* host and is not answered with the password; after it, there is none.    *)
(* So a helper that runs has not been preceded by one that handed the      *)
(* password over, and one that is about to is asked for it.                *)
(***************************************************************************)
Types ==
  /\ TypeOK
  /\ ssh \in SshType
  /\ ask \in AskType

Questions ==
  /\ ~Helped => ask.pc = "off" /\ ssh.asked = 0
  /\ Helped => ssh.asked <= 1
  /\ ssh.pc = "verify" => ssh.asked = 0
  /\ ssh.pc \in {"auth", "session"} => ssh.verified
  /\ ssh.asked = 0 => ask.pc = "off" \/ ask.prompt \in HostPrompts
  /\ ssh.asked > 0 => ssh.verified /\ ask.prompt = SecretPrompt("password")
  /\ ask.pc = "write" => ssh.asked > 0
  /\ released <= ssh.asked
  /\ ask.pc \in {"start", "write"} => released = 0

Outcome ==
  /\ pc \in {"check", "launch"} => ssh = NotStarted /\ ask = NoHelper
  /\ pc = "done" =>
       \/ ssh.pc = "off" /\ result # 0
       \/ Ended /\ (result = 0 => ssh.status = Exit(0))
                /\ (ssh.status = Exit(0) => result = 0 \/ noChildStatus)

ConnectInv == Types /\ Questions /\ Outcome

LEMMA InitConnect == Init => ConnectInv
<1> SUFFICES ASSUME Init PROVE ConnectInv
  OBVIOUS
<1>1. NotStarted \in SshType
  BY DEF NotStarted, SshType, Statuses
<1>2. NoHelper \in AskType
  BY DEF NoHelper, AskType, SecretPrompts, NoPrompt
<1>3. Types
  BY <1>1, <1>2 DEF Init, Types, TypeOK, NotStarted, NoHelper
<1>4. Questions /\ Outcome
  BY DEF Init, Questions, Outcome, NotStarted, NoHelper
<1> QED
  BY <1>3, <1>4 DEF ConnectInv

-----------------------------------------------------------------------------
(***************************************************************************)
(* The program.                                                            *)
(***************************************************************************)
LEMMA StepProgram == ConnectInv /\ Program => ConnectInv'
<1> SUFFICES ASSUME ConnectInv, Program PROVE ConnectInv'
  OBVIOUS
<1> USE DEF ConnectInv
<1>1. CASE FilesRejected
  BY <1>1, FailureCode DEF FilesRejected, Finish, Types, TypeOK, Questions, Outcome, setup,
       Helped, Statuses, SshType, Crashed, NotStarted, Ended
<1>2. CASE Check
  BY <1>2, FailureCode DEF Check, Finish, Types, TypeOK, Questions, Outcome, setup,
       Helped, Statuses, SshType, Crashed, NotStarted, Ended
<1>3. CASE LaunchFails
  BY <1>3, FailureCode DEF LaunchFails, Finish, Types, TypeOK, Questions, Outcome, setup,
       Helped, Statuses, SshType, Crashed, NotStarted, Ended
<1>4. CASE Launch
  <2>1. PICK known \in BOOLEAN :
          ssh' = [ssh EXCEPT !.pc = IF known THEN "auth" ELSE "verify", !.verified = known]
    BY <1>4 DEF Launch
  <2>2. ssh = NotStarted /\ ask = NoHelper
    BY <1>4 DEF Launch, Outcome
  <2>3. Types'
    <3>1. ssh' \in SshType
      BY <2>1 DEF Types, SshType
    <3>2. SshType' = SshType /\ ask' = ask
      BY <1>4 DEF Launch, setup, SshType, Statuses, Crashed
    <3>3. TypeOK'
      BY <1>4, <2>1 DEF Launch, Types, TypeOK, setup, SshType
    <3> QED
      BY <3>1, <3>2, <3>3 DEF Types, AskType
  <2>4. ssh'.pc = (IF known THEN "auth" ELSE "verify") /\ ssh'.verified = known /\ ssh'.asked = 0
    BY <2>1, <2>2 DEF NotStarted
  <2>5. Questions'
    BY <1>4, <2>2, <2>4 DEF Launch, Questions, Helped, setup, NotStarted, NoHelper, Types, TypeOK
  <2>6. Outcome'
    BY <1>4 DEF Launch, Outcome
  <2> QED
    BY <2>3, <2>5, <2>6
<1>5. CASE Wait
  <2>1. ssh.status \in Statuses
    BY DEF Types, SshType
  <2>2. /\ result' \in Nat
        /\ result' = 0 => ssh.status = Exit(0)
        /\ ssh.status = Exit(0) => result' = 0 \/ noChildStatus
    BY <1>5, <2>1, CodeIsTrue, FailureCode DEF Wait, Finish
  <2>3. Types'
    BY <1>5, <2>2 DEF Wait, Finish, Types, TypeOK, setup, SshType, Statuses, Crashed
  <2> QED
    BY <1>5, <2>2, <2>3 DEF Wait, Finish, Questions, Outcome, setup, Helped, Ended
<1> QED
  BY <1>1, <1>2, <1>3, <1>4, <1>5 DEF Program

-----------------------------------------------------------------------------
(***************************************************************************)
(* The helper.  It changes neither OpenSSH nor the program.                *)
(***************************************************************************)
LEMMA HelperEndsType ==
  ASSUME ask \in AskType, NEW code \in {0, 1}, NEW output \in {"none", "yes", "password"},
         HelperEnds(code, output)
  PROVE  ask' \in AskType /\ ask'.pc = "ended" /\ ask'.prompt = ask.prompt
  BY DEF AskType, HelperEnds

LEMMA StepHelper == ConnectInv /\ Helper => ConnectInv'
<1> SUFFICES ASSUME ConnectInv, Helper PROVE ConnectInv'
  OBVIOUS
<1> USE DEF ConnectInv
<1>1. /\ UNCHANGED <<setup, secret, pc, result, ssh>>
      /\ ask' \in AskType /\ ask'.prompt = ask.prompt
      /\ reads' \in Nat
      /\ ask.pc \in {"start", "write"} /\ pc \notin {"check", "launch"}
  <2>1. CASE Confirm
    <3>1. ask' \in AskType /\ ask'.prompt = ask.prompt
      BY <2>1, HelperEndsType DEF Confirm, Types
    <3> QED
      BY <2>1, <3>1 DEF Confirm, Types, TypeOK, Outcome, NoHelper, setup
  <2>2. CASE ReadSecret
    <3>1. ask' \in AskType /\ ask'.prompt = ask.prompt
      BY <2>2, HelperEndsType DEF ReadSecret, Types, AskType
    <3> QED
      BY <2>2, <3>1 DEF ReadSecret, Types, TypeOK, Outcome, NoHelper, setup
  <2>3. CASE WriteSecret
    <3>1. ask' \in AskType /\ ask'.prompt = ask.prompt
      BY <2>3, HelperEndsType DEF WriteSecret, Types
    <3> QED
      BY <2>3, <3>1 DEF WriteSecret, Types, TypeOK, Outcome, NoHelper, setup
  <2> QED
    BY <2>1, <2>2, <2>3 DEF Helper
<1>2. Outcome'
  BY <1>1 DEF Outcome, Ended, setup, Types, TypeOK
<1>3. released' \in Nat /\ Questions'
  <2>1. CASE Confirm
    BY <1>1, <2>1 DEF Confirm, HelperEnds, Types, TypeOK, Questions, setup, Helped, AskType
  <2>2. CASE ReadSecret
    <3>1. ask.prompt \notin HostPrompts /\ ask.pc = "start"
      BY <2>2, HostIsConfirmed DEF ReadSecret
    <3>2. ssh.asked > 0
      BY <3>1 DEF Questions, Types, SshType
    <3> QED
      BY <1>1, <2>2, <3>2 DEF ReadSecret, HelperEnds, Types, TypeOK, Questions, setup, Helped,
           AskType
  <2>3. CASE WriteSecret
    <3>1. ssh.asked \in Nat /\ ssh.asked > 0 /\ released = 0
      BY <2>3 DEF WriteSecret, Questions, Types, SshType
    <3>2. ask'.pc = "ended" /\ released' \in {0, 1}
      BY <2>3, <3>1, HelperEndsType DEF WriteSecret, Types
    <3> QED
      BY <1>1, <3>1, <3>2 DEF Questions, setup, Helped
  <2> QED
    BY <2>1, <2>2, <2>3 DEF Helper
<1>4. SshType' = SshType
  BY <1>1 DEF setup, SshType, Statuses, Crashed
<1>5. Types'
  BY <1>1, <1>3, <1>4 DEF Types, TypeOK, setup, AskType
<1> QED
  BY <1>2, <1>3, <1>5

-----------------------------------------------------------------------------
(***************************************************************************)
(* OpenSSH.  It runs only while the program waits for it, and leaves the   *)
(* program and the count of releases alone.                                *)
(***************************************************************************)
OpenSsh == Verify \/ Authenticate \/ Answer \/ SessionEnds \/ SshCrashes

LEMMA Running ==
  ConnectInv /\ OpenSsh =>
    pc = "wait" /\ UNCHANGED <<setup, secret, pc, result, reads, released>>
  BY DEF ConnectInv, Types, TypeOK, Outcome, OpenSsh, Verify, Authenticate, Answer, SessionEnds,
       SshCrashes, NotStarted, NoHelper, Ended, SshEnds

LEMMA SshEndsType ==
  ASSUME ssh \in SshType, NEW status \in Statuses, SshEnds(status)
  PROVE  /\ ssh' \in SshType /\ ssh'.pc = "ended"
         /\ ssh'.asked = ssh.asked /\ ssh'.verified = ssh.verified
  BY DEF SshType, SshEnds

LEMMA StepOpenSsh == ConnectInv /\ OpenSsh => ConnectInv'
<1> SUFFICES ASSUME ConnectInv, OpenSsh PROVE ConnectInv'
  OBVIOUS
<1> USE DEF ConnectInv
<1>1. pc = "wait" /\ UNCHANGED <<setup, secret, pc, result, reads, released>>
  BY Running
<1>2. Outcome'
  BY <1>1 DEF Outcome
<1>3. SshType' = SshType
  BY <1>1 DEF setup, SshType, Statuses, Crashed
<1>4. SUFFICES ssh' \in SshType /\ ask' \in AskType /\ Questions'
  BY <1>1, <1>2, <1>3 DEF Types, TypeOK, SshType, AskType, setup
<1> USE DEF Types
<1>5. CASE Verify
  <2>1. CASE Helped
    <3>1. PICK prompt \in HostPrompts :
            ask' = [NoHelper EXCEPT !.pc = "start", !.prompt = prompt]
      BY <1>5, <2>1 DEF Verify, AskHelper
    <3>2. ssh' = [ssh EXCEPT !.pc = "waiting"] /\ ssh.asked = 0 /\ released = 0
      BY <1>5, <2>1 DEF Verify, Questions, TypeOK, SshType
    <3>3. ask'.pc = "start" /\ ask'.prompt = prompt /\ ask' \in AskType
      BY <3>1 DEF NoHelper, AskType
    <3> QED
      BY <1>1, <2>1, <3>2, <3>3 DEF Questions, setup, Helped, SshType
  <2>2. CASE ~Helped
    <3>1. Exit(255) \in Statuses /\ ask' = ask
      BY <1>5, <2>2 DEF Verify, Statuses
    <3>2. CASE SshEnds(Exit(255))
      BY <1>1, <2>2, <3>1, <3>2, SshEndsType DEF Questions, setup, Helped
    <3>3. CASE ssh' = [ssh EXCEPT !.pc = "auth", !.verified = TRUE]
      BY <1>1, <2>2, <3>1, <3>3 DEF Questions, setup, Helped, SshType
    <3> QED
      BY <1>5, <2>2, <3>2, <3>3 DEF Verify
  <2> QED
    BY <2>1, <2>2
<1>6. CASE Authenticate
  <2>1. CASE Helped /\ ssh'.pc = "waiting"
    <3>1. PICK about \in build_args.methods :
            ask' = [NoHelper EXCEPT !.pc = "start", !.prompt = SecretPrompt(about)]
      BY <1>6, <2>1 DEF Authenticate, AskHelper, SshEnds, SshType
    <3>2. about = "password"
      BY <2>1, <3>1, PasswordArgs
    <3>3. ssh.pc = "auth" /\ ssh' = [ssh EXCEPT !.pc = "waiting", !.asked = @ + 1] /\ ssh.asked < 1
      BY <1>6, <2>1, PasswordArgs DEF Authenticate, SshEnds, SshType
    <3>4. ask'.pc = "start" /\ ask'.prompt = SecretPrompt("password") /\ ask' \in AskType
      BY <3>1, <3>2 DEF NoHelper, AskType, SecretPrompts, AllMethods
    <3>5. ssh.verified /\ ssh.asked = 0 /\ released = 0
      BY <3>3 DEF Questions, TypeOK, SshType
    <3> QED
      <4>1. ssh' = [ssh EXCEPT !.pc = "waiting", !.asked = 1]
        BY <3>3, <3>5
      <4>2. ssh' \in SshType /\ ssh'.pc = "waiting" /\ ssh'.asked = 1 /\ ssh'.verified
        BY <3>5, <4>1 DEF SshType
      <4> QED
        BY <1>1, <2>1, <3>4, <3>5, <4>2 DEF Questions, setup, Helped
  <2>2. CASE ask' = ask /\ SshEnds(Exit(255))
    <3>1. Exit(255) \in Statuses
      BY DEF Statuses
    <3> QED
      BY <1>1, <2>2, <3>1, SshEndsType DEF Questions, setup, Helped
  <2>3. CASE ask' = ask /\ ssh.pc = "auth" /\ ssh' = [ssh EXCEPT !.pc = "session"]
    BY <1>1, <2>3 DEF Questions, setup, Helped, SshType
  <2> QED
    BY <1>6, <2>1, <2>2, <2>3 DEF Authenticate, SshType
<1>7. CASE Answer
  <2>1. ask' = ask /\ ssh.pc = "waiting" /\ ask.pc = "ended"
    BY <1>7 DEF Answer
  <2>2. CASE SshEnds(Exit(255))
    <3>1. Exit(255) \in Statuses
      BY DEF Statuses
    <3> QED
      BY <1>1, <2>1, <2>2, <3>1, SshEndsType DEF Questions, setup, Helped
  <2>3. CASE ask.prompt.about = "host" /\ ssh' = [ssh EXCEPT !.pc = "auth", !.verified = TRUE]
    BY <1>1, <2>1, <2>3 DEF Questions, setup, Helped, SshType
  <2>4. CASE /\ ask.prompt.about # "host"
             /\ ssh' = [ssh EXCEPT !.pc = "auth"] \/ ssh' = [ssh EXCEPT !.pc = "session"]
    <3>1. ssh.asked > 0
      BY <2>1, <2>4, HostIsConfirmed DEF Questions, SshType
    <3> QED
      BY <1>1, <2>1, <2>4, <3>1 DEF Questions, setup, Helped, SshType
  <2> QED
    BY <1>7, <2>2, <2>3, <2>4 DEF Answer
<1>8. CASE SessionEnds
  <2>1. PICK n \in {0, 1, 255} : SshEnds(Exit(n))
    BY <1>8 DEF SessionEnds
  <2>2. Exit(n) \in Statuses
    BY DEF Statuses
  <2> QED
    BY <1>1, <1>8, <2>1, <2>2, SshEndsType DEF SessionEnds, Questions, setup, Helped
<1>9. CASE SshCrashes
  <2>1. Crashed \in Statuses
    BY DEF Statuses
  <2> QED
    BY <1>1, <1>9, <2>1, SshEndsType DEF SshCrashes, Questions, setup, Helped
<1> QED
  BY <1>5, <1>6, <1>7, <1>8, <1>9 DEF OpenSsh

LEMMA StepOther == ConnectInv /\ (OtherSession \/ UNCHANGED vars) => ConnectInv'
<1> SUFFICES ASSUME ConnectInv, OtherSession \/ UNCHANGED vars PROVE ConnectInv'
  OBVIOUS
<1>1. UNCHANGED <<setup, pc, result, ssh, ask, released>> /\ reads' = reads /\ secret' \in BOOLEAN
  BY DEF OtherSession, vars, ConnectInv, Types, TypeOK
<1>2. SshType' = SshType
  BY <1>1 DEF setup, SshType, Statuses, Crashed
<1>3. Types'
  BY <1>1, <1>2 DEF ConnectInv, Types, TypeOK, setup, AskType
<1> QED
  BY <1>1, <1>3 DEF ConnectInv, Questions, Outcome, setup, Helped, Ended

LEMMA NextConnect == ConnectInv /\ [Next]_vars => ConnectInv'
  BY StepProgram, StepHelper, StepOpenSsh, StepOther DEF Next, OpenSsh

LEMMA AlwaysConnect == Spec => []ConnectInv
  BY InitConnect, NextConnect, PTL DEF Spec

-----------------------------------------------------------------------------
(***************************************************************************)
(* What follows.                                                           *)
(***************************************************************************)

\* The state has its type; the exit code is never negative, whatever became
\* of OpenSSH and however wide a code is.
THEOREM ConnectTypeCorrect == Spec => []TypeOK
<1>1. ConnectInv => TypeOK
  BY DEF ConnectInv, Types
<1> QED
  BY <1>1, AlwaysConnect, PTL

\* In saved-password mode the password is handed over at most once, as the
\* answer to a password prompt, and in the other modes never.
THEOREM OneAttemptAlways == Spec => []OneAttempt
<1>1. ConnectInv => OneAttempt
  <2> SUFFICES ASSUME ConnectInv PROVE OneAttempt
    OBVIOUS
  <2>1. released \in Nat /\ ssh.asked \in Nat /\ Questions
    BY DEF ConnectInv, Types, TypeOK, SshType
  <2>2. released <= IF auth_mode = "password" THEN 1 ELSE 0
    BY <2>1 DEF Questions, Helped
  <2>3. released > 0 => ask.prompt = SecretPrompt("password")
    BY <2>1 DEF Questions
  <2>4. SecretPrompt("password").about = "password"
    BY SecretIsNotHost DEF AllMethods
  <2> QED
    BY <2>2, <2>3, <2>4 DEF OneAttempt
<1> QED
  BY <1>1, AlwaysConnect, PTL

\* The exit code is 0 only when OpenSSH ended with 0, and then unless the
\* child's status was lost.
THEOREM ExitCodeTrue == Spec => []ExitCodeIsTrue
<1>1. ConnectInv => ExitCodeIsTrue
  BY DEF ConnectInv, Outcome, ExitCodeIsTrue, Succeeded, Ended
<1> QED
  BY <1>1, AlwaysConnect, PTL

\* The password is handed to OpenSSH only for a host whose key was known or
\* has been accepted, and never as the answer to a question about the host.
THEOREM NeverBeforeVerification == Spec => ReleaseOnlyVerified
<1>1. ConnectInv /\ [Next]_vars =>
        (released' # released => ssh.verified /\ ask.prompt.about # "host")
  <2> SUFFICES ASSUME ConnectInv, [Next]_vars, released' # released
               PROVE  ssh.verified /\ ask.prompt.about # "host"
    OBVIOUS
  <2>1. WriteSecret
    BY DEF Next, Program, FilesRejected, Check, LaunchFails, Launch, Wait, Helper, Confirm,
         ReadSecret, Verify, Authenticate, Answer, SessionEnds, SshCrashes, OtherSession, vars
  <2>2. ssh.verified /\ ask.prompt = SecretPrompt("password")
    BY <2>1 DEF WriteSecret, ConnectInv, Questions
  <2>3. SecretPrompt("password").about = "password"
    BY SecretIsNotHost DEF AllMethods
  <2> QED
    BY <2>2, <2>3
<1> QED
  BY <1>1, AlwaysConnect, PTL DEF Spec, ReleaseOnlyVerified

-----------------------------------------------------------------------------
Items == [form : Forms, blob : Seq(Nat), text : Seq(Nat), owners : SUBSET Targets]

Pcs == {"menu", "write", "save", "undo", "forget", "over"} \union SelfTesting

Sessions ==
  [pc : Pcs, new : Entries \union {Gone}, had : BOOLEAN, wrote : BOOLEAN,
   refused : BOOLEAN, worked : BOOLEAN]

-----------------------------------------------------------------------------
(***************************************************************************)
(* Every step of the composition is a step of Connect or none.             *)
(***************************************************************************)
SessionStep ==
  BeginEdit \/ BeginDelete \/ Write \/ Save \/ SaveFails \/ Remove \/ End \/ SelfTest

LEMMA PutItemType ==
  ASSUME NEW i, PutItem(i)
  PROVE  secret' \in BOOLEAN
  BY DEF PutItem

\* Of Connect's variables the session changes no other than secret.
LEMMA SessionRests ==
  ASSUME secret \in BOOLEAN, SessionStep
  PROVE  Rest /\ secret' \in BOOLEAN
<1>1. CASE BeginEdit \/ BeginDelete \/ SaveFails \/ End
  BY <1>1 DEF BeginEdit, BeginDelete, SaveFails, End, Keep
<1>2. CASE Write
  BY <1>2, PutItemType DEF Write, Keep
<1>3. CASE Save
  <2>1. (\E i : PutItem(i)) \/ Keep
    BY <1>3, Zenon DEF Save
  <2> QED
    BY <1>3, <2>1, PutItemType DEF Save, Keep
<1>4. CASE Remove
  BY <1>4, PutItemType DEF Remove, Keep
<1>5. CASE SelfTest
  BY <1>5 DEF SelfTest, SelfTestWrite, SelfTestRead, SelfTestRemove, Keep
<1> QED
  BY <1>1, <1>2, <1>3, <1>4, <1>5 DEF SessionStep

LEMMA StepsAreConnects ==
  ASSUME secret \in BOOLEAN, [CredentialNext]_allvars
  PROVE  [Next]_vars
<1>1. CASE Load
  BY <1>1 DEF Load
<1>2. CASE UNCHANGED allvars
  BY <1>2 DEF allvars
<1>3. CASE ProgramStep \/ HelperStep \/ AnswerStep \/ SshStep
  BY <1>3 DEF ProgramStep, HelperStep, AnswerStep, SshStep, Next
<1>4. CASE SessionStep
  <2>1. Rest /\ secret' \in BOOLEAN
    BY <1>4, SessionRests
  <2>2. CASE secret' = ~secret
    BY <2>1, <2>2 DEF Rest, OtherSession, Next
  <2>3. CASE secret' = secret
    BY <2>1, <2>3 DEF Rest, vars
  <2> QED
    BY <2>1, <2>2, <2>3
<1> QED
  BY <1>1, <1>2, <1>3, <1>4 DEF CredentialNext, SessionStep

LEMMA StepIsConnects == ConnectInv /\ [CredentialNext]_allvars => [Next]_vars
  BY StepsAreConnects DEF ConnectInv, Types, TypeOK

LEMMA AlwaysConnectInv == CredentialSpec => []ConnectInv
<1>1. CredentialInit => ConnectInv
  BY InitConnect DEF CredentialInit
<1>2. ConnectInv /\ [CredentialNext]_allvars => ConnectInv'
  BY StepIsConnects, NextConnect
<1> QED
  BY <1>1, <1>2, PTL DEF CredentialSpec

(***************************************************************************)
(* A connection beside which its entry is edited is a connection of        *)
(* Connect: what is proved of Connect holds of it.                         *)
(***************************************************************************)
THEOREM PasswordsImplementConnect == CredentialSpec => Spec
<1>1. CredentialInit => Init
  BY DEF CredentialInit
<1> QED
  BY <1>1, StepIsConnects, AlwaysConnectInv, PTL DEF CredentialSpec, Spec

(***************************************************************************)
(* Whatever the session does meanwhile, the state has its type, the        *)
(* password is handed over at most once, as a password and to a verified   *)
(* host, and the exit code is true.                                        *)
(***************************************************************************)
THEOREM ConnectBesideEdits ==
  CredentialSpec => [](TypeOK /\ OneAttempt /\ ExitCodeIsTrue) /\ ReleaseOnlyVerified
<1>1. CredentialSpec => [](TypeOK /\ OneAttempt /\ ExitCodeIsTrue)
  BY PasswordsImplementConnect, ConnectTypeCorrect, OneAttemptAlways, ExitCodeTrue, PTL
<1> QED
  BY <1>1, PasswordsImplementConnect, NeverBeforeVerification, PTL

-----------------------------------------------------------------------------
(***************************************************************************)
(* The invariant.                                                          *)
(*                                                                         *)
(* As long as nothing has parted them, the credential is for the target    *)
(* of the entry if the entry says it is saved, for the target the session  *)
(* is about to save if it is about to save it, and otherwise there is      *)
(* none, or it is about to be removed.  A connection's target is among     *)
(* those the credential is for as long as it runs, which is until OpenSSH  *)
(* has ended; only then may a helper be left behind with what it read.     *)
(***************************************************************************)
CredentialTypes ==
  /\ backend \in Kinds
  /\ entry \in Entries \union {Gone}
  /\ item \in Items
  /\ session \in Sessions
  /\ conn \in Targets \union {NotLoaded}
  /\ mixed \in BOOLEAN

\* A blob is what its form says of the password, and it is read as such or it
\* reads like another form.
Faithful(i) ==
  /\ i.form = "none" => i = NoItem
  /\ i.form = "prefixed" => i.blob = kUtf8Prefix \o i.text
  /\ i.form = "plain" => i.blob = i.text
  /\ i.form = "wide" => \E units \in Typed :
       i.blob = WideBlob(units) /\ i.text = wide_to_utf8(units)
  /\ i.form = "other" => i.blob = <<0>>

FormsOf(kind) ==
  {"none"} \union IF kind = "windows" THEN {"prefixed", "wide", "other"} ELSE {"plain"}

TrueText(text, i) == text = i.text \/ ReadsLikePrefixed(i)

Readable ==
  /\ secret = (item # NoItem)
  /\ item.form \in FormsOf(backend)
  /\ Faithful(item)
  /\ ask.pc = "write" => TrueText(got.text, got.item)

Loading ==
  /\ ssh.pc # "off" => Loaded
  /\ ask.pc # "off" => ssh.pc # "off" /\ Helped

Editing ==
  /\ session.pc = "write" => session.new.saved
  /\ Unsaved => session.new.saved /\ session.new.target \in item.owners

Owned ==
  mixed \/
    /\ entry.saved /\ item # NoItem /\ ~Unsaved => entry.target \in item.owners
    /\ ~entry.saved /\ ~Unsaved /\ session.pc # "forget" => item = NoItem
    /\ Connecting /\ Helped /\ item # NoItem => conn \in item.owners
    /\ ask.pc = "write" /\ ~Ended => conn \in got.item.owners

CredentialInv == CredentialTypes /\ Readable /\ Loading /\ Editing /\ Owned

-----------------------------------------------------------------------------
(***************************************************************************)
(* Values.                                                                 *)
(***************************************************************************)
LEMMA NoItemType == NoItem \in Items /\ NoItem.form = "none" /\ Faithful(NoItem)
  BY DEF NoItem, Items, Forms, Faithful

LEMMA GoneIsUnsaved == ~Gone.saved /\ Gone \notin Entries
  BY PasswordsAssumption DEF Gone, Entries

LEMMA PrefixIsSeq == kUtf8Prefix \in Seq(Nat) /\ Len(kUtf8Prefix) = 7
  BY DEF kUtf8Prefix

LEMMA Naturals == Byte \subseteq Nat /\ WideChar \subseteq Nat
  BY DEF Byte, WideChar

LEMMA TextIsSeq ==
  ASSUME NEW units \in Typed
  PROVE  /\ units \in Seq(Nat)
         /\ wide_to_utf8(units) = WideCharToMultiByte(units)
         /\ wide_to_utf8(units) \in Seq(Nat)
<1>1. /\ units \in Seq(WideChar) /\ units # <<>>
      /\ WideCharToMultiByte(units) \in Seq(Byte)
  BY PasswordsAssumption
<1>2. wide_to_utf8(units) = WideCharToMultiByte(units)
  BY <1>1 DEF wide_to_utf8
<1>3. units \in Seq(Nat)
  BY <1>1, Naturals, SeqMonotonic
<1>4. WideCharToMultiByte(units) \in Seq(Nat)
  BY <1>1, Naturals, SeqMonotonic
<1> QED
  BY <1>2, <1>3, <1>4

LEMMA TextsAreSeqs ==
  ASSUME NEW text \in Texts
  PROVE  text \in Seq(Nat)
  BY TextIsSeq DEF Texts

\* The bytes of UTF-16 units are twice as many as the units.
LEMMA WideIsSeq ==
  ASSUME NEW units \in Seq(Nat)
  PROVE  /\ WideBlob(units) \in Seq(Nat)
         /\ Len(WideBlob(units)) = 2 * Len(units)
<1> DEFINE n == 2 * Len(units)
<1>1. n \in Nat
  BY LenProperties
<1>2. ASSUME NEW i \in 1..n
      PROVE  WideBlob(units)[i] \in Nat
  <2>1. WideBlob(units)[i] =
          IF i % 2 = 1 THEN units[(i + 1) \div 2] % 256 ELSE units[i \div 2] \div 256
    BY DEF WideBlob
  <2>2. CASE i % 2 = 1
    <3>1. (i + 1) \div 2 \in 1..Len(units)
      BY <2>2, LenProperties
    <3>2. units[(i + 1) \div 2] \in Nat
      BY <3>1, ElementOfSeq
    <3> QED
      BY <2>1, <2>2, <3>2
  <2>3. CASE i % 2 # 1
    <3>1. i \div 2 \in 1..Len(units)
      BY <2>3, LenProperties
    <3>2. units[i \div 2] \in Nat
      BY <3>1, ElementOfSeq
    <3> QED
      BY <2>1, <2>3, <3>2
  <2> QED
    BY <2>2, <2>3
<1>3. WideBlob(units) \in [1..n -> Nat]
  BY <1>2 DEF WideBlob
<1> HIDE DEF n
<1>4. WideBlob(units) \in Seq(Nat) /\ Len(WideBlob(units)) = n
  BY <1>1, <1>3
<1> QED
  BY <1>4 DEF n

\* And they make up the units again.
LEMMA WideRoundTrip ==
  ASSUME NEW units \in Seq(Nat)
  PROVE  UnitsOf(WideBlob(units)) = units
<1> DEFINE blob == WideBlob(units)
<1>0. Len(units) \in Nat /\ units = [i \in 1..Len(units) |-> units[i]]
  BY LenProperties
<1>1. Len(blob) \div 2 = Len(units)
  <2>1. ASSUME NEW n \in Nat
        PROVE  (2 * n) \div 2 = n
    OBVIOUS
  <2>2. Len(blob) = 2 * Len(units)
    BY WideIsSeq
  <2> QED
    BY <1>0, <2>1, <2>2
<1>2. UnitsOf(blob) = [i \in 1..Len(units) |-> blob[2 * i - 1] + 256 * blob[2 * i]]
  BY <1>1, Zenon DEF UnitsOf
<1>3. ASSUME NEW i \in 1..Len(units)
      PROVE  blob[2 * i - 1] + 256 * blob[2 * i] = units[i]
  <2> DEFINE j == 2 * i - 1
             k == 2 * i
  <2>1. /\ j \in 1..(2 * Len(units)) /\ k \in 1..(2 * Len(units))
        /\ j % 2 = 1 /\ k % 2 # 1
        /\ (j + 1) \div 2 = i /\ k \div 2 = i
    <3>1. i \in Nat /\ 1 <= i /\ i <= Len(units)
      BY <1>0
    <3>2. j \in 1..(2 * Len(units)) /\ k \in 1..(2 * Len(units))
      BY <1>0, <3>1
    <3>3. j % 2 = 1 /\ k % 2 = 0
      BY <3>1
    <3>4. (j + 1) \div 2 = i /\ k \div 2 = i
      BY <3>1
    <3> QED
      BY <3>2, <3>3, <3>4
  <2> HIDE DEF j, k
  <2>2. blob[j] = units[i] % 256 /\ blob[k] = units[i] \div 256
    BY <2>1 DEF WideBlob
  <2>3. units[i] \in Nat
    BY ElementOfSeq
  <2>4. ASSUME NEW n \in Nat
        PROVE  (n % 256) + 256 * (n \div 256) = n
    OBVIOUS
  <2> QED
    BY <2>2, <2>3, <2>4 DEF j, k
<1> QED
  BY <1>0, <1>2, <1>3, Zenon

\* What is written behind the prefix is what is found behind it.
LEMMA PrefixRoundTrip ==
  ASSUME NEW text \in Seq(Nat)
  PROVE  /\ kUtf8Prefix \o text \in Seq(Nat)
         /\ HasPrefix(kUtf8Prefix \o text)
         /\ WithoutPrefix(kUtf8Prefix \o text) = text
<1> DEFINE blob == kUtf8Prefix \o text
<1>1. /\ blob \in Seq(Nat) /\ Len(blob) = 7 + Len(text) /\ Len(text) \in Nat
      /\ \A i \in 1..(7 + Len(text)) :
           blob[i] = IF i <= 7 THEN kUtf8Prefix[i] ELSE text[i - 7]
  <2>1. /\ blob \in Seq(Nat) /\ Len(blob) = Len(kUtf8Prefix) + Len(text)
        /\ \A i \in 1..(Len(kUtf8Prefix) + Len(text)) :
             blob[i] = IF i <= Len(kUtf8Prefix) THEN kUtf8Prefix[i] ELSE text[i - Len(kUtf8Prefix)]
    BY PrefixIsSeq, ConcatProperties
  <2>2. Len(text) \in Nat
    BY LenProperties
  <2> QED
    BY <2>1, <2>2, PrefixIsSeq
<1> HIDE DEF blob
<1>2. HasPrefix(blob)
  <2>1. \A i \in 1..7 : i \in 1..(7 + Len(text)) /\ i <= 7
    BY <1>1
  <2>2. \A i \in 1..7 : blob[i] = kUtf8Prefix[i]
    BY <1>1, <2>1
  <2> QED
    BY <1>1, <2>2, PrefixIsSeq DEF HasPrefix
<1> DEFINE rest == WithoutPrefix(blob)
<1>3. rest = SubSeq(blob, 8, 7 + Len(text))
  BY <1>1, PrefixIsSeq DEF WithoutPrefix
<1>4. \A i \in 8..(7 + Len(text)) : blob[i] \in Nat
  BY <1>1, ElementOfSeq
<1>5. /\ rest \in Seq(Nat)
      /\ Len(rest) = Len(text)
      /\ \A i \in 1..Len(text) : rest[i] = blob[i + 7]
  <2>1. /\ rest \in Seq(Nat)
        /\ Len(rest) = IF 8 <= 7 + Len(text) THEN 7 + Len(text) - 8 + 1 ELSE 0
        /\ \A i \in 1..(7 + Len(text) - 8 + 1) : rest[i] = blob[8 + i - 1]
    BY <1>1, <1>3, <1>4, SubSeqProperties
  <2> QED
    BY <1>1, <2>1
<1>6. ASSUME NEW i \in 1..Len(text)
      PROVE  rest[i] = text[i]
  <2>1. i + 7 \in 1..(7 + Len(text)) /\ ~(i + 7 <= 7) /\ i + 7 - 7 = i
    BY <1>1
  <2>2. blob[i + 7] = text[i + 7 - 7]
    BY <1>1, <2>1
  <2> QED
    BY <1>5, <2>1, <2>2
<1>7. rest = text
  BY <1>5, <1>6, SeqEqual
<1> QED
  BY <1>1, <1>2, <1>7 DEF blob

LEMMA StoredType ==
  ASSUME NEW kind, NEW text \in Texts, NEW owners \in SUBSET Targets
  PROVE  LET i == Stored(kind, text, owners) IN
         /\ i \in Items /\ i # NoItem /\ i.owners = owners
         /\ i.form \in FormsOf(kind) /\ Faithful(i)
<1>1. text \in Seq(Nat) /\ kUtf8Prefix \o text \in Seq(Nat)
  BY TextsAreSeqs, PrefixRoundTrip
<1> QED
  BY <1>1 DEF Stored, Items, Forms, NoItem, FormsOf, Faithful

LEMMA EarlierType ==
  ASSUME NEW owners \in SUBSET Targets
  PROVE  /\ \A units \in Typed : LET i == Wide(units, owners) IN
              i \in Items /\ i.owners = owners /\ i.form = "wide" /\ Faithful(i)
         /\ LET i == Unknown(owners) IN
              i \in Items /\ i.owners = owners /\ i.form = "other" /\ Faithful(i)
<1>1. ASSUME NEW units \in Typed
      PROVE  WideBlob(units) \in Seq(Nat) /\ wide_to_utf8(units) \in Seq(Nat)
  BY TextIsSeq, WideIsSeq
<1>2. \A units \in Typed : LET i == Wide(units, owners) IN
        i \in Items /\ i.owners = owners /\ i.form = "wide" /\ Faithful(i)
  BY <1>1 DEF Wide, Items, Forms, Faithful
<1> QED
  BY <1>2 DEF Unknown, Items, Forms, Faithful

LEMMA FreshType ==
  ASSUME NEW at \in Pcs, NEW new \in Entries \union {Gone}, NEW had \in BOOLEAN
  PROVE  LET s == Fresh(at, new, had) IN
         s \in Sessions /\ s.pc = at /\ s.new = new /\ s.wrote = FALSE
  BY DEF Fresh, Sessions

LEMMA IdleType == Idle \in Sessions /\ Idle.pc = "menu" /\ Idle.wrote = FALSE
  BY FreshType DEF Idle, Pcs

\* What Windows reads: it knows its own form by the prefix and an earlier
\* version's by the even size, unless the latter begins like the former.
LEMMA ReadByPrefixIsTrue ==
  ASSUME NEW i \in Items, Faithful(i), i.form \in FormsOf("windows"), i # NoItem,
         NEW text \in ReadByPrefix(i.blob)
  PROVE  TrueText(text, i)
<1>1. CASE i.form = "prefixed"
  <2>1. i.text \in Seq(Nat) /\ i.blob = kUtf8Prefix \o i.text
    BY <1>1 DEF Items, Faithful
  <2>2. HasPrefix(i.blob) /\ WithoutPrefix(i.blob) = i.text
    BY <2>1, PrefixRoundTrip
  <2> QED
    BY <2>2 DEF ReadByPrefix, TrueText
<1>2. CASE i.form = "wide"
  <2>1. PICK units \in Typed : i.blob = WideBlob(units) /\ i.text = wide_to_utf8(units)
    BY <1>2 DEF Faithful
  <2>2. UnitsOf(i.blob) = units
    BY <2>1, TextIsSeq, WideRoundTrip
  <2>3. CASE HasPrefix(i.blob)
    BY <1>2, <2>3 DEF TrueText, ReadsLikePrefixed
  <2>4. CASE ~HasPrefix(i.blob)
    BY <2>1, <2>2, <2>4 DEF ReadByPrefix, TrueText
  <2> QED
    BY <2>3, <2>4
<1>3. CASE i.form = "other"
  <2>1. i.blob = <<0>> /\ Len(i.blob) = 1
    BY <1>3 DEF Faithful
  <2>2. ~HasPrefix(i.blob) /\ 1 % 2 # 0
    BY <2>1, PrefixIsSeq DEF HasPrefix
  <2> QED
    BY <2>1, <2>2 DEF ReadByPrefix
<1> QED
  BY <1>1, <1>2, <1>3 DEF FormsOf, Faithful

\* A credential is read as it was stored, in whichever form, or not at all.
LEMMA ReadsAreTrue ==
  ASSUME Readable, item \in Items, NEW text \in Reads(backend, item)
  PROVE  item # NoItem /\ TrueText(text, item)
<1>1. item # NoItem
  BY DEF Reads
<1>2. CASE backend = "windows"
  BY <1>1, <1>2, ReadByPrefixIsTrue DEF Readable, Reads
<1>3. CASE backend # "windows"
  <2>1. text = item.blob
    BY <1>1, <1>3 DEF Reads
  <2>2. item.form \in {"none", "plain"}
    BY <1>3 DEF Readable, FormsOf
  <2> QED
    BY <1>1, <2>1, <2>2 DEF Readable, Faithful, TrueText
<1> QED
  BY <1>1, <1>2, <1>3

LEMMA InitCredential == CredentialInit => CredentialInv
<1> SUFFICES ASSUME CredentialInit PROVE CredentialInv
  OBVIOUS
<1>1. session \in Sessions /\ session.pc = "menu" /\ ~Unsaved
  BY IdleType DEF CredentialInit, Unsaved
<1>2. backend \in Kinds /\ entry \in Entries /\ mixed = FALSE
  BY PasswordsAssumption DEF CredentialInit
<1>3. /\ item \in Items
      /\ item.form \in FormsOf(backend) /\ Faithful(item)
      /\ item # NoItem => entry.saved /\ item.owners = {entry.target}
  <2>1. CASE item = NoItem
    BY <2>1, NoItemType DEF FormsOf
  <2>2. CASE item # NoItem
    <3>1. entry.saved /\ entry.target \in Targets /\ item \in Earlier(entry.target)
      BY <1>2, <2>2 DEF CredentialInit, Entries
    <3>2. CASE \E text \in Texts : item = Stored(backend, text, {entry.target})
      BY <3>1, <3>2, StoredType
    <3>3. CASE /\ backend = "windows"
               /\ \/ item = Unknown({entry.target})
                  \/ \E units \in Typed : item = Wide(units, {entry.target})
      BY <3>1, <3>3, EarlierType DEF FormsOf
    <3> QED
      BY <2>2, <3>1, <3>2, <3>3 DEF Earlier
  <2> QED
    BY <2>1, <2>2
<1>4. ssh.pc = "off" /\ ask.pc = "off" /\ conn = NotLoaded
  BY DEF CredentialInit, Init, NotStarted, NoHelper
<1>5. CredentialTypes
  BY <1>1, <1>2, <1>3, <1>4 DEF CredentialTypes
<1>6. Readable /\ Loading
  BY <1>3, <1>4 DEF Readable, Loading, CredentialInit
<1>7. Editing /\ Owned
  BY <1>1, <1>3, <1>4 DEF Editing, Owned, Connecting, Loaded
<1> QED
  BY <1>5, <1>6, <1>7 DEF CredentialInv

-----------------------------------------------------------------------------
(***************************************************************************)
(* The connection.                                                         *)
(***************************************************************************)
LEMMA StepLoad == CredentialInv /\ Load => CredentialInv'
<1> SUFFICES ASSUME CredentialInv, Load PROVE CredentialInv'
  OBVIOUS
<1>1. /\ UNCHANGED <<vars, backend, entry, item, session, got, spare>>
      /\ conn' = entry.target /\ mixed' = (mixed \/ (Unsaved /\ Parting))
      /\ entry # Gone /\ entry.saved = Helped /\ ~Loaded
  BY DEF Load
<1>2. UNCHANGED <<auth_mode, secret, pc, ssh, ask>>
  BY <1>1 DEF vars, setup
<1>3. entry.target \in Targets /\ entry.target # NotLoaded
  BY <1>1, PasswordsAssumption DEF CredentialInv, CredentialTypes, Entries, NotLoaded
<1>4. mixed' \in BOOLEAN
  BY <1>1 DEF CredentialInv, CredentialTypes
<1>5. CredentialTypes'
  BY <1>1, <1>3, <1>4 DEF CredentialInv, CredentialTypes
<1>6. Readable' /\ Loading' /\ Editing'
  BY <1>1, <1>2, <1>3 DEF CredentialInv, Readable, Loading, Loaded, Editing, Unsaved, Helped
<1>7. ask.pc # "write"
  BY <1>1 DEF CredentialInv, Loading
<1>8. Owned'
  <2> SUFFICES ASSUME ~mixed' PROVE Owned'
    BY DEF Owned
  <2>1. ~mixed /\ Owned /\ (Unsaved => ~Parting)
    BY <1>1 DEF CredentialInv
  <2>2. item # NoItem /\ entry.saved => entry.target \in item.owners
    BY <2>1 DEF Owned, Parting, CredentialInv, Editing
  <2> QED
    BY <1>1, <1>2, <1>7, <2>1, <2>2 DEF Owned, Unsaved, Helped
<1> QED
  BY <1>5, <1>6, <1>8 DEF CredentialInv

(***************************************************************************)
(* A step of the program, of OpenSSH or of its questions changes nothing   *)
(* of the credential; OpenSSH only runs once the entry has been loaded.    *)
(***************************************************************************)
LEMMA StepRuns ==
  ASSUME CredentialInv, UNCHANGED <<auth_mode, secret, passwords>>,
         pc = "done" => pc' = "done", Ended => Ended',
         ssh'.pc # "off" => Loaded,
         ask'.pc # "off" => ssh'.pc # "off" /\ Helped,
         ask'.pc = "write" => ask.pc = "write"
  PROVE  CredentialInv'
<1>1. UNCHANGED <<backend, entry, item, session, conn, got, spare, mixed>>
  BY DEF passwords
<1>2. CredentialTypes'
  BY <1>1 DEF CredentialInv, CredentialTypes
<1>3. Readable' /\ Loading' /\ Editing'
  BY <1>1 DEF CredentialInv, Readable, Loading, Loaded, Editing, Unsaved, Helped
<1>4. Owned'
  <2> SUFFICES ASSUME ~mixed PROVE Owned'
    BY <1>1 DEF Owned
  <2>1. Connecting' => Connecting
    BY <1>1 DEF Connecting, Loaded
  <2> QED
    BY <1>1, <2>1 DEF CredentialInv, Owned, Unsaved, Helped
<1> QED
  BY <1>2, <1>3, <1>4 DEF CredentialInv

LEMMA StepProgramStep == ConnectInv /\ CredentialInv /\ ProgramStep => CredentialInv'
<1> SUFFICES ASSUME ConnectInv, CredentialInv, ProgramStep PROVE CredentialInv'
  OBVIOUS
<1>1. Loaded /\ UNCHANGED <<auth_mode, secret, passwords, ask>>
  BY DEF ProgramStep, Program, FilesRejected, Check, LaunchFails, Launch, Wait, setup
<1>2. pc # "done"
  BY DEF ProgramStep, Program, FilesRejected, Check, LaunchFails, Launch, Wait
<1>3. (Ended => Ended') /\ (ask.pc # "off" => ssh' = ssh)
  <2>1. CASE Launch
    BY <2>1 DEF ConnectInv, Outcome, Launch, NotStarted, NoHelper, Ended
  <2>2. CASE ~Launch
    BY <2>2 DEF ProgramStep, Program, FilesRejected, Check, LaunchFails, Wait, Ended
  <2> QED
    BY <2>1, <2>2
<1> QED
  BY <1>1, <1>2, <1>3, StepRuns DEF CredentialInv, Loading

LEMMA StepSshStep == ConnectInv /\ CredentialInv /\ (AnswerStep \/ SshStep) => CredentialInv'
<1> SUFFICES ASSUME ConnectInv, CredentialInv, AnswerStep \/ SshStep PROVE CredentialInv'
  OBVIOUS
<1>1. OpenSsh /\ UNCHANGED passwords
  BY DEF AnswerStep, SshStep, OpenSsh
<1>2. pc = "wait" /\ UNCHANGED <<auth_mode, secret, pc>>
  BY <1>1, Running DEF setup
<1>3. ssh.pc \notin {"off", "ended"}
  BY <1>1 DEF OpenSsh, Verify, Authenticate, Answer, SessionEnds, SshCrashes
<1>4. ssh \in SshType
  BY DEF ConnectInv, Types
<1>5. ask' = ask \/ (Helped /\ ask'.pc = "start")
  BY <1>1 DEF OpenSsh, Verify, Authenticate, Answer, SessionEnds, SshCrashes, AskHelper, NoHelper
<1>6. ssh'.pc # "off"
  <2>1. ASSUME NEW status, SshEnds(status)
        PROVE  ssh'.pc = "ended"
    BY <1>4, <2>1 DEF SshEnds, SshType
  <2>2. CASE Verify
    BY <1>4, <2>1, <2>2 DEF Verify, SshType
  <2>3. CASE Authenticate
    BY <1>4, <2>1, <2>3 DEF Authenticate, SshType
  <2>4. CASE Answer
    BY <1>4, <2>1, <2>4 DEF Answer, SshType
  <2>5. CASE SessionEnds
    BY <2>1, <2>5 DEF SessionEnds
  <2>6. CASE SshCrashes
    BY <2>1, <2>6 DEF SshCrashes
  <2> QED
    BY <1>1, <2>2, <2>3, <2>4, <2>5, <2>6 DEF OpenSsh
<1> QED
  BY <1>1, <1>2, <1>3, <1>5, <1>6, StepRuns DEF CredentialInv, Loading, Ended

\* What the helper reads is what the vault holds then; it reads only while
\* the connection it serves is under way.
LEMMA StepHelperStep == ConnectInv /\ CredentialInv /\ HelperStep => CredentialInv'
<1> SUFFICES ASSUME ConnectInv, CredentialInv, HelperStep PROVE CredentialInv'
  OBVIOUS
<1>1. /\ UNCHANGED <<backend, entry, item, session, conn, spare, mixed>>
      /\ UNCHANGED <<auth_mode, secret, pc, ssh>>
  BY DEF HelperStep, Helper, Confirm, ReadSecret, WriteSecret, setup
<1>2. Loaded /\ Helped /\ ssh.pc # "off"
  BY DEF HelperStep, Helper, Confirm, ReadSecret, WriteSecret, CredentialInv, Loading
<1>3. CredentialTypes'
  BY <1>1 DEF CredentialInv, CredentialTypes
<1>4. Loading' /\ Editing'
  BY <1>1, <1>2 DEF CredentialInv, Loading, Loaded, Editing, Unsaved, Helped
<1>5. CASE ask'.pc # "write"
  <2>1. Readable'
    BY <1>1, <1>5 DEF CredentialInv, Readable
  <2>2. Owned'
    BY <1>1, <1>5 DEF CredentialInv, Owned, Unsaved, Helped, Connecting, Loaded
  <2> QED
    BY <1>3, <1>4, <2>1, <2>2 DEF CredentialInv
<1>6. CASE ask'.pc = "write"
  <2>1. reads' = reads + 1
    <3>1. ask.pc \in {"start", "write"} /\ ask \in AskType
      BY DEF HelperStep, Helper, Confirm, ReadSecret, WriteSecret, ConnectInv, Types
    <3>2. ASSUME NEW code, NEW output, HelperEnds(code, output)
          PROVE  FALSE
      BY <1>6, <3>1, <3>2 DEF HelperEnds, AskType
    <3> QED
      BY <3>2 DEF HelperStep, Helper, Confirm, ReadSecret, WriteSecret
  <2>2. reads' # reads
    BY <2>1 DEF ConnectInv, Types, TypeOK
  <2>3. PICK text \in Reads(backend, item) : got' = [text |-> text, item |-> item]
    BY <2>2 DEF HelperStep
  <2>4. item # NoItem /\ TrueText(text, item)
    BY ReadsAreTrue DEF CredentialInv, CredentialTypes
  <2>5. TrueText(got'.text, got'.item) /\ got'.item = item
    BY <2>3, <2>4
  <2>6. Readable'
    BY <1>1, <2>5 DEF CredentialInv, Readable
  <2>7. ~Ended => Connecting
    BY <1>2 DEF ConnectInv, Outcome, Connecting
  <2>8. Owned'
    BY <1>1, <1>2, <2>4, <2>5, <2>7 DEF CredentialInv, Owned, Unsaved, Helped, Connecting, Loaded,
         Ended
  <2> QED
    BY <1>3, <1>4, <2>6, <2>8 DEF CredentialInv
<1> QED
  BY <1>5, <1>6

-----------------------------------------------------------------------------
(***************************************************************************)
(* The session.  It never touches what the connection has loaded or read.  *)
(***************************************************************************)
LEMMA SessionTypes ==
  ASSUME CredentialInv, Rest,
         entry' \in Entries \union {Gone}, item' \in Items, session' \in Sessions,
         mixed' \in BOOLEAN
  PROVE  CredentialTypes' /\ Loading'
<1>1. UNCHANGED <<auth_mode, pc, ssh, ask, backend, conn, got>>
  BY DEF Rest, setup
<1> QED
  BY <1>1 DEF CredentialInv, CredentialTypes, Loading, Loaded, Helped

\* Where the vault is left alone, the session may turn to anything but a
\* credential the entry says nothing of.
LEMMA StepKeep ==
  ASSUME CredentialInv, Rest, Keep, entry' = entry,
         session' \in Sessions, mixed' \in BOOLEAN, mixed => mixed',
         session'.pc = "write" => session'.new.saved,
         ~session'.wrote \/ session'.pc \notin {"save", "undo"},
         mixed' \/ ((Unsaved => ~Parting) /\ (session.pc = "forget" => item = NoItem))
  PROVE  CredentialInv'
<1>1. UNCHANGED <<auth_mode, secret, pc, ssh, ask, backend, conn, got, item>>
  BY DEF Rest, setup, Keep
<1>2. CredentialTypes' /\ Loading'
  BY <1>1, SessionTypes DEF CredentialInv, CredentialTypes
<1>3. ~Unsaved' /\ Editing'
  BY DEF Unsaved, Editing
<1>4. Readable'
  BY <1>1 DEF CredentialInv, Readable
<1>5. Owned'
  <2> SUFFICES ASSUME ~mixed' PROVE Owned'
    BY DEF Owned
  <2>1. ~mixed /\ Owned /\ (Unsaved => ~Parting)
    BY DEF CredentialInv, CredentialTypes
  <2>2. entry.saved /\ item # NoItem => entry.target \in item.owners
    BY <2>1 DEF Owned, Parting, CredentialInv, Editing
  <2>3. ~entry.saved => ~Unsaved
    BY <2>1 DEF Parting
  <2> QED
    BY <1>1, <1>3, <2>1, <2>2, <2>3 DEF Owned, Helped, Connecting, Loaded, Ended
<1> QED
  BY <1>2, <1>3, <1>4, <1>5 DEF CredentialInv

LEMMA StepBegin == CredentialInv /\ (BeginEdit \/ BeginDelete) => CredentialInv'
<1> SUFFICES ASSUME CredentialInv, BeginEdit \/ BeginDelete PROVE CredentialInv'
  OBVIOUS
<1>1. Rest /\ Keep /\ entry' = entry /\ mixed' = mixed /\ session.pc = "menu"
  BY DEF BeginEdit, BeginDelete, Acts
<1>2. \E at \in {"write", "save"}, new \in Entries \union {Gone}, had \in BOOLEAN :
        session' = Fresh(at, new, had) /\ (at = "write" => new.saved)
  BY DEF BeginEdit, BeginDelete
<1>3. /\ session' \in Sessions /\ ~session'.wrote
      /\ session'.pc = "write" => session'.new.saved
  <2>1. PICK at \in {"write", "save"}, new \in Entries \union {Gone}, had \in BOOLEAN :
          session' = Fresh(at, new, had) /\ (at = "write" => new.saved)
    BY <1>2
  <2>2. at \in Pcs
    BY DEF Pcs
  <2>3. /\ Fresh(at, new, had) \in Sessions /\ Fresh(at, new, had).pc = at
        /\ Fresh(at, new, had).new = new /\ Fresh(at, new, had).wrote = FALSE
    BY <2>2, FreshType, ZenonT(60)
  <2> QED
    BY <2>1, <2>3, Zenon
<1> QED
  BY <1>1, <1>3, StepKeep DEF CredentialInv, CredentialTypes, Unsaved

LEMMA StepEnd == CredentialInv /\ End => CredentialInv'
<1> SUFFICES ASSUME CredentialInv, End PROVE CredentialInv'
  OBVIOUS
<1>1. /\ Rest /\ Keep /\ entry' = entry /\ session' = Fresh("over", Gone, FALSE)
      /\ mixed' = (mixed \/ (Unsaved /\ Parting) \/ (session.pc = "forget" /\ item # NoItem))
  BY DEF End
<1>2. session' \in Sessions /\ ~session'.wrote /\ session'.pc = "over"
  BY <1>1, FreshType DEF Pcs
<1> QED
  BY <1>1, <1>2, StepKeep DEF CredentialInv, CredentialTypes

LEMMA StepSelfTest == CredentialInv /\ SelfTest => CredentialInv'
<1> SUFFICES ASSUME CredentialInv, SelfTest PROVE CredentialInv'
  OBVIOUS
<1>1. /\ Rest /\ Keep /\ entry' = entry /\ mixed' = mixed
      /\ session.pc \in {"menu", "test-read", "test-remove"}
  BY DEF SelfTest, SelfTestWrite, SelfTestRead, SelfTestRemove, Test
<1>2. session \in Sessions /\ SelfTesting \subseteq Pcs
  BY DEF CredentialInv, CredentialTypes, Pcs
<1>3. session' \in Sessions /\ session'.pc \in SelfTesting
  <2>1. CASE SelfTestWrite
    BY <1>2, <2>1 DEF SelfTestWrite, Test, Sessions, SelfTesting
  <2>2. CASE SelfTestRead
    BY <1>2, <2>2 DEF SelfTestRead, Test, AfterFailedRead, Sessions, SelfTesting
  <2>3. CASE SelfTestRemove
    BY <1>2, <2>3 DEF SelfTestRemove, Sessions, SelfTesting
  <2> QED
    BY <2>1, <2>2, <2>3 DEF SelfTest
<1> QED
  BY <1>1, <1>3, StepKeep DEF CredentialInv, CredentialTypes, Unsaved, SelfTesting

LEMMA StepWrite == CredentialInv /\ Write => CredentialInv'
<1> SUFFICES ASSUME CredentialInv, Write PROVE CredentialInv'
  OBVIOUS
<1>1. Rest /\ entry' = entry /\ session.pc = "write" /\ session \in Sessions
  BY DEF Write, Acts, CredentialInv, CredentialTypes
<1>2. CASE session' = Idle /\ Keep /\ mixed' = mixed
  BY <1>1, <1>2, StepKeep, IdleType DEF CredentialInv, CredentialTypes, Unsaved
<1>3. ASSUME NEW text \in Texts, PutItem(Stored(backend, text, {session.new.target})),
             session' = [session EXCEPT !.pc = "save", !.wrote = TRUE],
             mixed' = (mixed \/ (Connecting /\ session.new.target # conn))
      PROVE  CredentialInv'
  <2>1. session.new.saved /\ session.new \in Entries
    BY <1>1, GoneIsUnsaved DEF CredentialInv, Editing, Sessions
  <2>2. session.new.target \in Targets
    BY <2>1 DEF Entries
  <2>3. /\ item' \in Items /\ item' # NoItem /\ item'.owners = {session.new.target}
        /\ item'.form \in FormsOf(backend) /\ Faithful(item')
        /\ secret' = (item' # NoItem)
    BY <1>3, <2>2, StoredType DEF PutItem
  <2>4. session' \in Sessions /\ session'.pc = "save" /\ session'.new = session.new /\ session'.wrote
    BY <1>1, <1>3 DEF Sessions, Pcs
  <2>5. UNCHANGED <<auth_mode, pc, ssh, ask, backend, conn, got>>
    BY <1>1 DEF Rest, setup
  <2>6. mixed' \in BOOLEAN
    BY <1>3 DEF CredentialInv, CredentialTypes
  <2>7. CredentialTypes' /\ Loading'
    BY <1>1, <2>3, <2>4, <2>6, SessionTypes DEF CredentialInv, CredentialTypes
  <2>8. Readable'
    BY <2>3, <2>5 DEF CredentialInv, Readable
  <2>9. Unsaved' /\ Editing'
    BY <2>1, <2>3, <2>4 DEF Unsaved, Editing
  <2>10. Owned'
    <3> SUFFICES ASSUME ~mixed' PROVE Owned'
      BY DEF Owned
    <3>1. ~mixed /\ (Connecting => conn = session.new.target) /\ Owned
      BY <1>3 DEF CredentialInv
    <3> QED
      BY <1>1, <2>1, <2>3, <2>5, <2>9, <3>1 DEF Owned, Helped, Connecting, Loaded, Ended
  <2> QED
    BY <2>7, <2>8, <2>9, <2>10 DEF CredentialInv
<1> QED
  BY <1>2, <1>3 DEF Write

LEMMA StepSave == CredentialInv /\ Save => CredentialInv'
<1> SUFFICES ASSUME CredentialInv, Save PROVE CredentialInv'
  OBVIOUS
<1> DEFINE new == session.new
<1>1. /\ Rest /\ entry' = new /\ mixed' = mixed
      /\ session.pc = "save" /\ session \in Sessions /\ new \in Entries \union {Gone}
      /\ item \in Items /\ item.owners \subseteq Targets /\ mixed \in BOOLEAN
  BY DEF Save, Acts, CredentialInv, CredentialTypes, Sessions, Items
<1>2. UNCHANGED <<auth_mode, pc, ssh, ask, backend, conn, got>>
  BY <1>1 DEF Rest, setup
<1>3. /\ session' \in Sessions
      /\ session'.pc = IF MustForget(new) THEN "forget" ELSE "menu"
  BY <1>1, IdleType DEF Save, Sessions, Pcs
\* The vault: as it was, or with the new target among those of its item.
<1>4. /\ item' \in Items /\ secret' = (item' # NoItem)
      /\ item'.form = item.form /\ item'.blob = item.blob /\ item'.text = item.text
      /\ item' = NoItem <=> item = NoItem
      /\ item.owners \subseteq item'.owners
      /\ new.saved /\ ~session.wrote /\ entry.saved /\ item # NoItem =>
           new.target \in item'.owners
  <2>1. CASE new.saved /\ ~session.wrote /\ entry.saved /\ item # NoItem
    <3>1. PutItem([item EXCEPT !.owners = @ \union {new.target}])
      BY <2>1 DEF Save
    <3>2. item' = [item EXCEPT !.owners = @ \union {new.target}] /\ secret' = (item' # NoItem)
      BY <3>1 DEF PutItem
    <3>3. item.form # "none" /\ NoItem.form = "none"
      BY <2>1, NoItemType DEF CredentialInv, Readable, Faithful
    <3>4. new.target \in Targets
      BY <1>1, <2>1, GoneIsUnsaved DEF Entries
    <3>5. /\ item' \in Items /\ item'.form = item.form
          /\ item'.blob = item.blob /\ item'.text = item.text
          /\ item'.owners = item.owners \union {new.target}
      BY <1>1, <3>2, <3>4 DEF Items
    <3> QED
      BY <2>1, <3>2, <3>3, <3>5
  <2>2. CASE ~(new.saved /\ ~session.wrote /\ entry.saved /\ item # NoItem)
    <3>1. Keep
      BY <2>2 DEF Save
    <3> QED
      BY <1>1, <2>2, <3>1 DEF Keep, CredentialInv, Readable
  <2> QED
    BY <2>1, <2>2
<1>5. CredentialTypes' /\ Loading'
  BY <1>1, <1>3, <1>4, SessionTypes
<1>6. Readable'
  <2>1. item'.form = "none" => item' = NoItem
    BY <1>4 DEF CredentialInv, Readable, Faithful
  <2>2. Faithful(item') /\ item'.form \in FormsOf(backend)
    BY <1>4, <2>1 DEF CredentialInv, Readable, Faithful
  <2> QED
    BY <1>2, <1>4, <2>2 DEF CredentialInv, Readable
<1>7. ~Unsaved' /\ Editing'
  BY <1>3 DEF Unsaved, Editing
<1>8. Owned'
  <2> SUFFICES ASSUME ~mixed' PROVE Owned'
    BY DEF Owned
  <2>1. ~mixed /\ Owned
    BY <1>1 DEF CredentialInv
  <2>2. entry'.saved /\ item' # NoItem => entry'.target \in item'.owners
    <3> SUFFICES ASSUME new.saved, item' # NoItem PROVE new.target \in item'.owners
      BY <1>1
    <3>1. CASE session.wrote
      BY <1>1, <1>4, <3>1 DEF CredentialInv, Editing, Unsaved
    <3>2. CASE ~session.wrote /\ ~entry.saved
      BY <1>1, <1>4, <2>1, <3>2 DEF Owned, Unsaved
    <3>3. CASE ~session.wrote /\ entry.saved
      BY <1>4, <3>3
    <3> QED
      BY <3>1, <3>2, <3>3
  <2>3. ~entry'.saved /\ session'.pc # "forget" => item' = NoItem
    <3> SUFFICES ASSUME ~new.saved, ~MustForget(new) PROVE item = NoItem
      BY <1>1, <1>3, <1>4
    <3>1. ~entry.saved /\ ~Unsaved
      BY DEF MustForget, CredentialInv, Editing
    <3> QED
      BY <1>1, <2>1, <3>1 DEF Owned
  <2>4. Connecting /\ Helped /\ item' # NoItem => conn \in item'.owners
    BY <1>4, <2>1 DEF Owned
  <2> QED
    BY <1>2, <1>7, <2>1, <2>2, <2>3, <2>4 DEF Owned, Helped, Connecting, Loaded, Ended
<1> QED
  BY <1>5, <1>6, <1>7, <1>8 DEF CredentialInv

LEMMA StepSaveFails == CredentialInv /\ SaveFails => CredentialInv'
<1> SUFFICES ASSUME CredentialInv, SaveFails PROVE CredentialInv'
  OBVIOUS
<1>1. /\ Rest /\ Keep /\ entry' = entry /\ mixed' = (mixed \/ (session.wrote /\ session.had /\ Parting))
      /\ session.pc = "save" /\ session \in Sessions /\ {mixed, mixed'} \subseteq BOOLEAN
  BY DEF SaveFails, Acts, CredentialInv, CredentialTypes
<1>2. CASE ~MustUndo
  <2>1. session' = Idle
    BY <1>2 DEF SaveFails
  <2>2. mixed' \/ (Unsaved => ~Parting)
    BY <1>1, <1>2 DEF MustUndo, Unsaved, Sessions
  <2> QED
    BY <1>1, <2>1, <2>2, StepKeep, IdleType
<1>3. CASE MustUndo
  <2>1. session' = [session EXCEPT !.pc = "undo"]
    BY <1>3 DEF SaveFails
  <2>2. /\ session' \in Sessions /\ session'.pc = "undo"
        /\ session'.wrote = session.wrote /\ session'.new = session.new
    BY <1>1, <2>1 DEF Sessions, Pcs
  <2>3. session.wrote /\ Unsaved /\ Unsaved' /\ mixed' = mixed
    <3>1. session.wrote /\ ~session.had /\ session.had \in BOOLEAN
      BY <1>1, <1>3 DEF MustUndo, Sessions
    <3>2. mixed' = mixed
      BY <1>1, <3>1
    <3> QED
      BY <1>1, <2>2, <3>1, <3>2 DEF Unsaved
  <2>4. UNCHANGED <<auth_mode, secret, pc, ssh, ask, backend, conn, got, item>>
    BY <1>1 DEF Rest, setup, Keep
  <2>5. CredentialTypes' /\ Loading'
    BY <1>1, <2>2, <2>4, SessionTypes DEF CredentialInv, CredentialTypes
  <2>6. Readable' /\ Editing'
    BY <2>2, <2>3, <2>4 DEF CredentialInv, Readable, Editing
  <2>7. Owned'
    BY <1>1, <2>3, <2>4 DEF CredentialInv, Owned, Helped, Connecting, Loaded, Ended
  <2> QED
    BY <2>5, <2>6, <2>7 DEF CredentialInv
<1> QED
  BY <1>2, <1>3

LEMMA StepRemove == CredentialInv /\ Remove => CredentialInv'
<1> SUFFICES ASSUME CredentialInv, Remove PROVE CredentialInv'
  OBVIOUS
<1>1. Rest /\ entry' = entry /\ session' = Idle /\ mixed \in BOOLEAN
  BY DEF Remove, CredentialInv, CredentialTypes
<1>2. CASE PutItem(NoItem) /\ mixed' = mixed
  <2>1. item' = NoItem /\ secret' = FALSE
    BY <1>2 DEF PutItem
  <2>2. UNCHANGED <<auth_mode, pc, ssh, ask, backend, conn, got>>
    BY <1>1 DEF Rest, setup
  <2>3. CredentialTypes' /\ Loading'
    BY <1>1, <1>2, <2>1, NoItemType, IdleType, SessionTypes DEF CredentialInv, CredentialTypes
  <2>4. Readable'
    BY <2>1, <2>2, NoItemType DEF CredentialInv, Readable, FormsOf
  <2>5. ~Unsaved' /\ Editing'
    BY <1>1, IdleType DEF Unsaved, Editing
  <2>6. Owned'
    BY <1>2, <2>1, <2>2 DEF CredentialInv, Owned, Helped, Ended
  <2> QED
    BY <2>3, <2>4, <2>5, <2>6 DEF CredentialInv
<1>3. CASE Keep /\ mixed' = (mixed \/ item # NoItem)
  <2>1. CASE item # NoItem
    BY <1>1, <1>3, <2>1, IdleType, StepKeep
  <2>2. CASE item = NoItem
    <3>1. mixed' = mixed /\ ~Unsaved' /\ Editing'
      BY <1>1, <1>3, <2>2, IdleType DEF Unsaved, Editing
    <3>2. UNCHANGED <<auth_mode, secret, pc, ssh, ask, backend, conn, got, item>>
      BY <1>1, <1>3 DEF Rest, setup, Keep
    <3>3. CredentialTypes' /\ Loading'
      BY <1>1, <3>1, <3>2, IdleType, SessionTypes DEF CredentialInv, CredentialTypes
    <3>4. Readable'
      BY <3>2 DEF CredentialInv, Readable
    <3>5. Owned'
      BY <2>2, <3>1, <3>2 DEF CredentialInv, Owned, Helped, Ended
    <3> QED
      BY <3>1, <3>3, <3>4, <3>5 DEF CredentialInv
  <2> QED
    BY <2>1, <2>2
<1> QED
  BY <1>2, <1>3 DEF Remove

-----------------------------------------------------------------------------
LEMMA NextCredential ==
  ConnectInv /\ CredentialInv /\ [CredentialNext]_allvars => CredentialInv'
<1> SUFFICES ASSUME ConnectInv, CredentialInv, [CredentialNext]_allvars PROVE CredentialInv'
  OBVIOUS
<1>1. CASE UNCHANGED allvars
  BY <1>1 DEF allvars, vars, setup, passwords, CredentialInv, CredentialTypes, Readable, Loading,
       Loaded, Editing, Owned, Unsaved, Helped, Connecting, Ended
<1>2. CASE CredentialNext
  BY <1>2, StepLoad, StepProgramStep, StepHelperStep, StepSshStep, StepBegin, StepWrite, StepSave,
     StepSaveFails, StepRemove, StepEnd, StepSelfTest DEF CredentialNext
<1> QED
  BY <1>1, <1>2

LEMMA AlwaysCredentialInv == CredentialSpec => [](ConnectInv /\ CredentialInv)
  BY InitCredential, NextCredential, AlwaysConnectInv, PTL DEF CredentialSpec

\* The password goes out in one place only.
LEMMA ReleaseIsWrite ==
  ASSUME [CredentialNext]_allvars, released' # released
  PROVE  ask.pc = "write" /\ ~Ended
<1>1. HelperStep
  BY DEF CredentialNext, allvars, vars, Load, ProgramStep, Program, FilesRejected, Check, LaunchFails,
       Launch, Wait, AnswerStep, Answer, SshStep, Verify, Authenticate, SessionEnds, SshCrashes,
       BeginEdit, BeginDelete, Write, Save, SaveFails, Remove, End, SelfTest, SelfTestWrite,
       SelfTestRead, SelfTestRemove, Rest
<1> QED
  BY <1>1 DEF HelperStep, Helper, Confirm, ReadSecret, WriteSecret

(***************************************************************************)
(* Whatever a session does to the entry and its password while it is       *)
(* connected to, OpenSSH is handed a password that was given for the       *)
(* target, unless one of the named failures parted the two.                *)
(***************************************************************************)
THEOREM RightPasswordAlways == CredentialSpec => RightPassword
<1>1. CredentialInv /\ [CredentialNext]_allvars =>
        (released' # released => conn \in got.item.owners \/ mixed)
  BY ReleaseIsWrite DEF CredentialInv, Owned
<1> QED
  BY <1>1, AlwaysCredentialInv, PTL DEF CredentialSpec, RightPassword

(***************************************************************************)
(* Whichever version stored the password, and in whatever form, the bytes  *)
(* OpenSSH is handed are the UTF-8 form of what was typed: for every set   *)
(* of passwords and every conversion to UTF-8, the prefix, the even size   *)
(* and the units recover what was stored, unless units of an earlier       *)
(* version begin like the prefix.                                          *)
(***************************************************************************)
THEOREM PasswordUnalteredAlways == CredentialSpec => PasswordUnaltered
<1>1. CredentialInv /\ [CredentialNext]_allvars =>
        (released' # released => got.text = got.item.text \/ ReadsLikePrefixed(got.item))
  BY ReleaseIsWrite DEF CredentialInv, Readable, TrueText
<1> QED
  BY <1>1, AlwaysCredentialInv, PTL DEF CredentialSpec, PasswordUnaltered

-----------------------------------------------------------------------------
(***************************************************************************)
(* The self-test.  Before it writes there is nothing of its own, and it    *)
(* ends, but for a write that failed, with an attempt to remove.           *)
(***************************************************************************)
SelfTestInv ==
  /\ session \in Sessions
  /\ session.pc = "passed" => session.worked
  /\ session.pc \notin {"test-read", "test-remove"} /\ spare # NoItem =>
       session.pc = "failed" /\ session.refused

LEMMA StepSelfTestInv ==
  SelfTestInv /\ CredentialInv' /\ [CredentialNext]_allvars => SelfTestInv'
<1> SUFFICES ASSUME SelfTestInv, CredentialInv', [CredentialNext]_allvars PROVE SelfTestInv'
  OBVIOUS
<1>1. session \in Sessions /\ session' \in Sessions
  BY DEF SelfTestInv, CredentialInv, CredentialTypes
<1>2. CASE UNCHANGED <<session, spare>>
  BY <1>2 DEF SelfTestInv
<1>3. CASE /\ spare' = spare /\ session.pc \in Pcs \ SelfTesting
           /\ session'.pc \in Pcs \ SelfTesting
  BY <1>1, <1>3 DEF SelfTestInv, SelfTesting
<1>4. CASE SelfTestWrite
  BY <1>1, <1>4 DEF SelfTestInv, SelfTestWrite, Test, Sessions
<1>5. CASE SelfTestRead
  BY <1>1, <1>5 DEF SelfTestInv, SelfTestRead, Test, AfterFailedRead, Sessions
<1>6. CASE SelfTestRemove
  BY <1>1, <1>6 DEF SelfTestInv, SelfTestRemove, Sessions
<1>7. CASE Load \/ ProgramStep \/ HelperStep \/ AnswerStep \/ SshStep \/ UNCHANGED allvars
  BY <1>2, <1>7 DEF Load, ProgramStep, HelperStep, AnswerStep, SshStep, allvars, passwords
<1>8. CASE SessionStep /\ ~SelfTest
  <2>1. /\ spare' = spare
        /\ session.pc \in {"menu", "write", "save", "undo", "forget"}
    BY <1>8 DEF SessionStep, BeginEdit, BeginDelete, Write, Save, SaveFails, Remove, End, Acts
  <2>2. session'.pc \in Pcs \ SelfTesting
    <3>1. \/ session' = Idle
          \/ \E at \in {"write", "save", "over"} : \E new, had : session' = Fresh(at, new, had)
          \/ \E at \in {"forget", "undo"} : session' = [session EXCEPT !.pc = at]
          \/ session' = [session EXCEPT !.pc = "save", !.wrote = TRUE]
      BY <1>8 DEF SessionStep, BeginEdit, BeginDelete, Write, Save, SaveFails, Remove, End
    <3>2. session' = Idle => session'.pc = "menu"
      BY DEF Idle, Fresh
    <3>3. ASSUME NEW at \in {"write", "save", "over"}, NEW new, NEW had,
                 session' = Fresh(at, new, had)
          PROVE  session'.pc = at
      BY <3>3 DEF Fresh
    <3>4. ASSUME NEW at \in {"forget", "undo"}, session' = [session EXCEPT !.pc = at]
          PROVE  session'.pc = at
      BY <1>1, <3>4 DEF Sessions
    <3>5. session' = [session EXCEPT !.pc = "save", !.wrote = TRUE] => session'.pc = "save"
      BY <1>1 DEF Sessions
    <3>6. session'.pc \in {"menu", "write", "save", "over", "forget", "undo"}
      BY <3>1, <3>2, <3>3, <3>4, <3>5
    <3> QED
      BY <3>6 DEF Pcs, SelfTesting
  <2> QED
    BY <1>3, <2>1, <2>2 DEF Pcs, SelfTesting
<1> QED
  BY <1>4, <1>5, <1>6, <1>7, <1>8 DEF CredentialNext, SessionStep, SelfTest

(***************************************************************************)
(* For every vault and password a self-test that passed gave back what it  *)
(* stored, and one that is over leaves a credential only where the vault   *)
(* refused to remove it.                                                   *)
(***************************************************************************)
THEOREM SelfTestIsCleanAlways == CredentialSpec => []SelfTestIsClean
<1>1. CredentialInit => SelfTestInv
  BY IdleType DEF CredentialInit, SelfTestInv
<1>2. SelfTestInv => SelfTestIsClean
  BY DEF SelfTestInv, SelfTestIsClean
<1> QED
  BY <1>1, <1>2, StepSelfTestInv, AlwaysCredentialInv, PTL DEF CredentialSpec
=============================================================================
