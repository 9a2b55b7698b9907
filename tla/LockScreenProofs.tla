-------------------------- MODULE LockScreenProofs --------------------------
(***************************************************************************)
(* Proofs about LockScreen, for any clients and any number of locks and    *)
(* passwords. The invariants are inductive together: an answer meets its   *)
(* lock because nothing else can change the phase while a password is      *)
(* being checked, which needs the origin (TypeOK) to rule the clients out, *)
(* and the clients (OneHolder) to hold nothing then.                       *)
(***************************************************************************)
EXTENDS LockScreen, TLAPS

\* A lock that is there has been numbered.
LockNumbered == Active => locks # 0

IInv == TypeOK /\ LockNumbered /\ AnswerMeetsItsLock /\ OneHolder /\ LockedWhileEnabled

LEMMA InitIInv == Init => IInv
<1> SUFFICES ASSUME Init PROVE IInv
  OBVIOUS
<1>1. TypeOK
  <2>1. 0 \in 0 .. MaxLocks /\ 0 \in 0 .. MaxAttempts
    BY LockScreenAssumption DEF LockScreenAssumption
  <2>2. client \in [Clients -> {"idle", "holds", "lost"}]
    BY DEF Init
  <2> QED
    BY <2>1, <2>2 DEF Init, TypeOK
<1>2. LockNumbered /\ AnswerMeetsItsLock /\ OneHolder /\ LockedWhileEnabled
  BY DEF Init, LockNumbered, AnswerMeetsItsLock, OneHolder, LockedWhileEnabled, Active
<1> QED
  BY <1>1, <1>2 DEF IInv

LEMMA ApplySettingsStep ==
  ASSUME IInv, NEW on \in BOOLEAN, ApplySettings(on)
  PROVE  IInv'
<1>1. TypeOK'
  BY DEF IInv, TypeOK, ApplySettings, lockVars
<1>2. LockNumbered' /\ AnswerMeetsItsLock' /\ OneHolder'
  BY DEF IInv, LockNumbered, AnswerMeetsItsLock, OneHolder, ApplySettings, lockVars, Active
<1>3. LockedWhileEnabled'
  BY DEF IInv, LockedWhileEnabled, ApplySettings, lockVars, Active
<1> QED
  BY <1>1, <1>2, <1>3 DEF IInv

\* What entering a lock does whoever asks for it: no password is on its way.
LEMMA Entered ==
  ASSUME IInv, ~Active, enabled, UNCHANGED <<enabled, auths, attempts>>,
         NEW by \in {"BuiltinShell", "ExternalProtocol"}, Enter(by)
  PROVE  /\ LockNumbered' /\ AnswerMeetsItsLock' /\ LockedWhileEnabled'
         /\ client' \in [Clients -> {"idle", "holds", "lost"}] => TypeOK'
<1>1. locks \in 0 .. MaxLocks /\ locks < MaxLocks /\ locks' = locks + 1
  BY DEF IInv, TypeOK, Enter
<1>2. locks' \in 0 .. MaxLocks /\ locks' # 0
  BY <1>1, LockScreenAssumption DEF LockScreenAssumption
<1>3. client' \in [Clients -> {"idle", "holds", "lost"}] => TypeOK'
  BY <1>2 DEF IInv, TypeOK, Enter
<1>4. auths = {} /\ auths' = {} /\ phase' = "Locked" /\ authenticating' = FALSE
  BY DEF IInv, AnswerMeetsItsLock, Active, Enter
<1> QED
  BY <1>2, <1>3, <1>4 DEF LockNumbered, AnswerMeetsItsLock, LockedWhileEnabled

LEMMA RequestBuiltinStep == IInv /\ RequestBuiltin => IInv'
<1> SUFFICES ASSUME IInv, RequestBuiltin PROVE IInv'
  OBVIOUS
<1>1. TypeOK' /\ LockNumbered' /\ AnswerMeetsItsLock' /\ LockedWhileEnabled'
  BY Entered DEF RequestBuiltin, IInv, TypeOK
<1>2. origin # "ExternalProtocol" /\ origin' = "BuiltinShell" /\ client' = client
  BY DEF IInv, RequestBuiltin, Enter, TypeOK, Active
<1>3. OneHolder'
  BY <1>2 DEF IInv, OneHolder
<1> QED
  BY <1>1, <1>3 DEF IInv

LEMMA ClientLocksStep ==
  ASSUME IInv, NEW c \in Clients, ClientLocks(c)
  PROVE  IInv'
<1>1. client' = [client EXCEPT ![c] = "holds"] /\ client \in [Clients -> {"idle", "holds", "lost"}]
  BY DEF IInv, TypeOK, ClientLocks
<1>2. TypeOK' /\ LockNumbered' /\ AnswerMeetsItsLock' /\ LockedWhileEnabled'
  BY <1>1, Entered DEF ClientLocks
<1>3. {d \in Clients : client[d] # "idle"} = {}
  BY DEF IInv, ClientLocks, OneHolder, TypeOK, Active
<1>4. {d \in Clients : client'[d] # "idle"} = {c}
  BY <1>1, <1>3
<1>5. OneHolder'
  BY <1>4 DEF OneHolder, ClientLocks, Enter
<1> QED
  BY <1>2, <1>5 DEF IInv

LEMMA SubmitPasswordStep == IInv /\ SubmitPassword => IInv'
<1> SUFFICES ASSUME IInv, SubmitPassword PROVE IInv'
  OBVIOUS
<1> DEFINE new == [attempt |-> attempts + 1, lock |-> locks, result |-> "running"]
<1>1. auths' = {new}
  BY DEF IInv, AnswerMeetsItsLock, SubmitPassword
<1>2. locks \in 1 .. MaxLocks
  BY LockScreenAssumption DEF LockScreenAssumption, IInv, TypeOK, LockNumbered, SubmitPassword, Locked, Active
<1>3. attempts' \in 1 .. MaxAttempts /\ attempts' = attempts + 1
  BY LockScreenAssumption DEF LockScreenAssumption, IInv, TypeOK, SubmitPassword
<1>4. new \in Auth
  BY <1>2, <1>3 DEF Auth
<1>5. TypeOK'
  BY <1>1, <1>3, <1>4 DEF IInv, TypeOK, SubmitPassword
<1>6. AnswerMeetsItsLock'
  <2>1. authenticating' /\ phase' = "Unlocking" /\ origin' = "BuiltinShell" /\ new.lock = locks'
    BY DEF SubmitPassword
  <2> HIDE DEF new
  <2> QED
    BY <1>1, <2>1 DEF AnswerMeetsItsLock
<1>7. LockNumbered' /\ OneHolder' /\ LockedWhileEnabled'
  BY <1>2 DEF IInv, LockNumbered, OneHolder, LockedWhileEnabled, SubmitPassword, Locked, Active
<1> QED
  BY <1>5, <1>6, <1>7 DEF IInv

LEMMA ThreadAnswersStep ==
  ASSUME IInv, NEW a \in auths, NEW result \in {"right", "wrong"}, ThreadAnswers(a, result)
  PROVE  IInv'
<1> DEFINE answer == [a EXCEPT !.result = result]
<1>1. auths = {a} /\ a.lock = locks /\ authenticating /\ auths' = {answer}
  BY DEF IInv, AnswerMeetsItsLock, ThreadAnswers
<1>2. answer \in Auth /\ answer.lock = a.lock
  BY DEF IInv, TypeOK, Auth
<1>3. TypeOK'
  BY <1>1, <1>2 DEF IInv, TypeOK, ThreadAnswers, lockVars
<1>4. AnswerMeetsItsLock'
  BY <1>1, <1>2 DEF IInv, AnswerMeetsItsLock, ThreadAnswers, lockVars
<1>5. LockNumbered' /\ OneHolder' /\ LockedWhileEnabled'
  BY DEF IInv, LockNumbered, OneHolder, LockedWhileEnabled, ThreadAnswers, lockVars, Active
<1> QED
  BY <1>3, <1>4, <1>5 DEF IInv

LEMMA FinishAuthStep ==
  ASSUME IInv, NEW a \in auths, FinishAuth(a)
  PROVE  IInv'
<1>1. auths' = {} /\ origin = "BuiltinShell" /\ Active
  BY DEF IInv, AnswerMeetsItsLock, FinishAuth, Active
<1>2. TypeOK'
  <2>1. CASE a.result = "right"
    BY <1>1, <2>1 DEF IInv, TypeOK, FinishAuth
  <2>2. CASE a.result # "right"
    <3>1. phase' = "Locked" /\ failed_attempts' = failed_attempts + 1 /\ origin' = "BuiltinShell"
      BY <1>1, <2>2 DEF FinishAuth
    <3>2. failed_attempts' \in Nat
      BY <3>1 DEF IInv, TypeOK
    <3> QED
      BY <1>1, <3>1, <3>2 DEF IInv, TypeOK, FinishAuth
  <2> QED
    BY <2>1, <2>2
<1>3. AnswerMeetsItsLock'
  BY <1>1 DEF AnswerMeetsItsLock, FinishAuth
<1>4. OneHolder'
  BY <1>1 DEF IInv, OneHolder, FinishAuth
<1>5. LockNumbered' /\ LockedWhileEnabled'
  BY <1>1 DEF IInv, LockNumbered, LockedWhileEnabled, FinishAuth, Active
<1> QED
  BY <1>2, <1>3, <1>4, <1>5 DEF IInv

\* A client that holds shows where the lock is from.
LEMMA HolderIsExternal ==
  ASSUME IInv, NEW c \in Clients, client[c] # "idle"
  PROVE  origin = "ExternalProtocol" /\ {d \in Clients : client[d] # "idle"} = {c}
BY DEF IInv, OneHolder

LEMMA ClientUnlocksStep ==
  ASSUME IInv, NEW c \in Clients, ClientUnlocks(c)
  PROVE  IInv'
<1>1. origin = "ExternalProtocol" /\ {d \in Clients : client[d] # "idle"} = {c}
  BY HolderIsExternal DEF ClientUnlocks
<1>2. client' = [client EXCEPT ![c] = "idle"] /\ client \in [Clients -> {"idle", "holds", "lost"}]
  BY DEF IInv, TypeOK, ClientUnlocks
<1>3. auths = {}
  BY <1>1 DEF IInv, AnswerMeetsItsLock
<1>4. TypeOK'
  BY <1>2 DEF IInv, TypeOK, ClientUnlocks
<1>5. {d \in Clients : client'[d] # "idle"} = {}
  BY <1>1, <1>2
<1>6. OneHolder'
  BY <1>5 DEF OneHolder, ClientUnlocks
<1>7. LockNumbered' /\ AnswerMeetsItsLock' /\ LockedWhileEnabled'
  BY <1>3 DEF LockNumbered, AnswerMeetsItsLock, LockedWhileEnabled, ClientUnlocks, Active
<1> QED
  BY <1>4, <1>6, <1>7 DEF IInv

LEMMA ClientDiesStep ==
  ASSUME IInv, NEW c \in Clients, ClientDies(c)
  PROVE  IInv'
<1>1. client' = [client EXCEPT ![c] = "lost"] /\ client \in [Clients -> {"idle", "holds", "lost"}]
  BY DEF IInv, TypeOK, ClientDies
<1>2. {d \in Clients : client'[d] # "idle"} = {d \in Clients : client[d] # "idle"}
  BY <1>1 DEF ClientDies
<1>3. OneHolder'
  BY <1>2 DEF IInv, OneHolder, ClientDies, lockVars
<1>4. TypeOK'
  BY <1>1 DEF IInv, TypeOK, ClientDies, lockVars
<1>5. LockNumbered' /\ AnswerMeetsItsLock' /\ LockedWhileEnabled'
  BY DEF IInv, LockNumbered, AnswerMeetsItsLock, LockedWhileEnabled, ClientDies, lockVars, Active
<1> QED
  BY <1>3, <1>4, <1>5 DEF IInv

LEMMA Stutter == IInv /\ UNCHANGED vars => IInv'
BY DEF IInv, TypeOK, LockNumbered, AnswerMeetsItsLock, OneHolder, LockedWhileEnabled,
       Active, vars, lockVars

LEMMA Step == IInv /\ [Next]_vars => IInv'
<1> SUFFICES ASSUME IInv, [Next]_vars PROVE IInv'
  OBVIOUS
<1>1. ASSUME NEW on \in BOOLEAN, ApplySettings(on) PROVE IInv'
  BY <1>1, ApplySettingsStep
<1>2. CASE RequestBuiltin
  BY <1>2, RequestBuiltinStep
<1>3. CASE SubmitPassword
  BY <1>3, SubmitPasswordStep
<1>4. CASE Thread
  BY <1>4, ThreadAnswersStep DEF Thread
<1>5. CASE Answer
  BY <1>5, FinishAuthStep DEF Answer
<1>6. ASSUME NEW c \in Clients, ClientLocks(c) \/ ClientUnlocks(c) \/ ClientDies(c) PROVE IInv'
  BY <1>6, ClientLocksStep, ClientUnlocksStep, ClientDiesStep
<1>7. CASE UNCHANGED vars
  BY <1>7, Stutter
<1> QED
  BY <1>1, <1>2, <1>3, <1>4, <1>5, <1>6, <1>7 DEF Next

LEMMA Invariance == Spec => []IInv
BY InitIInv, Step, PTL DEF Spec

(* Types, and the origin of what is active, for any clients and bounds.    *)
THEOREM TypeCorrect == Spec => []TypeOK
<1>1. IInv => TypeOK
  BY DEF IInv
<1> QED
  BY <1>1, Invariance, PTL

(* Every answer of an authentication thread meets the lock it was asked    *)
(* for, and no other answer is on its way.                                 *)
THEOREM AnswersMeetTheirLock == Spec => []AnswerMeetsItsLock
<1>1. IInv => AnswerMeetsItsLock
  BY DEF IInv
<1> QED
  BY <1>1, Invariance, PTL

(* A lock of the external protocol has exactly one client.                 *)
THEOREM LockHasOneHolder == Spec => []OneHolder
<1>1. IInv => OneHolder
  BY DEF IInv
<1> QED
  BY <1>1, Invariance, PTL

(* Nothing is locked while the lock screen is disabled.                    *)
THEOREM NeverLockedDisabled == Spec => []LockedWhileEnabled
<1>1. IInv => LockedWhileEnabled
  BY DEF IInv
<1> QED
  BY <1>1, Invariance, PTL

(* The session is unlocked by the right password for the lock that is      *)
(* there, or by the client that holds it, and by nothing else.             *)
THEOREM OnlyHoldersUnlock == Spec => UnlockedByHolder
<1> DEFINE Justified ==
       \/ /\ origin = "BuiltinShell"
          /\ \E a \in auths \ auths' : a.lock = locks /\ a.result = "right"
       \/ /\ origin = "ExternalProtocol"
          /\ \E c \in Clients : client[c] = "holds" /\ client'[c] = "idle"
<1>1. IInv /\ [Next]_vars => [Active /\ phase' = "Unlocked" => Justified]_vars
  <2> SUFFICES ASSUME IInv, Next, Active, phase' = "Unlocked" PROVE Justified
    OBVIOUS
  <2>1. CASE Answer
    <3>1. PICK a \in auths : FinishAuth(a)
      BY <2>1 DEF Answer
    <3>2. a.result = "right" /\ a \notin auths'
      BY <3>1, <2>1 DEF FinishAuth, IInv, TypeOK, Auth
    <3>3. origin = "BuiltinShell" /\ a.lock = locks
      BY DEF IInv, AnswerMeetsItsLock
    <3> QED
      BY <3>2, <3>3
  <2>2. ASSUME NEW c \in Clients, ClientUnlocks(c) PROVE Justified
    <3>1. client[c] = "holds" /\ client'[c] = "idle"
      BY <2>2 DEF ClientUnlocks, IInv, TypeOK
    <3>2. origin = "ExternalProtocol"
      BY <3>1, HolderIsExternal
    <3> QED
      BY <3>1, <3>2
  <2>3. ASSUME Thread \/ \E on \in BOOLEAN : ApplySettings(on)  PROVE FALSE
    BY <2>3 DEF Thread, ThreadAnswers, ApplySettings, lockVars, Active
  <2>4. ASSUME NEW c \in Clients, ClientLocks(c) \/ ClientDies(c) PROVE FALSE
    BY <2>4 DEF ClientLocks, ClientDies, lockVars, Active, Enter
  <2>5. ASSUME RequestBuiltin \/ SubmitPassword PROVE FALSE
    BY <2>5 DEF RequestBuiltin, SubmitPassword, Enter
  <2> QED
    BY <2>1, <2>2, <2>3, <2>4, <2>5 DEF Next
<1> QED
  BY <1>1, Invariance, PTL DEF Spec, UnlockedByHolder
=============================================================================
