----------------------------- MODULE LockScreen -----------------------------
(***************************************************************************)
(* The lock screen (state/lock_screen.rs): the shell's built-in lock and   *)
(* clients of ext-session-lock lock the session; the built-in one is left  *)
(* with a password, which a thread of its own checks while the compositor  *)
(* goes on. Its answer is a message to the compositor's loop, which tells  *)
(* nothing of the lock it was asked for.                                   *)
(*                                                                         *)
(* Left out: the surfaces of clients, what is drawn, and the messages to   *)
(* the shell, which repeat this state. A request that is refused changes   *)
(* nothing and is no step. Locking is never left standing: each handler    *)
(* that enters it goes on to Locked.                                       *)
(***************************************************************************)
EXTENDS Naturals

CONSTANTS
  Clients,      \* clients of ext-session-lock
  MaxLocks,     \* bound: times the session is locked
  MaxAttempts   \* bound: passwords submitted

ASSUME LockScreenAssumption == MaxLocks \in Nat /\ MaxAttempts \in Nat

VARIABLES
  enabled,          \* settings.enabled
  phase,            \* "Unlocked", "Locked" or "Unlocking"
  origin,           \* "None", "BuiltinShell" or "ExternalProtocol"
  authenticating,
  failed_attempts,
  auths,            \* passwords with a thread, or an answer on its way to the loop
  client,           \* "idle", "holds" (it was told locked) or "lost" (it died so)
  locks, attempts   \* how many there were: they number locks and passwords

lockVars == <<phase, origin, authenticating, failed_attempts>>
vars     == <<enabled, lockVars, auths, client, locks, attempts>>

Active == phase # "Unlocked"
Locked == phase \in {"Locked", "Unlocking"}

Auth == [attempt : 1 .. MaxAttempts, lock : 1 .. MaxLocks,
         result : {"running", "right", "wrong"}]

Init ==
  /\ enabled \in BOOLEAN
  /\ phase = "Unlocked" /\ origin = "None" /\ authenticating = FALSE
  /\ failed_attempts = 0
  /\ auths = {} /\ locks = 0 /\ attempts = 0
  /\ client = [c \in Clients |-> "idle"]

\* Mutant: the lock screen may be disabled at any time.
ApplySettingsAnytime(on) ==
  /\ enabled' = on
  /\ UNCHANGED <<lockVars, auths, client, locks, attempts>>

ApplySettings(on) ==
  /\ on \/ ~Active
  /\ enabled' = on
  /\ UNCHANGED <<lockVars, auths, client, locks, attempts>>

Enter(by) ==
  /\ locks < MaxLocks
  /\ locks' = locks + 1
  /\ phase' = "Locked" /\ origin' = by /\ authenticating' = FALSE
  /\ failed_attempts' = 0

\* Mutant: the session is locked anew when it is locked.
RequestBuiltinAgain ==
  /\ enabled
  /\ Enter("BuiltinShell")
  /\ UNCHANGED <<enabled, auths, client, attempts>>

RequestBuiltin ==
  /\ enabled /\ ~Active
  /\ Enter("BuiltinShell")
  /\ UNCHANGED <<enabled, auths, client, attempts>>

\* Mutant: a password does not wait for the one before it.
SubmitPasswordAnyway ==
  /\ Locked /\ origin = "BuiltinShell"
  /\ attempts < MaxAttempts
  /\ attempts' = attempts + 1
  /\ phase' = "Unlocking" /\ authenticating' = TRUE
  /\ auths' = auths \cup {[attempt |-> attempts + 1, lock |-> locks, result |-> "running"]}
  /\ UNCHANGED <<enabled, origin, failed_attempts, client, locks>>

SubmitPassword ==
  /\ Locked /\ origin = "BuiltinShell" /\ ~authenticating
  /\ attempts < MaxAttempts
  /\ attempts' = attempts + 1
  /\ phase' = "Unlocking" /\ authenticating' = TRUE
  /\ auths' = auths \cup {[attempt |-> attempts + 1, lock |-> locks, result |-> "running"]}
  /\ UNCHANGED <<enabled, origin, failed_attempts, client, locks>>

\* authenticate_lock_password returns, and its answer is sent.
ThreadAnswers(a, result) ==
  /\ a \in auths /\ a.result = "running"
  /\ auths' = (auths \ {a}) \cup {[a EXCEPT !.result = result]}
  /\ UNCHANGED <<enabled, lockVars, client, locks, attempts>>

\* Mutant: a wrong password leaves the phase as it is.
FinishAuthKeepsPhase(a) ==
  /\ a \in auths /\ a.result # "running"
  /\ auths' = auths \ {a}
  /\ authenticating' = FALSE
  /\ IF a.result = "right"
     THEN phase' = "Unlocked" /\ origin' = "None" /\ UNCHANGED failed_attempts
     ELSE failed_attempts' = failed_attempts + 1 /\ UNCHANGED <<phase, origin>>
  /\ UNCHANGED <<enabled, client, locks, attempts>>

\* The loop receives an answer. It looks neither at the phase nor at the lock.
FinishAuth(a) ==
  /\ a \in auths /\ a.result # "running"
  /\ auths' = auths \ {a}
  /\ authenticating' = FALSE
  /\ IF a.result = "right"
     THEN phase' = "Unlocked" /\ origin' = "None" /\ UNCHANGED failed_attempts
     ELSE phase' = "Locked" /\ failed_attempts' = failed_attempts + 1 /\ UNCHANGED origin
  /\ UNCHANGED <<enabled, client, locks, attempts>>

\* Mutant: a client may take over a lock.
ClientLocksActive(c) ==
  /\ client[c] = "idle" /\ enabled
  /\ Enter("ExternalProtocol")
  /\ client' = [client EXCEPT ![c] = "holds"]
  /\ UNCHANGED <<enabled, auths, attempts>>

\* lock: the client is told that the session is locked, or, when it is refused,
\* that it is finished.
ClientLocks(c) ==
  /\ client[c] = "idle" /\ enabled /\ ~Active
  /\ Enter("ExternalProtocol")
  /\ client' = [client EXCEPT ![c] = "holds"]
  /\ UNCHANGED <<enabled, auths, attempts>>

\* unlock, which the protocol's library passes on from a client that holds.
ClientUnlocks(c) ==
  /\ client[c] = "holds"
  /\ client' = [client EXCEPT ![c] = "idle"]
  /\ phase' = "Unlocked" /\ origin' = "None" /\ authenticating' = FALSE
  /\ failed_attempts' = 0
  /\ UNCHANGED <<enabled, auths, locks, attempts>>

\* Nothing handles the death of a client that holds: the session stays locked.
ClientDies(c) ==
  /\ client[c] = "holds"
  /\ client' = [client EXCEPT ![c] = "lost"]
  /\ UNCHANGED <<enabled, lockVars, auths, locks, attempts>>

Thread == \E a \in auths, result \in {"right", "wrong"} : ThreadAnswers(a, result)
Answer == \E a \in auths : FinishAuth(a)

Next ==
  \/ \E on \in BOOLEAN : ApplySettings(on)
  \/ RequestBuiltin \/ SubmitPassword \/ Thread \/ Answer
  \/ \E c \in Clients : ClientLocks(c) \/ ClientUnlocks(c) \/ ClientDies(c)

\* su ends, and the loop runs what it is sent.
Fairness == WF_vars(Thread) /\ WF_vars(Answer)

Spec == Init /\ [][Next]_vars /\ Fairness

-----------------------------------------------------------------------------
(* Types, and the origin, which is that of a lock that is active.          *)
TypeOK ==
  /\ enabled \in BOOLEAN /\ authenticating \in BOOLEAN
  /\ phase \in {"Unlocked", "Locked", "Unlocking"}
  /\ origin \in {"None", "BuiltinShell", "ExternalProtocol"}
  /\ phase = "Unlocked" <=> origin = "None"
  /\ failed_attempts \in Nat
  /\ auths \subseteq Auth
  /\ client \in [Clients -> {"idle", "holds", "lost"}]
  /\ locks \in 0 .. MaxLocks /\ attempts \in 0 .. MaxAttempts

(* The phase is Unlocking and `authenticating` set exactly while one       *)
(* password is with its thread or on its way back, and it is for the lock  *)
(* that is there: no answer meets a lock it was not asked for, although    *)
(* lock_screen_finish_auth does not check.                                 *)
AnswerMeetsItsLock ==
  IF authenticating
  THEN phase = "Unlocking" /\ origin = "BuiltinShell"
       /\ \E a \in auths : auths = {a} /\ a.lock = locks
  ELSE phase # "Unlocking" /\ auths = {}

(* A lock of the external protocol has one client, which was told so, and  *)
(* any other lock none.                                                    *)
OneHolder ==
  LET holders == {c \in Clients : client[c] # "idle"}
  IN  IF origin = "ExternalProtocol" THEN \E c \in Clients : holders = {c} ELSE holders = {}

(* Who disables the lock screen finds the session unlocked, and it stays   *)
(* so: nothing is locked while it is disabled.                             *)
LockedWhileEnabled == Active => enabled

(* The session is unlocked by the right password for this very lock, or by *)
(* the client that holds it.                                               *)
UnlockedByHolder ==
  [][Active /\ phase' = "Unlocked" =>
       \/ /\ origin = "BuiltinShell"
          /\ \E a \in auths \ auths' : a.lock = locks /\ a.result = "right"
       \/ /\ origin = "ExternalProtocol"
          /\ \E c \in Clients : client[c] = "holds" /\ client'[c] = "idle"]_vars

(* A password is answered: Unlocking does not last.                        *)
EveryPasswordAnswered == phase = "Unlocking" ~> phase # "Unlocking"
=============================================================================
