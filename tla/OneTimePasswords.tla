-------------------------- MODULE OneTimePasswords --------------------------
(***************************************************************************)
(* One-time passwords, at the grain of the Redis commands of OTPService.   *)
(*                                                                         *)
(* A request reads a key, decides and writes a key in separate commands:   *)
(* what it writes may rest on an entry that has been replaced or removed   *)
(* since.  With Twilio the code is kept and checked by the provider, and   *)
(* only the cooldown is in Redis.                                          *)
(***************************************************************************)
EXTENDS Integers, FiniteSets

CONSTANTS
  Phones, Roles,
  Clients,      \* requests under way at a time
  Codes,        \* bound: the codes that are generated, each once
  MaxAttempts,  \* settings.otp_max_attempts
  Nothing       \* a key that does not exist, a request that does nothing

Keys    == Phones \X Roles     \* otp:{role}:{phone}
Entries == [code : Codes, attempts : Nat]

ASSUME OTPAssumption ==
  /\ MaxAttempts \in Nat
  /\ Nothing \notin Entries \cup Codes \cup Keys

VARIABLES
  provider,  \* settings.sms_provider
  stored,    \* the entry of each key
  cooldown,  \* the phones with an otp_cooldown key
  pending,   \* the provider's: the code it would approve for a phone
  step,      \* where a request is
  key,       \* whose code it is about
  copy,      \* the entry it has read
  issued,    \* history: the codes that have been sent
  tries,     \* history: wrong attempts counted against a code
  uses,      \* history: how often a code has been approved
  overlaps   \* history: attempts on a code that were decided on an entry which
             \* another request, or its expiry, had changed since it was read

otpVars == <<provider, stored, cooldown, pending, step, key, copy,
             issued, tries, uses, overlaps>>

OTPTypeOK ==
  /\ provider \in {"console", "twilio"}
  /\ stored \in [Keys -> Entries \cup {Nothing}]
  /\ cooldown \subseteq Phones
  /\ pending \in [Phones -> Codes \cup {Nothing}]
  /\ step \in [Clients -> {"idle", "asked", "clear", "sent", "found", "approved"}]
  /\ key \in [Clients -> Keys \cup {Nothing}]
  /\ copy \in [Clients -> Entries \cup {Nothing}]
  /\ issued \subseteq Codes
  /\ tries \in [Codes -> Nat]
  /\ uses \in [Codes -> Nat]
  /\ overlaps \in [Codes -> Nat]

OTPInit ==
  /\ provider \in {"console", "twilio"}
  /\ stored = [k \in Keys |-> Nothing]
  /\ cooldown = {}
  /\ pending = [p \in Phones |-> Nothing]
  /\ step = [c \in Clients |-> "idle"]
  /\ key = [c \in Clients |-> Nothing]
  /\ copy = [c \in Clients |-> Nothing]
  /\ issued \in SUBSET Codes
  /\ tries = [x \in Codes |-> 0]
  /\ uses = [x \in Codes |-> 0]
  /\ overlaps = [x \in Codes |-> 0]

\* The request c, about the key k, is at a stage, or over.
Goes(c, k, stage) ==
  /\ step' = [step EXCEPT ![c] = stage]
  /\ key' = [key EXCEPT ![c] = IF stage = "idle" THEN Nothing ELSE k]

-----------------------------------------------------------------------------
(***************************************************************************)
(* Sending.  The cooldown of the phone is read first and set last; asking  *)
(* for another code reads it twice, except with the provider.              *)
(***************************************************************************)
Phone(c) == key[c][1]

ReadCooldown(c, k, stage) ==
  /\ step[c] = "idle"
  /\ k[1] \notin cooldown
  /\ Goes(c, k, stage)
  /\ UNCHANGED <<provider, stored, cooldown, pending, copy, issued, tries, uses, overlaps>>

SendOTP(c, k)   == ReadCooldown(c, k, "clear")
ResendOTP(c, k) == ReadCooldown(c, k, IF provider = "twilio" THEN "clear" ELSE "asked")

ReadCooldownAgain(c) ==
  /\ step[c] = "asked"
  /\ Goes(c, key[c], IF Phone(c) \in cooldown THEN "idle" ELSE "clear")
  /\ UNCHANGED <<provider, stored, cooldown, pending, copy, issued, tries, uses, overlaps>>

StoreCode(c) ==
  /\ provider = "console"
  /\ step[c] = "clear"
  /\ \E code \in Codes \ issued :
       /\ stored' = [stored EXCEPT ![key[c]] = [code |-> code, attempts |-> 0]]
       /\ issued' = issued \cup {code}
  /\ Goes(c, key[c], "sent")
  /\ UNCHANGED <<provider, cooldown, pending, copy, tries, uses, overlaps>>

\* The provider sends a new code, or the one that is pending once more.
SendByProvider(c) ==
  /\ provider = "twilio"
  /\ step[c] = "clear"
  /\ \E code \in (Codes \ issued) \cup ({pending[Phone(c)]} \ {Nothing}) :
       /\ pending' = [pending EXCEPT ![Phone(c)] = code]
       /\ issued' = issued \cup {code}
  /\ Goes(c, key[c], "sent")
  /\ UNCHANGED <<provider, stored, cooldown, copy, tries, uses, overlaps>>

SetCooldown(c) ==
  /\ step[c] = "sent"
  /\ cooldown' = cooldown \cup {Phone(c)}
  /\ Goes(c, key[c], "idle")
  /\ UNCHANGED <<provider, stored, pending, copy, issued, tries, uses, overlaps>>

-----------------------------------------------------------------------------
(***************************************************************************)
(* Verifying.                                                              *)
(***************************************************************************)
ReadCode(c, k) ==
  /\ provider = "console"
  /\ step[c] = "idle"
  /\ stored[k] # Nothing
  /\ copy' = [copy EXCEPT ![c] = stored[k]]
  /\ Goes(c, k, "found")
  /\ UNCHANGED <<provider, stored, cooldown, pending, issued, tries, uses, overlaps>>

\* The entry of the key is replaced or, by Nothing, deleted.
WriteEntry(c, entry, stage) ==
  /\ stored' = [stored EXCEPT ![key[c]] = entry]
  /\ copy' = [copy EXCEPT ![c] = Nothing]
  /\ Goes(c, key[c], stage)
  /\ UNCHANGED <<provider, cooldown, pending, issued>>

\* Nobody looks whether the entry is still the one that was read.
Overlapped(c) ==
  overlaps' = [overlaps EXCEPT ![copy[c].code] = IF stored[key[c]] = copy[c] THEN @ ELSE @ + 1]

OneMoreTry(entry)   == entry.attempts <= MaxAttempts   \* mutant
TriesAreLeft(entry) == entry.attempts < MaxAttempts

CountedDown(entry) == [entry EXCEPT !.attempts = @ - 1]   \* mutant
Counted(entry)     == [entry EXCEPT !.attempts = @ + 1]

TooManyTries(c) ==
  /\ step[c] = "found"
  /\ ~ TriesAreLeft(copy[c])
  /\ WriteEntry(c, Nothing, "idle")
  /\ UNCHANGED <<tries, uses, overlaps>>

WrongCode(c) ==
  /\ step[c] = "found"
  /\ TriesAreLeft(copy[c])
  /\ WriteEntry(c, Counted(copy[c]), "idle")
  /\ tries' = [tries EXCEPT ![copy[c].code] = @ + 1]
  /\ Overlapped(c)
  /\ UNCHANGED uses

RightCodeIsKept(c) ==   \* mutant: the code is not deleted
  /\ step[c] = "found"
  /\ TriesAreLeft(copy[c])
  /\ WriteEntry(c, copy[c], "approved")
  /\ uses' = [uses EXCEPT ![copy[c].code] = @ + 1]
  /\ Overlapped(c)
  /\ UNCHANGED tries
RightCode(c) ==
  /\ step[c] = "found"
  /\ TriesAreLeft(copy[c])
  /\ WriteEntry(c, Nothing, "approved")
  /\ uses' = [uses EXCEPT ![copy[c].code] = @ + 1]
  /\ Overlapped(c)
  /\ UNCHANGED tries

\* The provider checks a code and forgets it with its approval; it may forget
\* one that was tried too often.
CheckedByProvider(c, k) ==
  /\ provider = "twilio"
  /\ step[c] = "idle"
  /\ pending[k[1]] # Nothing
  /\ \/ /\ uses' = [uses EXCEPT ![pending[k[1]]] = @ + 1]
        /\ Goes(c, k, "approved")
     \/ UNCHANGED <<step, key, uses>>
  /\ pending' = [pending EXCEPT ![k[1]] = Nothing]
  /\ UNCHANGED <<provider, stored, cooldown, copy, issued, tries, overlaps>>

-----------------------------------------------------------------------------
(***************************************************************************)
(* Keys expire at any time; a request can die, or be refused by the        *)
(* provider, between any two commands.                                     *)
(***************************************************************************)
ExpireCode(k) ==
  /\ stored[k] # Nothing
  /\ stored' = [stored EXCEPT ![k] = Nothing]
  /\ UNCHANGED <<provider, cooldown, pending, step, key, copy, issued, tries, uses, overlaps>>

ExpireCooldown(p) ==
  /\ p \in cooldown
  /\ cooldown' = cooldown \ {p}
  /\ UNCHANGED <<provider, stored, pending, step, key, copy, issued, tries, uses, overlaps>>

AbandonOTP(c) ==
  /\ step[c] # "idle"
  /\ Goes(c, key[c], "idle")
  /\ copy' = [copy EXCEPT ![c] = Nothing]
  /\ UNCHANGED <<provider, stored, cooldown, pending, issued, tries, uses, overlaps>>

Commands(c) ==
  \/ ReadCooldownAgain(c) \/ StoreCode(c) \/ SendByProvider(c) \/ SetCooldown(c)
  \/ TooManyTries(c) \/ WrongCode(c) \/ RightCode(c) \/ AbandonOTP(c)

Expiries ==
  (\E k \in Keys : ExpireCode(k)) \/ (\E p \in Phones : ExpireCooldown(p))

-----------------------------------------------------------------------------
(***************************************************************************)
(* Properties.                                                             *)
(***************************************************************************)
\* A code signs in once, and no more wrong attempts are made on it than
\* otp_max_attempts (OTPService.verify_otp), whatever sends, expiries and
\* failures come between them, but for attempts that overlap: a wrong one under
\* way writes a used, replaced or expired code back, and each attempt that was
\* decided on an entry that has changed since buys one more use at most, and
\* one more round of attempts.
CodesAreLimited ==
  \A x \in Codes :
    /\ uses[x] <= 1 + overlaps[x]
    /\ tries[x] <= MaxAttempts * (1 + overlaps[x])

=============================================================================
