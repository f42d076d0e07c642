--------------------------- MODULE AccountsProofs ---------------------------
(***************************************************************************)
(* Theorems about Accounts and OneTimePasswords, for any number of phones, *)
(* codes, clients, administrators and sessions.                            *)
(***************************************************************************)
EXTENDS Accounts, TLAPS

USE OTPAssumption, AccountsAssumption DEF Keys, Entries

(***************************************************************************)
(* What a request does with Redis: a command, or the step from an approved *)
(* code to the user it signs in.                                           *)
(***************************************************************************)
CommandOf(c) ==
  \/ \E k \in Keys : SendOTP(c, k) \/ ResendOTP(c, k) \/ ReadCode(c, k) \/ CheckedByProvider(c, k)
  \/ Commands(c)

Leaves(c) ==
  /\ Goes(c, key[c], "idle") /\ step[c] = "approved"
  /\ UNCHANGED <<provider, stored, cooldown, pending, copy, issued, tries, uses, overlaps>>

-----------------------------------------------------------------------------
(***************************************************************************)
(* Types.                                                                  *)
(***************************************************************************)
\* A request that goes on has its key and a stage.
LEMMA GoesType ==
  ASSUME OTPTypeOK, NEW c \in Clients, NEW k \in Keys \cup {Nothing},
         NEW s \in {"idle", "asked", "clear", "sent", "found", "approved"}, Goes(c, k, s)
  PROVE  /\ step' \in [Clients -> {"idle", "asked", "clear", "sent", "found", "approved"}]
         /\ key' \in [Clients -> Keys \cup {Nothing}]
  BY DEF OTPTypeOK, Goes

\* A request between two commands has a key, and one that has read an entry
\* holds it.
HasKey ==
  \A c \in Clients : /\ step[c] # "idle" => key[c] \in Keys
                     /\ step[c] = "found" => copy[c] \in Entries

LEMMA CommandKeepsTypes ==
  ASSUME OTPTypeOK, HasKey, NEW c \in Clients, CommandOf(c)
  PROVE  OTPTypeOK' /\ HasKey'
<1> USE DEF HasKey
<1>1. ASSUME NEW k \in Keys, SendOTP(c, k) \/ ResendOTP(c, k) PROVE OTPTypeOK' /\ HasKey'
  BY <1>1 DEF SendOTP, ResendOTP, ReadCooldown, Goes, OTPTypeOK
<1>2. ASSUME NEW k \in Keys, ReadCode(c, k) PROVE OTPTypeOK' /\ HasKey'
  BY <1>2 DEF ReadCode, Goes, OTPTypeOK
<1>3. ASSUME NEW k \in Keys, CheckedByProvider(c, k) PROVE OTPTypeOK' /\ HasKey'
  <2>1. k[1] \in Phones /\ pending[k[1]] \in Codes
    BY <1>3 DEF CheckedByProvider, OTPTypeOK
  <2>2. uses' \in [Codes -> Nat] /\ pending' \in [Phones -> Codes \cup {Nothing}]
    BY <1>3, <2>1 DEF CheckedByProvider, OTPTypeOK
  <2> QED
    BY <1>3, <2>2 DEF CheckedByProvider, Goes, OTPTypeOK
<1>4. CASE ReadCooldownAgain(c)
  BY <1>4 DEF ReadCooldownAgain, Goes, OTPTypeOK
<1>5. CASE StoreCode(c)
  BY <1>5 DEF StoreCode, Goes, OTPTypeOK
<1>6. CASE SendByProvider(c)
  BY <1>6 DEF SendByProvider, Goes, Phone, OTPTypeOK
<1>7. CASE SetCooldown(c)
  BY <1>7 DEF SetCooldown, Goes, Phone, OTPTypeOK
<1>8. CASE TooManyTries(c)
  BY <1>8 DEF TooManyTries, WriteEntry, Goes, OTPTypeOK
<1>9. CASE WrongCode(c)
  BY <1>9 DEF WrongCode, Overlapped, Counted, WriteEntry, Goes, OTPTypeOK
<1>10. CASE RightCode(c)
  BY <1>10 DEF RightCode, Overlapped, WriteEntry, Goes, OTPTypeOK
<1>11. CASE AbandonOTP(c)
  BY <1>11 DEF AbandonOTP, Goes, OTPTypeOK
<1> QED
  BY <1>1, <1>2, <1>3, <1>4, <1>5, <1>6, <1>7, <1>8, <1>9, <1>10, <1>11 DEF CommandOf, Commands

LEMMA LeavingKeepsTypes ==
  ASSUME OTPTypeOK, HasKey, NEW c \in Clients, Leaves(c)
  PROVE  OTPTypeOK' /\ HasKey'
  BY DEF Leaves, Goes, HasKey, OTPTypeOK

LEMMA ExpiriesKeepTypes ==
  ASSUME OTPTypeOK, HasKey, Expiries
  PROVE  OTPTypeOK' /\ HasKey'
  BY DEF Expiries, ExpireCode, ExpireCooldown, HasKey, OTPTypeOK

-----------------------------------------------------------------------------
(***************************************************************************)
(* The inductive invariant of the one-time passwords.  A code is at one    *)
(* key, also in the copies that requests have read of it.  While it is     *)
(* stored, one use of it and the attempts its entry still counts are to    *)
(* come: with those that were made they are within what the overlapping    *)
(* attempts so far allow.                                                  *)
(***************************************************************************)
Found(c) == step[c] = "found"

CodesHaveOneKey ==
  /\ \A k, l \in Keys : (stored[k] # Nothing /\ stored[l] # Nothing
                           /\ stored[k].code = stored[l].code) => k = l
  /\ \A k \in Keys, c \in Clients :
       (stored[k] # Nothing /\ Found(c) /\ stored[k].code = copy[c].code) => key[c] = k
  /\ \A c, d \in Clients : (Found(c) /\ Found(d) /\ copy[c].code = copy[d].code) => key[c] = key[d]
  /\ \A p, q \in Phones : (pending[p] # Nothing /\ pending[p] = pending[q]) => p = q

CodesAreIssued ==
  /\ \A k \in Keys : stored[k] # Nothing => stored[k].code \in issued
  /\ \A c \in Clients : Found(c) => copy[c].code \in issued
  /\ \A p \in Phones : pending[p] # Nothing => pending[p] \in issued
  /\ \A x \in Codes \ issued : tries[x] = 0 /\ uses[x] = 0

Allowed(n) == MaxAttempts * (1 + n)

\* Each attempt that overlaps allows another round.
LEMMA AllowedGrows ==
  ASSUME NEW n \in Nat
  PROVE  /\ Allowed(n) \in Int /\ Allowed(0) = MaxAttempts
         /\ Allowed(n + 1) = Allowed(n) + MaxAttempts
<1>1. MaxAttempts * (1 + n) \in Int
  OBVIOUS
<1>2. MaxAttempts * (1 + (n + 1)) = MaxAttempts * (1 + n) + MaxAttempts
  OBVIOUS
<1> QED
  BY <1>1, <1>2 DEF Allowed

IsWithin(x, used, tried) == used <= 1 + overlaps[x] /\ tried <= Allowed(overlaps[x])

StillAllows(entry) ==
  /\ entry.attempts <= MaxAttempts
  /\ IsWithin(entry.code, uses[entry.code] + 1,
              tries[entry.code] + (MaxAttempts - entry.attempts))

EntriesAreTrue ==
  /\ \A k \in Keys : stored[k] # Nothing => StillAllows(stored[k])
  /\ \A p \in Phones : pending[p] # Nothing => tries[pending[p]] = 0 /\ uses[pending[p]] = 0
  /\ \A x \in Codes : IsWithin(x, uses[x], tries[x])

OneProvider ==
  /\ provider = "console" => \A p \in Phones : pending[p] = Nothing
  /\ provider = "twilio" => /\ \A k \in Keys : stored[k] = Nothing
                           /\ \A c \in Clients : ~ Found(c)

OTPInv ==
  /\ OTPTypeOK /\ HasKey /\ OneProvider
  /\ CodesHaveOneKey /\ CodesAreIssued /\ EntriesAreTrue

\* A request that only moves to another stage, and reads nothing, keeps it.
LEMMA MovingOnKeepsCodes ==
  ASSUME OTPInv, NEW c \in Clients, NEW k, NEW s, s # "found", Goes(c, k, s),
         UNCHANGED <<stored, pending, issued, tries, uses, overlaps>>,
         copy' = copy \/ copy' = [copy EXCEPT ![c] = Nothing]
  PROVE  CodesHaveOneKey' /\ CodesAreIssued' /\ EntriesAreTrue'
<1> USE DEF OTPInv, OTPTypeOK, HasKey
<1>1. \A d \in Clients : Found(d)' => /\ d # c /\ Found(d) /\ key'[d] = key[d] /\ copy'[d] = copy[d]
  BY DEF Goes, Found
<1>2. CodesHaveOneKey'
  BY <1>1 DEF CodesHaveOneKey
<1>3. CodesAreIssued'
  BY <1>1 DEF CodesAreIssued
<1>4. EntriesAreTrue'
  BY <1>1 DEF EntriesAreTrue, StillAllows, IsWithin
<1> QED
  BY <1>2, <1>3, <1>4

\* A request that writes an entry: of its own code, or none, to its own key.
LEMMA WritingKeepsCodes ==
  ASSUME OTPInv, NEW c \in Clients, Found(c),
         NEW entry \in Entries \cup {Nothing}, entry # Nothing => entry.code = copy[c].code,
         NEW s, s # "found", WriteEntry(c, entry, s)
  PROVE  /\ CodesHaveOneKey'
         /\ \A k \in Keys : stored'[k] # Nothing =>
              \/ k = key[c] /\ stored'[k] = entry
              \/ stored'[k] = stored[k] /\ stored[k].code # copy[c].code
         /\ \A d \in Clients : Found(d)' => Found(d) /\ key'[d] = key[d] /\ copy'[d] = copy[d]
<1> USE DEF OTPInv, OTPTypeOK, HasKey
<1>1. key[c] \in Keys /\ copy[c] \in Entries
  BY DEF Found
<1>2. \A d \in Clients : Found(d)' => /\ d # c /\ Found(d) /\ key'[d] = key[d] /\ copy'[d] = copy[d]
  BY DEF WriteEntry, Goes, Found
<1>3. \A k \in Keys : stored'[k] = IF k = key[c] THEN entry ELSE stored[k]
  BY <1>1 DEF WriteEntry
<1>4. \A k \in Keys : (k # key[c] /\ stored[k] # Nothing) => stored[k].code # copy[c].code
  BY DEF CodesHaveOneKey
<1>5. CodesHaveOneKey'
  <2>1. pending' = pending
    BY DEF WriteEntry
  <2>2. \A k \in Keys, d \in Clients :
          (stored'[k] # Nothing /\ Found(d)' /\ stored'[k].code = copy'[d].code) => key'[d] = k
    BY <1>1, <1>2, <1>3 DEF CodesHaveOneKey
  <2> QED
    BY <1>2, <1>3, <1>4, <2>1, <2>2 DEF CodesHaveOneKey
<1> QED
  BY <1>2, <1>3, <1>4, <1>5

\* What an attempt may add to: the entry it was decided on, or one more round.
LEMMA AttemptsAreWithin ==
  ASSUME OTPInv, NEW c \in Clients, Found(c), copy[c] \in Entries, Overlapped(c)
  PROVE  LET x == copy[c].code IN
         /\ \A y \in Codes : overlaps'[y] \in Nat /\ (y # x => overlaps'[y] = overlaps[y])
         /\ \/ stored[key[c]] = copy[c] /\ overlaps'[x] = overlaps[x]
            \/ /\ overlaps'[x] = overlaps[x] + 1
               /\ Allowed(overlaps'[x]) = Allowed(overlaps[x]) + MaxAttempts
         /\ Allowed(overlaps[x]) \in Int
<1> DEFINE x == copy[c].code
<1>1. x \in Codes /\ overlaps \in [Codes -> Nat]
  BY DEF OTPInv, OTPTypeOK
<1>2. overlaps' = [overlaps EXCEPT ![x] = IF stored[key[c]] = copy[c] THEN @ ELSE @ + 1]
  BY DEF Overlapped
<1>3. \A n \in Nat : Allowed(n) \in Int /\ Allowed(n + 1) = Allowed(n) + MaxAttempts
  BY AllowedGrows
<1> HIDE DEF x
<1>4. \A y \in Codes : overlaps'[y] \in Nat /\ (y # x => overlaps'[y] = overlaps[y])
  BY <1>1, <1>2
<1>5. \/ stored[key[c]] = copy[c] /\ overlaps'[x] = overlaps[x]
      \/ overlaps'[x] = overlaps[x] + 1
  BY <1>1, <1>2
<1> QED
  BY <1>1, <1>3, <1>4, <1>5 DEF x

\* A code that is wrong: its entry is written back with one more attempt.
LEMMA WrongCodeKeepsCodes ==
  ASSUME OTPInv, NEW c \in Clients, WrongCode(c)
  PROVE  CodesHaveOneKey' /\ CodesAreIssued' /\ EntriesAreTrue'
<1> USE DEF OTPInv, HasKey, OTPTypeOK
<1> DEFINE x == copy[c].code
           entry == Counted(copy[c])
<1>1. Found(c) /\ copy[c] \in Entries /\ x \in Codes /\ x \in issued /\ key[c] \in Keys
  BY DEF WrongCode, Found, CodesAreIssued
<1>2. UNCHANGED <<pending, issued>> /\ \A p \in Phones : pending[p] = Nothing
  BY <1>1 DEF WrongCode, WriteEntry, OneProvider
<1>3. /\ entry \in Entries /\ entry.code = x /\ entry.attempts = copy[c].attempts + 1
      /\ copy[c].attempts < MaxAttempts /\ copy[c].attempts \in Nat
  BY <1>1 DEF Counted, WrongCode, TriesAreLeft
<1>4. WriteEntry(c, entry, "idle") /\ tries' = [tries EXCEPT ![x] = @ + 1] /\ uses' = uses
  BY DEF WrongCode
<1>5. /\ \A y \in Codes : overlaps'[y] \in Nat /\ (y # x => overlaps'[y] = overlaps[y])
      /\ \/ stored[key[c]] = copy[c] /\ overlaps'[x] = overlaps[x]
         \/ /\ overlaps'[x] = overlaps[x] + 1
            /\ Allowed(overlaps'[x]) = Allowed(overlaps[x]) + MaxAttempts
      /\ Allowed(overlaps[x]) \in Int
  BY <1>1, AttemptsAreWithin DEF WrongCode
<1> HIDE DEF entry
<1>6. /\ CodesHaveOneKey'
      /\ \A k \in Keys : stored'[k] # Nothing =>
           \/ k = key[c] /\ stored'[k] = entry
           \/ stored'[k] = stored[k] /\ stored[k].code # x
      /\ \A d \in Clients : Found(d)' => Found(d) /\ key'[d] = key[d] /\ copy'[d] = copy[d]
  BY <1>1, <1>3, <1>4, WritingKeepsCodes
<1>7. \A y \in Codes : tries'[y] = IF y = x THEN tries[x] + 1 ELSE tries[y]
  BY <1>1, <1>4
<1>8. CodesAreIssued'
  BY <1>1, <1>2, <1>3, <1>4, <1>6, <1>7 DEF CodesAreIssued
<1> HIDE DEF x
<1>9. /\ uses[x] \in Nat /\ tries[x] \in Nat /\ overlaps[x] \in Nat
      /\ IsWithin(x, uses[x], tries[x])
      /\ stored[key[c]] = copy[c] => StillAllows(copy[c])
  BY <1>1 DEF EntriesAreTrue, x
<1>10. /\ uses[x] + 1 <= 1 + overlaps'[x]
       /\ tries[x] + 1 + (MaxAttempts - entry.attempts) <= Allowed(overlaps'[x])
  <2>1. CASE stored[key[c]] = copy[c] /\ overlaps'[x] = overlaps[x]
    BY <1>3, <1>5, <1>9, <2>1 DEF IsWithin, StillAllows, x
  <2>2. CASE overlaps'[x] = overlaps[x] + 1 /\ Allowed(overlaps'[x]) = Allowed(overlaps[x]) + MaxAttempts
    BY <1>3, <1>5, <1>9, <2>2 DEF IsWithin
  <2> QED
    BY <1>5, <2>1, <2>2
<1>11. EntriesAreTrue'
  <2>1. ASSUME NEW k \in Keys, stored'[k] # Nothing PROVE StillAllows(stored[k])'
    <3>1. CASE k = key[c] /\ stored'[k] = entry
      <4>1. uses'[x] = uses[x] /\ tries'[x] = tries[x] + 1 /\ entry.attempts <= MaxAttempts
        BY <1>1, <1>3, <1>4, <1>7
      <4> QED
        BY <1>3, <1>10, <3>1, <4>1 DEF StillAllows, IsWithin
    <3>2. CASE stored'[k] = stored[k] /\ stored[k].code # x
      <4>1. stored[k].code \in Codes /\ StillAllows(stored[k])
        BY <2>1, <3>2 DEF EntriesAreTrue
      <4> QED
        BY <1>4, <1>5, <1>7, <3>2, <4>1 DEF StillAllows, IsWithin
    <3> QED
      BY <1>6, <2>1, <3>1, <3>2 DEF x
  <2>2. ASSUME NEW y \in Codes PROVE IsWithin(y, uses[y], tries[y])'
    <3>1. CASE y = x
      <4>1. tries'[x] = tries[x] + 1 /\ uses' = uses /\ MaxAttempts - entry.attempts \in Nat
        BY <1>1, <1>3, <1>4, <1>7
      <4>2. Allowed(overlaps'[x]) \in Int /\ overlaps'[x] \in Nat
        BY <1>1, <1>5, AllowedGrows DEF x
      <4> QED
        BY <1>9, <1>10, <3>1, <4>1, <4>2 DEF IsWithin
    <3>2. CASE y # x
      BY <1>4, <1>5, <1>7, <3>2 DEF EntriesAreTrue, IsWithin
    <3> QED
      BY <3>1, <3>2
  <2> QED
    BY <1>2, <2>1, <2>2 DEF EntriesAreTrue
<1> QED
  BY <1>6, <1>8, <1>11

\* A code that is right, or was tried too often: its entry is deleted.
LEMMA DeletingKeepsCodes ==
  ASSUME OTPInv, NEW c \in Clients, RightCode(c) \/ TooManyTries(c)
  PROVE  CodesHaveOneKey' /\ CodesAreIssued' /\ EntriesAreTrue'
<1> USE DEF OTPInv, HasKey, OTPTypeOK
<1>0. PICK x \in Codes : x = copy[c].code
  BY DEF TooManyTries, RightCode
<1>1. Found(c) /\ copy[c] \in Entries /\ x = copy[c].code /\ x \in issued
  BY <1>0 DEF TooManyTries, RightCode, Found, CodesAreIssued
<1>2. UNCHANGED <<pending, issued, tries>> /\ \A p \in Phones : pending[p] = Nothing
  BY <1>1 DEF TooManyTries, RightCode, WriteEntry, OneProvider
<1>3. PICK s \in {"approved", "idle"} : WriteEntry(c, Nothing, s)
  BY DEF RightCode, TooManyTries
<1>4. /\ CodesHaveOneKey'
      /\ \A k \in Keys : stored'[k] # Nothing => stored'[k] = stored[k] /\ stored[k].code # x
      /\ \A d \in Clients : Found(d)' => Found(d) /\ key'[d] = key[d] /\ copy'[d] = copy[d]
  BY <1>1, <1>3, WritingKeepsCodes
<1>5. /\ uses[x] \in Nat /\ tries[x] \in Nat /\ overlaps[x] \in Nat
      /\ IsWithin(x, uses[x], tries[x])
      /\ stored[key[c]] = copy[c] => StillAllows(copy[c])
  <2>1. key[c] \in Keys
    BY <1>1 DEF Found
  <2> QED
    BY <1>1, <2>1 DEF EntriesAreTrue
<1>6. /\ \A y \in Codes : y # x => overlaps'[y] = overlaps[y] /\ uses'[y] = uses[y]
      /\ IsWithin(x, uses[x], tries[x])'
  <2>1. CASE TooManyTries(c)
    <3>1. uses' = uses /\ tries' = tries /\ overlaps' = overlaps
      BY <2>1 DEF TooManyTries
    <3> QED
      BY <1>5, <3>1 DEF IsWithin
  <2>2. CASE RightCode(c)
    <3>1. /\ \A y \in Codes : overlaps'[y] \in Nat /\ (y # x => overlaps'[y] = overlaps[y])
          /\ \/ stored[key[c]] = copy[c] /\ overlaps'[x] = overlaps[x]
             \/ /\ overlaps'[x] = overlaps[x] + 1
                /\ Allowed(overlaps'[x]) = Allowed(overlaps[x]) + MaxAttempts
          /\ Allowed(overlaps[x]) \in Int
      BY <1>1, <2>2, AttemptsAreWithin DEF RightCode
    <3>2. \A y \in Codes : uses'[y] = IF y = x THEN uses[x] + 1 ELSE uses[y]
      BY <1>1, <2>2 DEF RightCode
    <3>3. CASE stored[key[c]] = copy[c] /\ overlaps'[x] = overlaps[x]
      <4>1. StillAllows(copy[c]) /\ copy[c].code = x
        BY <1>1, <1>5, <3>3
      <4>2. uses[x] + 1 <= 1 + overlaps[x]
        BY <4>1 DEF StillAllows, IsWithin
      <4> QED
        BY <1>1, <1>2, <1>5, <3>2, <3>1, <3>3, <4>2 DEF IsWithin
    <3>4. CASE overlaps'[x] = overlaps[x] + 1 /\ Allowed(overlaps'[x]) = Allowed(overlaps[x]) + MaxAttempts
      <4> QED
        BY <1>1, <1>2, <1>5, <3>1, <3>2, <3>4 DEF IsWithin
    <3> QED
      BY <3>1, <3>2, <3>3, <3>4
  <2> QED
    BY <2>1, <2>2
<1>7. CodesAreIssued'
  BY <1>1, <1>2, <1>4, <1>6 DEF CodesAreIssued
<1>8. EntriesAreTrue'
  <2>1. ASSUME NEW k \in Keys, stored'[k] # Nothing PROVE StillAllows(stored[k])'
    <3>1. stored'[k] = stored[k] /\ stored[k].code \in Codes /\ stored[k].code # x /\ StillAllows(stored[k])
      BY <1>4, <2>1 DEF EntriesAreTrue
    <3> QED
      BY <1>2, <1>6, <3>1 DEF StillAllows, IsWithin
  <2>2. ASSUME NEW y \in Codes PROVE IsWithin(y, uses[y], tries[y])'
    BY <1>2, <1>6 DEF EntriesAreTrue, IsWithin
  <2> QED
    BY <1>2, <2>1, <2>2 DEF EntriesAreTrue
<1> QED
  BY <1>4, <1>7, <1>8

\* A code that is read from its key, or stored for the first time.
LEMMA ReadingKeepsCodes ==
  ASSUME OTPInv, NEW c \in Clients, NEW k \in Keys, ReadCode(c, k)
  PROVE  CodesHaveOneKey' /\ CodesAreIssued' /\ EntriesAreTrue'
<1> USE DEF OTPInv, HasKey, OTPTypeOK
<1>1. \A d \in Clients : Found(d)' =>
        \/ d = c /\ key'[d] = k /\ copy'[d] = stored[k]
        \/ Found(d) /\ key'[d] = key[d] /\ copy'[d] = copy[d]
  BY DEF ReadCode, Goes, Found
<1>2. stored[k] # Nothing /\ UNCHANGED <<stored, pending, issued, tries, uses, overlaps>>
  BY DEF ReadCode
<1>3. CodesHaveOneKey'
  <2> HIDE DEF OTPTypeOK, HasKey, Keys
  <2>1. \A l \in Keys, d \in Clients :
          (stored'[l] # Nothing /\ Found(d)' /\ stored'[l].code = copy'[d].code) => key'[d] = l
    BY <1>1, <1>2 DEF CodesHaveOneKey
  <2>2. \A d, e \in Clients :
          (Found(d)' /\ Found(e)' /\ copy'[d].code = copy'[e].code) => key'[d] = key'[e]
    BY <1>1, <1>2 DEF CodesHaveOneKey
  <2> QED
    BY <1>2, <2>1, <2>2 DEF CodesHaveOneKey
<1>4. CodesAreIssued'
  BY <1>1, <1>2 DEF CodesAreIssued
<1>5. EntriesAreTrue'
  BY <1>2 DEF EntriesAreTrue, StillAllows, IsWithin
<1> QED
  BY <1>3, <1>4, <1>5

\* A code that is generated, and put in the place of another.
LEMMA StoringKeepsCodes ==
  ASSUME OTPInv, NEW c \in Clients, StoreCode(c)
  PROVE  CodesHaveOneKey' /\ CodesAreIssued' /\ EntriesAreTrue'
<1> USE DEF OTPInv, HasKey, OTPTypeOK
<1>1. PICK code \in Codes \ issued :
        /\ stored' = [stored EXCEPT ![key[c]] = [code |-> code, attempts |-> 0]]
        /\ issued' = issued \cup {code}
  BY DEF StoreCode
<1>2. \A d \in Clients : Found(d)' => Found(d) /\ key'[d] = key[d] /\ copy'[d] = copy[d]
  BY DEF StoreCode, Goes, Found
<1>3. UNCHANGED <<pending, tries, uses, overlaps>>
  BY DEF StoreCode
<1>4. key[c] \in Keys
  BY DEF StoreCode
<1>5. \A k \in Keys : stored'[k] = IF k = key[c] THEN [code |-> code, attempts |-> 0] ELSE stored[k]
  BY <1>1, <1>4
<1>6. CodesHaveOneKey'
  BY <1>1, <1>2, <1>3, <1>5 DEF CodesHaveOneKey, CodesAreIssued
<1>7. CodesAreIssued'
  BY <1>1, <1>2, <1>3, <1>5 DEF CodesAreIssued
<1>8. EntriesAreTrue'
  <2>1. StillAllows([code |-> code, attempts |-> 0])
    <3>1. tries[code] = 0 /\ uses[code] = 0 /\ overlaps[code] \in Nat
      BY DEF CodesAreIssued
    <3>2. MaxAttempts <= Allowed(overlaps[code])
      <4> DEFINE n == overlaps[code]
      <4>1. MaxAttempts * n \in Nat /\ MaxAttempts * (1 + n) = MaxAttempts + MaxAttempts * n
        BY <3>1
      <4> QED
        BY <4>1 DEF Allowed
    <3> QED
      BY <3>1, <3>2 DEF StillAllows, IsWithin
  <2>2. \A k \in Keys : stored'[k] # Nothing => StillAllows(stored'[k])
    BY <1>5, <2>1 DEF EntriesAreTrue
  <2> QED
    BY <1>3, <2>2 DEF EntriesAreTrue, StillAllows, IsWithin, CodesAreIssued
<1> QED
  BY <1>6, <1>7, <1>8

\* The provider's code, sent or checked.
LEMMA ProviderKeepsCodes ==
  ASSUME OTPInv, NEW c \in Clients,
         SendByProvider(c) \/ \E k \in Keys : CheckedByProvider(c, k)
  PROVE  CodesHaveOneKey' /\ CodesAreIssued' /\ EntriesAreTrue'
<1> USE DEF OTPInv, HasKey, OTPTypeOK
<1>1. /\ provider = "twilio" /\ \A k \in Keys : stored[k] = Nothing
      /\ \A d \in Clients : ~ Found(d) /\ ~ Found(d)'
      /\ UNCHANGED <<stored, tries, overlaps>>
  BY DEF SendByProvider, CheckedByProvider, OneProvider, Goes, Found
<1>2. CASE SendByProvider(c)
  <2>1. PICK code \in (Codes \ issued) \cup ({pending[Phone(c)]} \ {Nothing}) :
          /\ pending' = [pending EXCEPT ![Phone(c)] = code]
          /\ issued' = issued \cup {code}
    BY <1>2 DEF SendByProvider
  <2>2. uses' = uses /\ Phone(c) \in Phones
    BY <1>2 DEF SendByProvider, Phone
  <2>3. CodesHaveOneKey'
    BY <1>1, <2>1, <2>2 DEF CodesHaveOneKey, CodesAreIssued
  <2>4. CodesAreIssued'
    BY <1>1, <2>1, <2>2 DEF CodesAreIssued
  <2>5. EntriesAreTrue'
    BY <1>1, <2>1, <2>2 DEF EntriesAreTrue, IsWithin, CodesAreIssued
  <2> QED
    BY <2>3, <2>4, <2>5
<1>3. ASSUME NEW k \in Keys, CheckedByProvider(c, k)
      PROVE  CodesHaveOneKey' /\ CodesAreIssued' /\ EntriesAreTrue'
  <2> DEFINE p == k[1]
  <2>1. /\ p \in Phones /\ pending[p] \in Codes /\ issued' = issued
        /\ pending' = [pending EXCEPT ![p] = Nothing]
        /\ uses' = uses \/ uses' = [uses EXCEPT ![pending[p]] = @ + 1]
    BY <1>3 DEF CheckedByProvider
  <2>2. uses[pending[p]] = 0 /\ pending[p] \in issued
    BY <2>1 DEF EntriesAreTrue, CodesAreIssued
  <2> HIDE DEF p
  <2>3. CodesHaveOneKey'
    BY <1>1, <2>1 DEF CodesHaveOneKey
  <2>4. CodesAreIssued'
    BY <1>1, <2>1, <2>2 DEF CodesAreIssued
  <2>5. EntriesAreTrue'
    BY <1>1, <2>1, <2>2 DEF EntriesAreTrue, IsWithin, CodesHaveOneKey
  <2> QED
    BY <2>3, <2>4, <2>5
<1> QED
  BY <1>2, <1>3

\* The service or the provider keeps the codes, never both.
LEMMA ProviderStays ==
  ASSUME OTPInv, NEW c \in Clients, CommandOf(c)
  PROVE  OneProvider'
<1> USE DEF OTPInv, OTPTypeOK, HasKey, OneProvider, Found
<1>1. ASSUME NEW k \in Keys, SendOTP(c, k) \/ ResendOTP(c, k) PROVE OneProvider'
  BY <1>1 DEF SendOTP, ResendOTP, ReadCooldown, Goes
<1>2. ASSUME NEW k \in Keys, ReadCode(c, k) PROVE OneProvider'
  BY <1>2 DEF ReadCode, Goes
<1>3. ASSUME NEW k \in Keys, CheckedByProvider(c, k) PROVE OneProvider'
  BY <1>3 DEF CheckedByProvider, Goes
<1>4. CASE ReadCooldownAgain(c)
  BY <1>4 DEF ReadCooldownAgain, Goes
<1>5. CASE StoreCode(c)
  BY <1>5 DEF StoreCode, Goes
<1>6. CASE SendByProvider(c)
  BY <1>6 DEF SendByProvider, Goes
<1>7. CASE SetCooldown(c)
  BY <1>7 DEF SetCooldown, Goes
<1>8. CASE TooManyTries(c) \/ WrongCode(c) \/ RightCode(c)
  BY <1>8 DEF TooManyTries, WrongCode, RightCode, WriteEntry, Goes
<1>9. CASE AbandonOTP(c)
  BY <1>9 DEF AbandonOTP, Goes
<1> QED
  BY <1>1, <1>2, <1>3, <1>4, <1>5, <1>6, <1>7, <1>8, <1>9 DEF CommandOf, Commands

LEMMA CommandKeepsInv ==
  ASSUME OTPInv, NEW c \in Clients, CommandOf(c)
  PROVE  OTPInv'
<1> DEFINE CodesKeep == CodesHaveOneKey' /\ CodesAreIssued' /\ EntriesAreTrue'
<1>1. OTPTypeOK' /\ HasKey' /\ OneProvider'
  BY CommandKeepsTypes, ProviderStays DEF OTPInv
<1>2. ASSUME NEW k \in Keys, SendOTP(c, k) \/ ResendOTP(c, k) PROVE CodesKeep
  <2>1. PICK s \in {"clear", "asked"} : ReadCooldown(c, k, s)
    BY <1>2 DEF SendOTP, ResendOTP
  <2> QED
    BY <2>1, MovingOnKeepsCodes DEF ReadCooldown
<1>3. ASSUME NEW k \in Keys, ReadCode(c, k) PROVE CodesKeep
  BY <1>3, ReadingKeepsCodes
<1>4. ASSUME NEW k \in Keys, CheckedByProvider(c, k) PROVE CodesKeep
  BY <1>4, ProviderKeepsCodes
<1>5. ASSUME ReadCooldownAgain(c) PROVE CodesKeep
  <2>1. PICK s \in {"clear", "idle"} : Goes(c, key[c], s)
    BY <1>5 DEF ReadCooldownAgain
  <2> QED
    BY <1>5, <2>1, MovingOnKeepsCodes DEF ReadCooldownAgain
<1>6. ASSUME StoreCode(c) PROVE CodesKeep
  BY <1>6, StoringKeepsCodes
<1>7. ASSUME SendByProvider(c) PROVE CodesKeep
  BY <1>7, ProviderKeepsCodes
<1>8. ASSUME SetCooldown(c) PROVE CodesKeep
  BY <1>8, MovingOnKeepsCodes DEF SetCooldown
<1>9. ASSUME TooManyTries(c) \/ WrongCode(c) \/ RightCode(c) PROVE CodesKeep
  BY <1>9, WrongCodeKeepsCodes, DeletingKeepsCodes
<1>10. ASSUME AbandonOTP(c) PROVE CodesKeep
  BY <1>10, MovingOnKeepsCodes DEF AbandonOTP
<1>11. CodesKeep
  BY <1>2, <1>3, <1>4, <1>5, <1>6, <1>7, <1>8, <1>9, <1>10 DEF CommandOf, Commands
<1> QED
  BY <1>1, <1>11 DEF OTPInv

LEMMA LeavingKeepsInv ==
  ASSUME OTPInv, NEW c \in Clients, Leaves(c)
  PROVE  OTPInv'
<1>1. OTPTypeOK' /\ HasKey'
  BY LeavingKeepsTypes DEF OTPInv
<1>2. OneProvider'
  BY DEF OTPInv, OTPTypeOK, OneProvider, Found, Leaves, Goes
<1> QED
  BY <1>1, <1>2, MovingOnKeepsCodes DEF Leaves, OTPInv

\* What expires is gone: nothing is written.
LEMMA ExpiriesKeepInv ==
  ASSUME OTPInv, Expiries
  PROVE  OTPInv'
<1> USE DEF OTPInv
<1>1. OTPTypeOK' /\ HasKey'
  BY ExpiriesKeepTypes
<1>2. \A k \in Keys : stored'[k] = stored[k] \/ stored'[k] = Nothing
  BY DEF OTPTypeOK, Expiries, ExpireCode, ExpireCooldown
<1>3. UNCHANGED <<provider, pending, step, key, copy, issued, tries, uses, overlaps>>
  BY DEF Expiries, ExpireCode, ExpireCooldown
<1>4. OneProvider'
  BY <1>2, <1>3 DEF OneProvider, Found
<1>5. CodesHaveOneKey'
  BY <1>2, <1>3 DEF CodesHaveOneKey, Found
<1>6. CodesAreIssued' /\ EntriesAreTrue'
  BY <1>2, <1>3 DEF CodesAreIssued, EntriesAreTrue, StillAllows, IsWithin, Found
<1> QED
  BY <1>1, <1>4, <1>5, <1>6

LEMMA OTPUnchanged ==
  ASSUME OTPInv, UNCHANGED otpVars
  PROVE  OTPInv'
  BY DEF otpVars, OTPInv, OTPTypeOK, HasKey, OneProvider, CodesHaveOneKey, CodesAreIssued,
         EntriesAreTrue, StillAllows, IsWithin, Found

LEMMA InitOTPInv == OTPInit => OTPInv
<1> SUFFICES ASSUME OTPInit PROVE OTPInv
  OBVIOUS
<1>1. EntriesAreTrue
  BY AllowedGrows DEF OTPInit, EntriesAreTrue, IsWithin
<1> QED
  BY <1>1 DEF OTPInit, OTPInv, OTPTypeOK, HasKey, OneProvider, CodesHaveOneKey, CodesAreIssued, Found

-----------------------------------------------------------------------------
(***************************************************************************)
(* Every step of Accounts is a command, an expiry, the step from a code to *)
(* its user, or leaves Redis alone.                                        *)
(***************************************************************************)
LEMMA StepsOfRedis ==
  ASSUME [Next]_vars
  PROVE  \/ \E c \in Clients : CommandOf(c) \/ Leaves(c)
         \/ Expiries
         \/ UNCHANGED otpVars
<1>1. ASSUME NEW c \in Clients, OneTimePassword(c) PROVE CommandOf(c)
  BY <1>1 DEF OneTimePassword, CommandOf
<1>2. ASSUME NEW c \in Clients, Reading(c) PROVE Leaves(c) \/ UNCHANGED otpVars
  <2>1. CASE FindUser(c)
    BY <2>1 DEF FindUser, Leaves
  <2>2. CASE ~ FindUser(c)
    BY <1>2, <2>2 DEF Reading, AdminLogin, ResetAdminPassword, ChangeAdminPassword, ReadSession,
              Logout, LogoutAll, RevokeUserSessions, ReadsSessions, AdminStatus
  <2> QED
    BY <2>1, <2>2
<1>3. ASSUME NEW c \in Clients, Committing(c) PROVE UNCHANGED otpVars
  BY <1>3 DEF Committing, CommitSession, CommitRevocation, CommitStatus, Rollback
<1>4. ASSUME \/ \E s \in Sessions : ExpireSession(s)
             \/ \E u \in Users : UpdateUser(u)
             \/ \E a \in Admins : CreateAdmin(a)
      PROVE  UNCHANGED otpVars
  BY <1>4 DEF ExpireSession, UpdateUser, CreateAdmin
<1>5. CASE UNCHANGED vars
  BY <1>5 DEF vars
<1> QED
  BY <1>1, <1>2, <1>3, <1>4, <1>5 DEF Next

LEMMA NextOTPInv == OTPInv /\ [Next]_vars => OTPInv'
  BY StepsOfRedis, CommandKeepsInv, LeavingKeepsInv, ExpiriesKeepInv, OTPUnchanged

\* However requests overlap, a code is used once, and tried otp_max_attempts times,
\* and for each attempt decided on an entry that had changed since once more, and
\* as often more (OTPService.verify_otp).
THEOREM CodesStayLimited == Spec => []CodesAreLimited
<1>1. Init => OTPInv
  BY InitOTPInv DEF Init
<1>2. OTPInv => CodesAreLimited
  BY DEF OTPInv, EntriesAreTrue, IsWithin, Allowed, CodesAreLimited
<1> QED
  BY <1>1, <1>2, NextOTPInv, PTL DEF Spec

-----------------------------------------------------------------------------
(***************************************************************************)
(* Types of accounts, sessions and requests.                               *)
(***************************************************************************)
Jobs == Openings \cup Revocations \cup Statuses \cup {Nothing}

\* What a request puts down to be committed is an opening, a revocation or a status.
LEMMA JobTypes ==
  ASSUME TypeOK
  PROVE  /\ \A u \in Users : SignIn(u) \in Openings
         /\ \A s \in Sessions : Exists(s) => Refresh(s) \in Openings
         /\ \A c \in Clients : Does(c, "signIn") \/ Does(c, "refresh") => job[c] \in Openings
         /\ \A c \in Clients : Does(c, "revoke") => job[c] \in Revocations
         /\ \A c \in Clients : Does(c, "status") => job[c] \in Statuses
<1>1. \A u \in Users : SignIn(u) \in Openings
  BY DEF TypeOK, SignIn, Openings
<1>2. \A s \in Sessions : Exists(s) => Refresh(s) \in Openings
  BY DEF TypeOK, Exists, Rows, Refresh, Openings
<1>3. \A c \in Clients : Does(c, "signIn") \/ Does(c, "refresh") => job[c] \in Openings
  BY DEF TypeOK, Does, Openings, Revocations, Statuses
<1>4. \A c \in Clients : Does(c, "revoke") => job[c] \in Revocations
  BY DEF TypeOK, Does, Openings, Revocations, Statuses
<1>5. \A c \in Clients : Does(c, "status") => job[c] \in Statuses
  BY DEF TypeOK, Does, Openings, Revocations, Statuses
<1> QED
  BY <1>1, <1>2, <1>3, <1>4, <1>5

LEMMA StartingKeepsTypes ==
  ASSUME TypeOK, OTPTypeOK', NEW c \in Clients, NEW j \in Jobs, Starts(c, j),
         UNCHANGED <<account, session, logouts>>, raced' \in SUBSET Sessions
  PROVE  TypeOK'
<1>1. job' \in [Clients -> Jobs]
  BY DEF TypeOK, Jobs, Starts
<1> QED
  BY <1>1 DEF TypeOK, Jobs

\* A request that reads puts down a job and changes no row.
LEMMA ReadingKeepsTypes ==
  ASSUME TypeOK, OTPInv, OTPTypeOK', NEW c \in Clients, Reading(c)
  PROVE  TypeOK'
<1> USE DEF Jobs
<1>1. CASE FindUser(c)
  <2>1. key[c] \in Users
    BY <1>1 DEF FindUser, OTPInv, HasKey, Users
  <2> QED
    BY <1>1, <2>1, JobTypes, StartingKeepsTypes DEF FindUser, TypeOK
<1>2. ASSUME NEW a \in Admins, AdminLogin(c, a) PROVE TypeOK'
  <2>1. a \in Users
    BY DEF Users
  <2> QED
    BY <1>2, <2>1, JobTypes, StartingKeepsTypes DEF AdminLogin, TypeOK
<1>3. ASSUME NEW s \in Sessions, ReadSession(c, s) PROVE TypeOK'
  <2>1. Exists(s) /\ raced' \in SUBSET Sessions
    BY <1>3 DEF ReadSession, Unrevoked, IsLive, TypeOK
  <2> QED
    BY <1>3, <2>1, JobTypes, StartingKeepsTypes DEF ReadSession
<1>4. ASSUME NEW u \in Users, NEW targets \in SUBSET Sessions, NEW all \in BOOLEAN,
             ReadsSessions(c, u, targets, all)
      PROVE  TypeOK'
  <2>1. [op |-> "revoke", user |-> u, targets |-> targets, all |-> all] \in Revocations
    BY DEF Revocations
  <2> QED
    BY <1>4, <2>1, StartingKeepsTypes DEF ReadsSessions, TypeOK
<1>5. ASSUME NEW s \in Sessions, Logout(c, s) PROVE TypeOK'
  <2>1. session[s].user \in Users
    BY <1>5 DEF Logout, IsLive, Exists, TypeOK, Rows
  <2> QED
    BY <1>4, <1>5, <2>1 DEF Logout
<1>6. ASSUME NEW u \in Users, LogoutAll(c, u) \/ RevokeUserSessions(c, u) PROVE TypeOK'
  <2>1. LiveOf(u) \in SUBSET Sessions
    BY DEF LiveOf
  <2> QED
    BY <1>4, <1>6, <2>1 DEF LogoutAll, RevokeUserSessions
<1>7. ASSUME NEW a \in Admins, ResetAdminPassword(c, a) \/ ChangeAdminPassword(c, a) PROVE TypeOK'
  BY <1>6, <1>7 DEF ResetAdminPassword, ChangeAdminPassword, Users
<1>8. ASSUME NEW a \in Admins, AdminStatus(c, a) PROVE TypeOK'
  BY <1>8, StartingKeepsTypes DEF AdminStatus, Statuses, TypeOK
<1> QED
  BY <1>1, <1>2, <1>3, <1>5, <1>6, <1>7, <1>8 DEF Reading

\* A request that commits writes rows of their type.
LEMMA CommittingKeepsTypes ==
  ASSUME TypeOK, OTPTypeOK', NEW c \in Clients, Committing(c)
  PROVE  TypeOK'
<1>1. CASE CommitSession(c)
  <2> DEFINE j == job[c]
  <2>1. j \in Openings
    BY <1>1, JobTypes DEF CommitSession
  <2>2. NewSession(j) \in Rows
    <3> HIDE DEF j
    <3> QED BY <2>1 DEF NewSession, Openings, Rows, TypeOK
  <2>3. \A s \in Sessions : Revoked(session[s]) \in Rows \cup {Nothing}
    BY DEF Revoked, Rows, TypeOK
  <2>4. session' \in [Sessions -> Rows \cup {Nothing}]
    BY <1>1, <2>2, <2>3 DEF CommitSession, RowsAfter, TypeOK
  <2>5. account' \in [Users -> {"absent", "active", "inactive"}]
    BY <1>1 DEF CommitSession, TypeOK
  <2>6. job' \in [Clients -> Jobs] /\ UNCHANGED <<logouts, raced>>
    BY <1>1 DEF CommitSession, Starts, Jobs, TypeOK
  <2> QED
    BY <2>4, <2>5, <2>6 DEF TypeOK, Jobs
<1>2. CASE CommitRevocation(c)
  <2>1. job[c].user \in Users
    BY <1>2, JobTypes DEF CommitRevocation, Revocations
  <2>2. \A s \in Sessions : Revoked(session[s]) \in Rows \cup {Nothing}
    BY DEF Revoked, Rows, TypeOK
  <2>3. session' \in [Sessions -> Rows \cup {Nothing}]
    BY <1>2, <2>2 DEF CommitRevocation, WithoutTargets, TypeOK
  <2>4. logouts' \in [Users -> Nat]
    BY <1>2, <2>1 DEF CommitRevocation, TypeOK
  <2>5. job' \in [Clients -> Jobs] /\ UNCHANGED <<account, raced>>
    BY <1>2 DEF CommitRevocation, Starts, Jobs, TypeOK
  <2> QED
    BY <2>3, <2>4, <2>5 DEF TypeOK, Jobs
<1>3. CASE Rollback(c)
  BY <1>3, StartingKeepsTypes DEF Rollback, Jobs, TypeOK
<1>4. CASE CommitStatus(c)
  <2>1. job[c].user \in Users /\ job[c].state \in {"active", "inactive"}
    BY <1>4, JobTypes DEF CommitStatus, Statuses, Users
  <2>2. account' \in [Users -> {"absent", "active", "inactive"}]
    BY <1>4, <2>1 DEF CommitStatus, TypeOK
  <2>3. job' \in [Clients -> Jobs] /\ UNCHANGED <<session, logouts, raced>>
    BY <1>4 DEF CommitStatus, Starts, Jobs, TypeOK
  <2> QED
    BY <2>2, <2>3 DEF TypeOK, Jobs
<1> QED
  BY <1>1, <1>2, <1>3, <1>4 DEF Committing

LEMMA NextTypeOK == TypeOK /\ OTPInv /\ [Next]_vars => TypeOK'
<1> SUFFICES ASSUME TypeOK, OTPInv, [Next]_vars PROVE TypeOK'
  OBVIOUS
<1>0. OTPTypeOK'
  BY NextOTPInv DEF OTPInv
<1>1. CASE UNCHANGED accountVars
  BY <1>0, <1>1 DEF accountVars, TypeOK
<1>2. ASSUME NEW c \in Clients, Reading(c) PROVE TypeOK'
  BY <1>0, <1>2, ReadingKeepsTypes
<1>3. ASSUME NEW c \in Clients, Committing(c) PROVE TypeOK'
  BY <1>0, <1>3, CommittingKeepsTypes
<1>4. ASSUME NEW s \in Sessions, ExpireSession(s) PROVE TypeOK'
  <2>1. Revoked(session[s]) \in Rows
    BY <1>4 DEF ExpireSession, IsLive, Exists, Revoked, Rows, TypeOK
  <2> QED
    BY <1>0, <1>4, <2>1 DEF ExpireSession, TypeOK
<1>5. ASSUME \/ \E u \in Users : UpdateUser(u)
             \/ \E a \in Admins : CreateAdmin(a)
      PROVE  TypeOK'
  BY <1>0, <1>5 DEF UpdateUser, CreateAdmin, TypeOK
<1> QED
  BY <1>1, <1>2, <1>3, <1>4, <1>5 DEF Next, OneTimePassword, vars, accountVars

\* Every variable keeps its type.
THEOREM Typing == Spec => []TypeOK
<1>1. Init => TypeOK /\ OTPInv
  BY InitOTPInv DEF Init, TypeOK, OTPInv
<1> QED
  BY <1>1, NextTypeOK, NextOTPInv, PTL DEF Spec

-----------------------------------------------------------------------------
(***************************************************************************)
(* The inductive invariant of the sessions.  A refresh that is under way   *)
(* either is alone with its session, or has been noted in raced; so is one *)
(* whose session was followed meanwhile.  A logout that has read misses no *)
(* live session but those that straddle it.                                *)
(***************************************************************************)
SessionsExist ==
  /\ \A c \in Clients : Does(c, "signIn") => job[c].parent = Nothing
  /\ \A c \in Clients : Does(c, "refresh") => job[c].parent \in Sessions /\ Exists(job[c].parent)
  /\ \A s \in Sessions : Exists(s) /\ session[s].parent # Nothing => Exists(session[s].parent)

RacesAreNoted ==
  /\ \A c, d \in Clients :
       (c # d /\ Does(c, "refresh") /\ Does(d, "refresh") /\ job[c].parent = job[d].parent)
         => job[c].parent \in raced
  /\ \A c \in Clients, s \in Sessions :
       (Does(c, "refresh") /\ Exists(s) /\ session[s].parent = job[c].parent)
         => job[c].parent \in raced

LogoutsReachAll ==
  \A c \in Clients, s \in Sessions :
    (/\ Does(c, "revoke") /\ job[c].all
     /\ IsLive(s) /\ ~ session[s].straddled /\ session[s].user = job[c].user)
       => s \in job[c].targets

SessionInv ==
  SessionsExist /\ RacesAreNoted /\ RotationIsLinear /\ LogoutsReachAll /\ LogoutAllHolds

\* Revoking a row ends it and changes neither its user nor its parent.
LEMMA RevokedRow ==
  ASSUME NEW row \in Rows \cup {Nothing}
  PROVE  /\ Revoked(row) \in Rows \cup {Nothing}
         /\ Revoked(row) = Nothing <=> row = Nothing
         /\ row # Nothing => /\ Revoked(row).parent = row.parent
                             /\ ~ Revoked(row).live
<1>1. CASE row = Nothing
  BY <1>1 DEF Revoked
<1>2. CASE row # Nothing
  <2>1. row \in Rows
    BY <1>2
  <2>2. Revoked(row) = [row EXCEPT !.live = FALSE, !.since = 0, !.straddled = FALSE]
    BY <1>2 DEF Revoked
  <2>3. Revoked(row) = [user |-> row.user, parent |-> row.parent, live |-> FALSE,
                        since |-> 0, straddled |-> FALSE]
    BY <2>1, <2>2 DEF Rows
  <2>4. row.user \in Users /\ row.parent \in Sessions \cup {Nothing}
    BY <2>1 DEF Rows
  <2>5. Revoked(row) \in Rows
    BY <2>3, <2>4 DEF Rows
  <2>6. Revoked(row).parent = row.parent /\ Revoked(row).live = FALSE
    BY <2>3
  <2> QED
    BY <1>2, <2>1, <2>5, <2>6
<1> QED
  BY <1>1, <1>2

\* The rows there are, and the parents they name.
LEMMA RowTypes ==
  ASSUME TypeOK, NEW s \in Sessions
  PROVE  /\ session[s] \in Rows \cup {Nothing}
         /\ session[s] # Nothing => session[s].parent \in Sessions \cup {Nothing}
  BY DEF TypeOK, Rows

\* What starts or ends with no row written: everything else is as it was.
LEMMA StartingKeepsSessions ==
  ASSUME TypeOK, SessionInv, NEW c \in Clients, NEW j, Starts(c, j),
         UNCHANGED <<session, logouts>>, raced \subseteq raced',
         j # Nothing =>
           \/ j.op = "signIn" /\ j.parent = Nothing
           \/ j.op = "refresh" /\ j.parent \in Sessions /\ IsLive(j.parent)
                /\ ((\E d \in Clients : IsRefreshing(d, j.parent)) => j.parent \in raced')
           \/ j.op = "revoke" /\ (j.all => LiveOf(j.user) \subseteq j.targets)
           \/ j.op = "status"
  PROVE  SessionInv'
<1> USE DEF SessionInv
<1>1. \A d \in Clients : job'[d] = IF d = c THEN j ELSE job[d]
  BY DEF Starts, TypeOK
<1>3. SessionsExist'
  <2>1. ASSUME NEW d \in Clients, Does(d, "signIn")' PROVE job'[d].parent = Nothing
    BY <1>1, <2>1 DEF SessionsExist, Does
  <2>2. ASSUME NEW d \in Clients, Does(d, "refresh")'
        PROVE  job'[d].parent \in Sessions /\ session'[job'[d].parent] # Nothing
    BY <1>1, <2>2 DEF SessionsExist, Does, IsLive, Exists
  <2> QED
    BY <2>1, <2>2 DEF SessionsExist, Exists
<1>4. RacesAreNoted'
  <2>1. ASSUME NEW d \in Clients, NEW e \in Clients, d # e,
               Does(d, "refresh")', Does(e, "refresh")', job'[d].parent = job'[e].parent
        PROVE  job'[d].parent \in raced'
    BY <1>1, <2>1 DEF RacesAreNoted, Does, IsRefreshing
  <2>2. ASSUME NEW d \in Clients, NEW s \in Sessions,
               Does(d, "refresh")', Exists(s), session[s].parent = job'[d].parent
        PROVE  job'[d].parent \in raced'
    <3>1. CASE d = c
      <4>1. j # Nothing /\ j.op = "refresh" /\ j.parent \in Sessions /\ IsLive(j.parent)
        BY <1>1, <2>2, <3>1 DEF Does
      <4>2. session[s].parent # Nothing /\ ~ IsLive(session[s].parent)
        BY <1>1, <2>2, <3>1, <4>1, AccountsAssumption DEF RotationIsLinear
      <4> QED
        BY <1>1, <2>2, <3>1, <4>1, <4>2
    <3>2. CASE d # c
      BY <1>1, <2>2, <3>2 DEF RacesAreNoted, Does
    <3> QED
      BY <3>1, <3>2
  <2> QED
    BY <2>1, <2>2 DEF RacesAreNoted, Exists
<1>5. RotationIsLinear'
  BY DEF RotationIsLinear, IsLive, Exists
<1>6. LogoutsReachAll'
  <2> SUFFICES ASSUME NEW d \in Clients, NEW s \in Sessions, Does(d, "revoke")', job'[d].all,
                      IsLive(s), ~ session[s].straddled, session[s].user = job'[d].user
               PROVE  s \in job'[d].targets
    BY DEF LogoutsReachAll, IsLive, Exists
  <2> QED
    BY <1>1 DEF LogoutsReachAll, LiveOf, Does
<1>7. LogoutAllHolds'
  BY DEF LogoutAllHolds, IsLive, Exists
<1> QED
  BY <1>3, <1>4, <1>5, <1>6, <1>7

\* Sessions that end while nobody's job changes, or with the job that ends them.
LEMMA EndingKeepsSessions ==
  ASSUME TypeOK, SessionInv, NEW S \in SUBSET Sessions,
         session' = [s \in Sessions |-> IF s \in S THEN Revoked(session[s]) ELSE session[s]],
         job' = job \/ \E c \in Clients : Starts(c, Nothing),
         UNCHANGED raced
  PROVE  /\ SessionsExist' /\ RacesAreNoted' /\ RotationIsLinear' /\ LogoutsReachAll'
         /\ \A s \in Sessions : IsLive(s)' => s \notin S /\ IsLive(s) /\ session'[s] = session[s]
<1> USE DEF SessionInv
<1>1. \A d \in Clients : job'[d] = job[d] \/ job'[d] = Nothing
  BY DEF Starts, TypeOK
<1>2. \A s \in Sessions : /\ (session'[s] # Nothing) <=> (session[s] # Nothing)
                          /\ session[s] # Nothing => session'[s].parent = session[s].parent
  BY RevokedRow, RowTypes
<1>3. \A s \in Sessions : IsLive(s)' => s \notin S /\ IsLive(s) /\ session'[s] = session[s]
  BY RevokedRow, RowTypes DEF Exists, IsLive
<1>4. SessionsExist'
  <2>1. \A s \in Sessions : (session'[s] # Nothing /\ session'[s].parent # Nothing)
                              => session'[session'[s].parent] # Nothing
    BY <1>2, RowTypes DEF SessionsExist, Exists
  <2>2. \A d \in Clients : Does(d, "signIn")' => job'[d].parent = Nothing
    BY <1>1 DEF SessionsExist, Does
  <2>3. \A d \in Clients : Does(d, "refresh")' =>
          job'[d].parent \in Sessions /\ session'[job'[d].parent] # Nothing
    BY <1>1, <1>2 DEF SessionsExist, Does, Exists
  <2> QED
    BY <2>1, <2>2, <2>3 DEF SessionsExist, Exists
<1>5. RacesAreNoted'
  BY <1>1, <1>2 DEF RacesAreNoted, Does, Exists
<1>6. RotationIsLinear'
  <2> SUFFICES ASSUME NEW s \in Sessions, NEW t \in Sessions, NEW p \in Sessions,
                      session'[s] # Nothing, session'[s].parent = p
               PROVE  /\ ~ IsLive(p)'
                      /\ (s # t /\ session'[t] # Nothing /\ session'[t].parent = p) => p \in raced'
    <3>1. \A s \in Sessions : session'[s] # Nothing => session'[s].parent \in Sessions \cup {Nothing}
      BY <1>2, RowTypes
    <3> QED
      BY <3>1 DEF RotationIsLinear, Exists, IsLive
  <2>1. Exists(s) /\ session[s].parent = p /\ session[s].parent # Nothing
    BY <1>2, AccountsAssumption DEF Exists
  <2> QED
    BY <1>2, <1>3, <2>1 DEF RotationIsLinear, Exists
<1>7. LogoutsReachAll'
  BY <1>1, <1>3 DEF LogoutsReachAll, Does
<1> QED
  BY <1>3, <1>4, <1>5, <1>6, <1>7

\* A session is opened, in the place of the one it was refreshed from.
LEMMA OpeningKeepsSessions ==
  ASSUME TypeOK, SessionInv, NEW c \in Clients, CommitSession(c)
  PROVE  SessionInv'
<1> USE DEF SessionInv
<1> DEFINE j == job[c]
<1>1. /\ j \in Openings /\ Starts(c, Nothing) /\ UNCHANGED <<logouts, raced>>
      /\ Does(c, "signIn") \/ Does(c, "refresh")
  BY JobTypes DEF CommitSession
<1>2. CASE session' = session
  BY <1>1, <1>2, StartingKeepsSessions
<1>3. ASSUME NEW new \in Sessions, ~ Exists(new), session' = RowsAfter(j, new)
      PROVE  SessionInv'
  <2> DEFINE row == NewSession(j)
  <2>1. \A d \in Clients : job'[d] = IF d = c THEN Nothing ELSE job[d]
    BY <1>1 DEF Starts, TypeOK
  <2>2. \A s \in Sessions : session'[s] = IF s = new THEN row
                                          ELSE IF s = j.parent THEN Revoked(session[s]) ELSE session[s]
    BY <1>3 DEF RowsAfter
  <2>3. \/ j.parent = Nothing /\ Does(c, "signIn")
        \/ j.parent \in Sessions /\ session[j.parent] # Nothing /\ j.parent # new /\ Does(c, "refresh")
    BY <1>1, <1>3 DEF SessionsExist, Exists
  <2>4. /\ row.live /\ row.parent = j.parent /\ row.user = j.user /\ row.since = j.since
        /\ row # Nothing /\ row.parent \in Sessions \cup {Nothing}
        /\ ~ row.straddled => ~ LogoutUnderWay(j.user) /\ logouts[j.user] = j.since
    <3> HIDE DEF j
    <3>1. NewSession(j) \in Rows
      BY <1>1 DEF NewSession, Openings, Rows, TypeOK
    <3> QED
      BY <3>1 DEF NewSession, Rows
  <2> HIDE DEF row
  <2>5. \A s \in Sessions : session[s] # Nothing =>
          s # new /\ session'[s] # Nothing /\ session'[s].parent = session[s].parent
    BY <1>3, <2>2, RevokedRow, RowTypes DEF Exists
  <2>6. \A s \in Sessions : session'[s] # Nothing <=> (s = new \/ session[s] # Nothing)
    BY <2>2, <2>4, RevokedRow, RowTypes
  <2>7. \A s \in Sessions : IsLive(s)' =>
          s = new \/ (s # j.parent /\ IsLive(s) /\ session'[s] = session[s])
    BY <2>2, RevokedRow, RowTypes DEF IsLive, Exists
  <2>8. session'[new] = row
    BY <2>2
  <2>9. \A s \in Sessions : session'[s] # Nothing /\ session'[s].parent # Nothing =>
          /\ session'[s].parent \in Sessions /\ session[session'[s].parent] # Nothing
          /\ s = new => session'[s].parent = j.parent
          /\ s # new => session[s] # Nothing /\ session[s].parent = session'[s].parent
    <3> SUFFICES ASSUME NEW s \in Sessions, session'[s] # Nothing, session'[s].parent # Nothing
                 PROVE  /\ session'[s].parent \in Sessions /\ session[session'[s].parent] # Nothing
                        /\ s = new => session'[s].parent = j.parent
                        /\ s # new => session[s] # Nothing /\ session[s].parent = session'[s].parent
      OBVIOUS
    <3>1. CASE s = new
      BY <2>3, <2>4, <2>8, <3>1
    <3>2. CASE s # new
      BY <2>5, <2>6, <3>2, RowTypes DEF SessionsExist, Exists
    <3> QED
      BY <3>1, <3>2
  <2> HIDE DEF j
  <2>10. SessionsExist'
    <3>1. \A d \in Clients : Does(d, "signIn")' => job'[d].parent = Nothing
      BY <2>1 DEF SessionsExist, Does
    <3>2. \A d \in Clients : Does(d, "refresh")' =>
            job'[d].parent \in Sessions /\ session'[job'[d].parent] # Nothing
      BY <2>1, <2>6 DEF SessionsExist, Does, Exists
    <3>3. \A s \in Sessions : session'[s] # Nothing /\ session'[s].parent # Nothing =>
            session'[session'[s].parent] # Nothing
      BY <2>6, <2>9
    <3> QED
      BY <3>1, <3>2, <3>3 DEF SessionsExist, Exists
  <2>11. RacesAreNoted'
    <3>1. ASSUME NEW d \in Clients, NEW s \in Sessions,
                 Does(d, "refresh")', session'[s] # Nothing, session'[s].parent = job'[d].parent
          PROVE  job'[d].parent \in raced
      <4>1. d # c /\ Does(d, "refresh") /\ job'[d] = job[d] /\ job[d].parent \in Sessions
        BY <2>1, <3>1 DEF Does, SessionsExist
      <4>2. session'[s].parent # Nothing
        BY <3>1, <4>1, AccountsAssumption
      <4>3. CASE s = new
        <5>1. j.parent = job[d].parent /\ Does(c, "refresh")
          BY <2>3, <2>9, <3>1, <4>1, <4>2, <4>3
        <5> QED
          BY <4>1, <5>1 DEF RacesAreNoted, j
      <4>4. CASE s # new
        BY <2>9, <3>1, <4>1, <4>2, <4>4 DEF RacesAreNoted, Exists
      <4> QED
        BY <4>3, <4>4
    <3>2. ASSUME NEW d \in Clients, NEW e \in Clients, d # e,
                 Does(d, "refresh")', Does(e, "refresh")', job'[d].parent = job'[e].parent
          PROVE  job'[d].parent \in raced
      BY <2>1, <3>2 DEF RacesAreNoted, Does
    <3> QED
      BY <1>1, <3>1, <3>2 DEF RacesAreNoted, Exists
  <2>12. RotationIsLinear'
    <3> SUFFICES ASSUME NEW s \in Sessions, NEW t \in Sessions, NEW p \in Sessions,
                        session'[s] # Nothing, session'[s].parent = p
                 PROVE  /\ ~ IsLive(p)'
                        /\ (s # t /\ session'[t] # Nothing /\ session'[t].parent = p) => p \in raced
      BY <1>1, <2>9 DEF RotationIsLinear, Exists, IsLive
    <3>1. p # Nothing /\ p # new /\ session[p] # Nothing
      BY <1>3, <2>9, AccountsAssumption DEF Exists
    <3>2. ~ IsLive(p)'
      <4>1. CASE s = new
        BY <2>7, <2>9, <3>1, <4>1
      <4>2. CASE s # new
        BY <2>7, <2>9, <3>1, <4>2 DEF RotationIsLinear, Exists
      <4> QED
        BY <4>1, <4>2
    <3>3. ASSUME NEW a \in Sessions, a # new, session'[a] # Nothing, session'[a].parent = p,
                 j.parent = p
          PROVE  p \in raced
      <4>1. Does(c, "refresh") /\ session[a] # Nothing /\ session[a].parent = p
        BY <2>3, <2>9, <3>1, <3>3
      <4> QED
        BY <3>3, <4>1 DEF RacesAreNoted, Exists, j
    <3>4. ASSUME s # t, session'[t] # Nothing, session'[t].parent = p PROVE p \in raced
      <4>1. CASE s = new
        BY <2>9, <3>1, <3>3, <3>4, <4>1
      <4>2. CASE t = new
        BY <2>9, <3>1, <3>3, <3>4, <4>2
      <4>3. CASE s # new /\ t # new
        BY <2>9, <3>1, <3>4, <4>3 DEF RotationIsLinear, Exists
      <4> QED
        BY <4>1, <4>2, <4>3
    <3> QED
      BY <3>2, <3>4
  <2>13. LogoutsReachAll'
    <3> SUFFICES ASSUME NEW d \in Clients, NEW s \in Sessions, Does(d, "revoke")', job'[d].all,
                        IsLive(s)', ~ session'[s].straddled, session'[s].user = job'[d].user
                 PROVE  s \in job'[d].targets
      BY DEF LogoutsReachAll
    <3>1. Does(d, "revoke") /\ job'[d] = job[d]
      BY <2>1 DEF Does
    <3>2. s # new
      BY <2>4, <2>8, <3>1 DEF LogoutUnderWay
    <3> QED
      BY <2>7, <3>1, <3>2 DEF LogoutsReachAll
  <2>14. LogoutAllHolds'
    <3> SUFFICES ASSUME NEW s \in Sessions, IsLive(s)', ~ session'[s].straddled
                 PROVE  session'[s].since = logouts[session'[s].user]
      BY <1>1 DEF LogoutAllHolds
    <3>1. CASE s = new
      BY <2>4, <2>8, <3>1
    <3>2. CASE s # new
      BY <2>7, <3>2 DEF LogoutAllHolds
    <3> QED
      BY <3>1, <3>2
  <2> QED
    BY <2>10, <2>11, <2>12, <2>13, <2>14
<1> QED
  BY <1>2, <1>3 DEF CommitSession

\* Who reads, to sign in, to refresh or to revoke, keeps the invariant.
LEMMA ReadingKeepsSessions ==
  ASSUME TypeOK, SessionInv, NEW c \in Clients, Reading(c)
  PROVE  SessionInv'
<1>1. ASSUME NEW u, Starts(c, SignIn(u)), UNCHANGED <<session, logouts, raced>>
      PROVE  SessionInv'
  BY <1>1, StartingKeepsSessions DEF SignIn
<1>2. CASE FindUser(c) \/ \E a \in Admins : AdminLogin(c, a)
  BY <1>1, <1>2 DEF FindUser, AdminLogin
<1>3. ASSUME NEW s \in Sessions, ReadSession(c, s) PROVE SessionInv'
  <2>1. raced \subseteq raced' /\ ((\E d \in Clients : IsRefreshing(d, s)) => s \in raced')
    BY <1>3 DEF ReadSession
  <2>2. Starts(c, Refresh(s)) /\ UNCHANGED <<session, logouts>> /\ IsLive(s)
    BY <1>3 DEF ReadSession, Unrevoked
  <2> QED
    BY <2>1, <2>2, StartingKeepsSessions DEF Refresh
<1>4. ASSUME NEW u, NEW targets, NEW all, ReadsSessions(c, u, targets, all),
             all => LiveOf(u) \subseteq targets
      PROVE  SessionInv'
  BY <1>4, StartingKeepsSessions DEF ReadsSessions
<1>5. ASSUME NEW s \in Sessions, Logout(c, s) PROVE SessionInv'
  BY <1>4, <1>5 DEF Logout
<1>6. ASSUME NEW u, LogoutAll(c, u) \/ RevokeUserSessions(c, u) PROVE SessionInv'
  BY <1>4, <1>6 DEF LogoutAll, RevokeUserSessions
<1>7. ASSUME NEW a \in Admins, ResetAdminPassword(c, a) \/ ChangeAdminPassword(c, a)
      PROVE  SessionInv'
  BY <1>6, <1>7 DEF ResetAdminPassword, ChangeAdminPassword
<1>8. ASSUME NEW a \in Admins, AdminStatus(c, a) PROVE SessionInv'
  BY <1>8, StartingKeepsSessions DEF AdminStatus
<1> QED
  BY <1>2, <1>3, <1>5, <1>6, <1>7, <1>8 DEF Reading

\* A revocation ends its targets; one that logs the user out everywhere leaves
\* live no session of theirs that does not straddle it.
LEMMA RevokingKeepsSessions ==
  ASSUME TypeOK, SessionInv, NEW c \in Clients, CommitRevocation(c)
  PROVE  SessionInv'
<1> USE DEF SessionInv
<1> DEFINE j == job[c]
<1>1. /\ j \in Revocations /\ Does(c, "revoke") /\ Starts(c, Nothing) /\ raced' = raced
      /\ session' = [s \in Sessions |-> IF s \in j.targets THEN Revoked(session[s]) ELSE session[s]]
      /\ logouts' = [logouts EXCEPT ![j.user] = IF j.all THEN @ + 1 ELSE @]
  BY JobTypes DEF CommitRevocation, WithoutTargets
<1>2. j.targets \in SUBSET Sessions /\ j.user \in Users
  BY <1>1 DEF Revocations
<1>3. /\ SessionsExist' /\ RacesAreNoted' /\ RotationIsLinear' /\ LogoutsReachAll'
      /\ \A s \in Sessions : IsLive(s)' => s \notin j.targets /\ IsLive(s) /\ session'[s] = session[s]
  <2> HIDE DEF j
  <2> QED
    BY <1>1, <1>2, EndingKeepsSessions
<1>4. LogoutAllHolds'
  <2> SUFFICES ASSUME NEW s \in Sessions, IsLive(s)', ~ session'[s].straddled
               PROVE  session'[s].since = logouts'[session'[s].user]
    BY DEF LogoutAllHolds
  <2>1. s \notin j.targets /\ IsLive(s) /\ session'[s] = session[s]
    BY <1>3
  <2>2. session[s].user \in Users
    BY <2>1, RowTypes DEF IsLive, Exists, Rows
  <2>3. ~ (j.all /\ session[s].user = j.user)
    BY <1>1, <2>1 DEF LogoutsReachAll
  <2>4. logouts'[session[s].user] = logouts[session[s].user]
    BY <1>1, <2>2, <2>3 DEF TypeOK
  <2> QED
    BY <2>1, <2>4 DEF LogoutAllHolds
<1> QED
  BY <1>3, <1>4

LEMMA NextSessionInv == TypeOK /\ SessionInv /\ [Next]_vars => SessionInv'
<1> SUFFICES ASSUME TypeOK, SessionInv, [Next]_vars PROVE SessionInv'
  OBVIOUS
<1>1. CASE UNCHANGED <<session, job, logouts, raced>>
  BY <1>1 DEF SessionInv, SessionsExist, RacesAreNoted, RotationIsLinear, LogoutsReachAll,
              LogoutAllHolds, Does, Exists, IsLive
<1>2. ASSUME NEW c \in Clients, Reading(c) PROVE SessionInv'
  BY <1>2, ReadingKeepsSessions
<1>3. ASSUME NEW c \in Clients, CommitSession(c) PROVE SessionInv'
  BY <1>3, OpeningKeepsSessions
<1>4. ASSUME NEW c \in Clients, CommitRevocation(c) PROVE SessionInv'
  BY <1>4, RevokingKeepsSessions
<1>5. ASSUME NEW c \in Clients, Rollback(c) \/ CommitStatus(c) PROVE SessionInv'
  BY <1>5, StartingKeepsSessions DEF Rollback, CommitStatus
<1>6. ASSUME NEW s \in Sessions, ExpireSession(s) PROVE SessionInv'
  <2> DEFINE S == {s}
  <2>1. S \in SUBSET Sessions
    OBVIOUS
  <2>2. session' = [t \in Sessions |-> IF t \in S THEN Revoked(session[t]) ELSE session[t]]
        /\ job' = job /\ raced' = raced /\ logouts' = logouts
    BY <1>6 DEF ExpireSession, TypeOK
  <2>3. /\ SessionsExist' /\ RacesAreNoted' /\ RotationIsLinear' /\ LogoutsReachAll'
        /\ \A t \in Sessions : IsLive(t)' => IsLive(t) /\ session'[t] = session[t]
    <3> HIDE DEF S
    <3> QED
      BY <2>1, <2>2, EndingKeepsSessions
  <2>4. LogoutAllHolds'
    BY <2>2, <2>3 DEF LogoutAllHolds, SessionInv
  <2> QED
    BY <2>3, <2>4 DEF SessionInv
<1>7. CASE \/ \E c \in Clients : OneTimePassword(c)
           \/ \E u \in Users : UpdateUser(u)
           \/ \E a \in Admins : CreateAdmin(a)
  BY <1>1, <1>7 DEF OneTimePassword, UpdateUser, CreateAdmin, accountVars
<1> QED
  BY <1>1, <1>2, <1>3, <1>4, <1>5, <1>6, <1>7 DEF Next, Committing, vars, accountVars

LEMMA SessionsHold == Spec => [](TypeOK /\ SessionInv)
<1>1. Init => TypeOK /\ OTPInv
  BY InitOTPInv DEF Init, TypeOK, OTPInv
<1>2. Init => SessionInv
  BY DEF Init, SessionInv, SessionsExist, RacesAreNoted, RotationIsLinear, LogoutsReachAll,
         LogoutAllHolds, Does, Exists, IsLive
<1> QED
  BY <1>1, <1>2, NextTypeOK, NextOTPInv, NextSessionInv, PTL DEF Spec

\* However requests interleave, two sessions follow one only if two refreshes
\* had read it as live before either committed (refresh_access_token).
THEOREM RotationStaysLinear == Spec => []RotationIsLinear
<1>1. SessionInv => RotationIsLinear
  BY DEF SessionInv
<1> QED
  BY <1>1, SessionsHold, PTL

\* However requests interleave, a live session descends from a sign-in after the
\* latest logout from all devices, or straddled one (revoke_session).
THEOREM LogoutsHold == Spec => []LogoutAllHolds
<1>1. SessionInv => LogoutAllHolds
  BY DEF SessionInv
<1> QED
  BY <1>1, SessionsHold, PTL

=============================================================================
