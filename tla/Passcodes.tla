----------------------------- MODULE Passcodes -----------------------------
(***************************************************************************)
(* The passcodes of the API server (auth.service.ts): generatePasscode,    *)
(* verifyPasscode and resolvePasscode over the passcodes table.            *)
(*                                                                         *)
(* Every await on the database lets other requests in, so a request is two *)
(* steps: the lookup with all that is decided from it, and the write.  The *)
(* awaits on the device row come before the lookup and change nothing; the *)
(* devices exist.                                                          *)
(***************************************************************************)
EXTENDS Naturals

CONSTANTS
  Devices,
  Codes,         \* what a passcode, or a guess, can be
  Ids, NoRow,    \* primary keys of passcodes; no row has this key
  Requests, Idle,
  MaxAttempts    \* PASSCODE_MAX_ATTEMPTS

VARIABLES
  passcodes,   \* [Ids -> Row \cup {NoRow}]
  issued,      \* [Ids -> Devices \cup {NoRow}]: the device a key was generated for
  expired,     \* keys whose expiresAt has passed
  request,     \* [Requests -> what the request will write, or Idle]
  accepted,    \* [Ids -> 0..2]: requests this passcode let in (counted to 2)
  failures,    \* [Ids -> 0..MaxAttempts + 1]: wrong guesses verifyPasscode answered
  overlapped,  \* devices two requests met at, and that had no lone rotation since
  affected     \* keys of a device two requests met at

vars == <<passcodes, issued, expired, request, accepted, failures, overlapped, affected>>

Row == [device: Devices, code: Codes, attempts: 0..MaxAttempts]
Pending == [op: {"insert"}, device: Devices, code: Codes]
           \cup [op: {"save"}, id: Ids, device: Devices, row: Row]
           \cup [op: {"consume"}, id: Ids, device: Devices]

ASSUME PasscodesAssumption ==
  /\ MaxAttempts \in Nat \ {0}
  /\ NoRow \notin Row \cup Devices
  /\ Idle \notin Pending

(* Every row and every pending write is well formed.                        *)
PasscodesTypeOK ==
  /\ passcodes \in [Ids -> Row \cup {NoRow}]
  /\ issued \in [Ids -> Devices \cup {NoRow}]
  /\ expired \subseteq Ids
  /\ request \in [Requests -> Pending \cup {Idle}]
  /\ accepted \in [Ids -> 0..2]
  /\ failures \in [Ids -> 0..(MaxAttempts + 1)]
  /\ overlapped \subseteq Devices /\ affected \subseteq Ids

Init ==
  /\ passcodes = [i \in Ids |-> NoRow]
  /\ issued = [i \in Ids |-> NoRow] /\ expired = {}
  /\ request = [r \in Requests |-> Idle]
  /\ accepted = [i \in Ids |-> 0]
  /\ failures = [i \in Ids |-> 0]
  /\ overlapped = {} /\ affected = {}

-----------------------------------------------------------------------------
Busy(d) == \E r \in Requests : request[r] # Idle /\ request[r].device = d

KeysOf(d) == {i \in Ids : issued[i] = d}

(* Request r goes on to write w.                                            *)
Begin(r, w) ==
  /\ request[r] = Idle
  /\ request' = [request EXCEPT ![r] = w]

(* It meets whoever works on the device now.                                *)
Meet(d) ==
  /\ overlapped' = overlapped \cup {e \in {d} : Busy(e)}
  /\ affected' = affected \cup {i \in KeysOf(d) : Busy(d)}

Live(i) == passcodes[i] # NoRow /\ i \notin expired

(* generatePasscode: the rows of the device are deleted, ...  A rotation    *)
(* that meets nobody ends what an overlap left behind.                      *)
Rotate(r, d, c) ==
  /\ Begin(r, [op |-> "insert", device |-> d, code |-> c])
  /\ overlapped' = IF Busy(d) THEN overlapped \cup {d} ELSE overlapped \ {d}
  /\ affected' = affected \cup {i \in KeysOf(d) : Busy(d)}
  /\ UNCHANGED <<issued, expired, accepted, failures>>

(* a slip: one of the rows goes, and not all of them                        *)
GeneratePasscodeDeletingOne(r, d, c) ==
  /\ Rotate(r, d, c)
  /\ LET mine == {i \in Ids : passcodes[i] # NoRow /\ passcodes[i].device = d}
     IN  \/ mine = {} /\ UNCHANGED passcodes
         \/ \E i \in mine : passcodes' = [passcodes EXCEPT ![i] = NoRow]

GeneratePasscode(r, d, c) ==
  /\ Rotate(r, d, c)
  /\ passcodes' = [i \in Ids |-> IF passcodes[i] # NoRow /\ passcodes[i].device = d
                                 THEN NoRow ELSE passcodes[i]]

(* ... then the new one is inserted.                                        *)
InsertPasscode(r, i) ==
  /\ request[r] # Idle /\ request[r].op = "insert"
  /\ issued[i] = NoRow
  /\ passcodes' = [passcodes EXCEPT ![i] =
       [device |-> request[r].device, code |-> request[r].code, attempts |-> 0]]
  /\ issued' = [issued EXCEPT ![i] = request[r].device]
  /\ request' = [request EXCEPT ![r] = Idle]
  /\ affected' = affected \cup {k \in {i} : request[r].device \in overlapped}
  /\ UNCHANGED <<expired, accepted, failures, overlapped>>

(* a slip: > for >= in the check of the limit                               *)
VerifyWrongPastLimit(r, d, c, i) ==
  /\ Live(i) /\ passcodes[i].device = d
  /\ passcodes[i].attempts <= MaxAttempts
  /\ passcodes[i].code # c
  /\ Begin(r, [op |-> "save", id |-> i, device |-> d,
               row |-> [passcodes[i] EXCEPT !.attempts = @ + 1]])
  /\ Meet(d)
  /\ UNCHANGED <<passcodes, issued, expired, accepted, failures>>

(* verifyPasscode.  Row i is the one findOne returned.                      *)
VerifyWrong(r, d, c, i) ==
  /\ Live(i) /\ passcodes[i].device = d
  /\ passcodes[i].attempts < MaxAttempts
  /\ passcodes[i].code # c
  /\ Begin(r, [op |-> "save", id |-> i, device |-> d,
               row |-> [passcodes[i] EXCEPT !.attempts = @ + 1]])
  /\ Meet(d)
  /\ UNCHANGED <<passcodes, issued, expired, accepted, failures>>

VerifyRight(r, d, c, i) ==
  /\ Live(i) /\ passcodes[i].device = d
  /\ passcodes[i].attempts < MaxAttempts
  /\ passcodes[i].code = c
  /\ Begin(r, [op |-> "consume", id |-> i, device |-> d])
  /\ Meet(d)
  /\ UNCHANGED <<passcodes, issued, expired, accepted, failures>>

(* No live row, or one out of attempts: refused before the guess is looked  *)
(* at.                                                                      *)
VerifyRefused(d) ==
  /\ \/ \A i \in Ids : Live(i) => passcodes[i].device # d
     \/ \E i \in Ids : /\ Live(i) /\ passcodes[i].device = d
                       /\ passcodes[i].attempts >= MaxAttempts
  /\ UNCHANGED vars

(* resolvePasscode compares the guess with every live row.  i is the first  *)
(* that matches.                                                            *)
ResolvePasscode(r, c, i) ==
  /\ Live(i)
  /\ passcodes[i].code = c
  /\ passcodes[i].attempts < MaxAttempts
  /\ Begin(r, [op |-> "consume", id |-> i, device |-> passcodes[i].device])
  /\ Meet(passcodes[i].device)
  /\ UNCHANGED <<passcodes, issued, expired, accepted, failures>>

(* It matches none, or the first it matches is out of attempts.  The rows   *)
(* it was compared with do not count it, however often this happens.        *)
ResolveRefused(c) ==
  /\ \/ \A i \in Ids : Live(i) => passcodes[i].code # c
     \/ \E i \in Ids : /\ Live(i) /\ passcodes[i].code = c
                       /\ passcodes[i].attempts >= MaxAttempts
  /\ UNCHANGED vars

(* "Invalid passcode" is answered when the attempt is written.              *)
AnswerWrong(r) ==
  /\ request[r] # Idle /\ request[r].op = "save"
  /\ failures' = [failures EXCEPT ![request[r].id] = IF @ > MaxAttempts THEN @ ELSE @ + 1]
  /\ request' = [request EXCEPT ![r] = Idle]
  /\ UNCHANGED <<issued, expired, accepted, overlapped, affected>>

(* a slip: the failed attempt is not written                                *)
SaveAttemptForgotten(r) == AnswerWrong(r) /\ UNCHANGED passcodes

(* passcode.attempts += 1; save.  save() looks the key up and then updates  *)
(* the row, or inserts it when the key is gone; when the row goes between   *)
(* the two, nothing is written.                                             *)
SaveAttempt(r) ==
  /\ AnswerWrong(r)
  /\ LET i == request[r].id
     IN  \/ passcodes' = [passcodes EXCEPT ![i] = request[r].row]
         \/ passcodes[i] = NoRow /\ UNCHANGED passcodes

(* a slip: the passcode is not deleted                                      *)
ConsumeNothing(r) ==
  /\ request[r] # Idle /\ request[r].op = "consume"
  /\ accepted' = [accepted EXCEPT ![request[r].id] = IF @ = 2 THEN 2 ELSE @ + 1]
  /\ request' = [request EXCEPT ![r] = Idle]
  /\ UNCHANGED <<passcodes, issued, expired, failures, overlapped, affected>>

(* delete(passcode.id), whether or not the row is still there; the request  *)
(* is let in.                                                               *)
ConsumePasscode(r) ==
  /\ request[r] # Idle /\ request[r].op = "consume"
  /\ passcodes' = [passcodes EXCEPT ![request[r].id] = NoRow]
  /\ accepted' = [accepted EXCEPT ![request[r].id] = IF @ = 2 THEN 2 ELSE @ + 1]
  /\ request' = [request EXCEPT ![r] = Idle]
  /\ UNCHANGED <<issued, expired, failures, overlapped, affected>>

(* PASSCODE_EXPIRY_MINUTES pass.                                            *)
Expire(i) ==
  /\ issued[i] # NoRow /\ i \notin expired
  /\ expired' = expired \cup {i}
  /\ UNCHANGED <<passcodes, issued, request, accepted, failures, overlapped, affected>>

(* The API server dies with what it was about to write; the table stays.    *)
Restart ==
  /\ \E r \in Requests : request[r] # Idle
  /\ request' = [r \in Requests |-> Idle]
  /\ UNCHANGED <<passcodes, issued, expired, accepted, failures, overlapped, affected>>

Next ==
  \/ \E r \in Requests :
       \/ \E d \in Devices, c \in Codes :
            \/ GeneratePasscode(r, d, c)
            \/ \E i \in Ids : VerifyWrong(r, d, c, i) \/ VerifyRight(r, d, c, i)
       \/ \E c \in Codes, i \in Ids : ResolvePasscode(r, c, i)
       \/ \E i \in Ids : InsertPasscode(r, i)
       \/ SaveAttempt(r)
       \/ ConsumePasscode(r)
  \/ \E d \in Devices : VerifyRefused(d)
  \/ \E c \in Codes : ResolveRefused(c)
  \/ \E i \in Ids : Expire(i)
  \/ Restart

Spec == Init /\ [][Next]_vars

-----------------------------------------------------------------------------
(* Properties.  The service uses no transaction and no row lock.  What it   *)
(* promises about a passcode it keeps if no two requests meet at its device *)
(* while it is there, whatever happens at other devices and over restarts;  *)
(* what an overlap leaves in the table goes with the next rotation that     *)
(* meets nobody.                                                            *)

Undisturbed(i) == issued[i] \in Devices /\ i \notin affected

(* An accepted passcode is gone, and neither verifyPasscode nor             *)
(* resolvePasscode lets anybody in with it again (auth.service.ts:126, 147).*)
UsedOnce ==
  \A i \in Ids : Undisturbed(i) /\ accepted[i] > 0
                   => accepted[i] = 1 /\ passcodes[i] = NoRow

(* verifyPasscode answers no more wrong guesses at a passcode than the      *)
(* limit, over requests and restarts, and once they are used up neither it  *)
(* nor resolvePasscode lets anybody in with it (auth.service.ts:115, 143).  *)
(* Guesses at resolvePasscode are not limited: ResolveRefused counts none.  *)
GuessesAreLimited ==
  \A i \in Ids : Undisturbed(i) =>
    /\ failures[i] <= MaxAttempts
    /\ accepted[i] > 0 => failures[i] < MaxAttempts

(* A device has one passcode, and none while the next is on its way         *)
(* (auth.service.ts:81-92): after an overlap, two rotations or a failed     *)
(* attempt that brought an older row back, again from the next lone         *)
(* rotation on.                                                             *)
OnePasscode ==
  \A d \in Devices \ overlapped :
    LET mine == {i \in Ids : passcodes[i] # NoRow /\ passcodes[i].device = d}
    IN  /\ \A i, j \in mine : i = j
        /\ \A r \in Requests :
             request[r] # Idle /\ request[r].op = "insert" /\ request[r].device = d => mine = {}

(* The comment of auth.service.ts:126: consumed, it cannot be used again.   *)
SingleUse == \A i \in Ids : accepted[i] <= 1
=============================================================================
