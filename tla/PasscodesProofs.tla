-------------------------- MODULE PasscodesProofs --------------------------
(***************************************************************************)
(* The three promises of Passcodes hold for any number of devices, keys,   *)
(* requests and attempts.                                                  *)
(*                                                                         *)
(* None of them is inductive: a passcode is used once because a request    *)
(* that is about to consume one found it unused, and was alone.  So the    *)
(* invariant says of every request in flight what it found, that a device  *)
(* with two requests in flight is overlapped, and that what an overlap did *)
(* to a device stays with the keys it had then.                            *)
(***************************************************************************)
EXTENDS Passcodes, TLAPS

(* The requests about to do op, and those that met nobody.                  *)
About(r, op) == request[r] # Idle /\ request[r].op = op
Alone(r) == request[r].device \notin overlapped

(* Rows carry the device their key was issued for, and so do requests; a    *)
(* key that was not issued has no history.                                  *)
Filed ==
  /\ \A i \in Ids : passcodes[i] # NoRow => issued[i] = passcodes[i].device
  /\ \A i \in Ids : issued[i] = NoRow => accepted[i] = 0 /\ failures[i] = 0
  /\ \A r \in Requests : About(r, "save") \/ About(r, "consume")
                           => issued[request[r].id] = request[r].device
  /\ \A r \in Requests : About(r, "save") => request[r].row.device = request[r].device

(* The keys of an overlapped device are affected; those of a device that    *)
(* was rotated since have no row.                                           *)
Marked ==
  /\ \A i \in Ids : issued[i] \in overlapped => i \in affected
  /\ \A i \in affected : issued[i] # NoRow
  /\ \A i \in affected : passcodes[i] # NoRow => issued[i] \in overlapped

(* Two requests in flight at one device have met.                           *)
OneAtATime ==
  \A q, r \in Requests :
    /\ q # r /\ request[q] # Idle /\ request[r] # Idle
    /\ request[q].device = request[r].device
    => request[r].device \in overlapped

(* A failed attempt is written to a row that is as the request found it.    *)
Found ==
  \A r \in Requests : About(r, "save") /\ Alone(r) =>
    /\ passcodes[request[r].id] # NoRow
    /\ request[r].row.attempts = failures[request[r].id] + 1

(* A passcode about to be consumed has let nobody in, and was not locked.   *)
Unused ==
  \A r \in Requests : About(r, "consume") /\ Alone(r) =>
    accepted[request[r].id] = 0 /\ failures[request[r].id] < MaxAttempts

(* A row counts the wrong guesses that were answered.                       *)
Counted ==
  \A i \in Ids : Undisturbed(i) /\ passcodes[i] # NoRow
                   => failures[i] = passcodes[i].attempts

PasscodesInv ==
  /\ PasscodesTypeOK
  /\ Filed /\ Marked /\ OneAtATime /\ Found /\ Unused /\ Counted
  /\ UsedOnce /\ GuessesAreLimited /\ OnePasscode

-----------------------------------------------------------------------------

LEMMA InitInv == Init => PasscodesInv
BY PasscodesAssumption
DEF Init, PasscodesInv, PasscodesTypeOK, Filed, Marked, OneAtATime, Found, Unused,
    Counted, About, UsedOnce, GuessesAreLimited, OnePasscode, Undisturbed

(* What is pending, by the operation it is for.                             *)
LEMMA PendingOps ==
  ASSUME NEW w \in Pending
  PROVE  /\ w.op \in {"insert", "save", "consume"}
         /\ w.device \in Devices
         /\ w.op = "insert" => w.code \in Codes
         /\ w.op \in {"save", "consume"} => w.id \in Ids
         /\ w.op = "save" => w.row \in Row
BY DEF Pending

(* How the step of a request about device d marks the overlaps.             *)
Marks(d) ==
  /\ Busy(d) => overlapped' = overlapped \cup {d} /\ affected' = affected \cup KeysOf(d)
  /\ ~Busy(d) => overlapped' \in {overlapped, overlapped \ {d}} /\ affected' = affected

(* A request that begins marks whom it meets, and nothing else changes      *)
(* about the others.                                                        *)
LEMMA BeginKeeps ==
  ASSUME PasscodesInv, NEW r \in Requests, NEW w \in Pending, Begin(r, w), Marks(w.device),
         UNCHANGED issued
  PROVE  /\ request' \in [Requests -> Pending \cup {Idle}]
         /\ request'[r] = w /\ request'[r] # Idle /\ request[r] = Idle
         /\ \A q \in Requests : q # r => request'[q] = request[q]
         /\ overlapped' \subseteq Devices /\ affected \subseteq affected' /\ affected' \subseteq Ids
         /\ \A q \in Requests : q # r /\ request[q] # Idle /\ Alone(q)' =>
              Alone(q) /\ request[q].device # w.device
         /\ w.device \notin overlapped' => ~Busy(w.device)
         /\ \A i \in Ids : issued[i] \in overlapped' => i \in affected'
         /\ \A i \in affected' : issued[i] # NoRow
         /\ \A i \in affected' : i \in affected \/ issued[i] \in overlapped'
         /\ OneAtATime'
<1>1. /\ request' \in [Requests -> Pending \cup {Idle}]
      /\ request'[r] = w /\ request'[r] # Idle /\ request[r] = Idle
      /\ \A q \in Requests : q # r => request'[q] = request[q]
  BY PasscodesAssumption DEF PasscodesInv, PasscodesTypeOK, Begin
<1>2. /\ overlapped' \subseteq Devices /\ affected \subseteq affected' /\ affected' \subseteq Ids
      /\ w.device \notin overlapped' => ~Busy(w.device)
  BY PendingOps DEF PasscodesInv, PasscodesTypeOK, Marks, KeysOf
<1>3. \A q \in Requests : q # r /\ request[q] # Idle /\ Alone(q)' =>
        Alone(q) /\ request[q].device # w.device
  BY <1>1 DEF Marks, Alone, Busy
<1>4. /\ \A i \in Ids : issued[i] \in overlapped' => i \in affected'
      /\ \A i \in affected' : i \in affected \/ issued[i] \in overlapped'
  BY DEF PasscodesInv, Marked, Marks, KeysOf
<1>5. \A i \in affected' : issued[i] # NoRow
  BY PendingOps, PasscodesAssumption DEF PasscodesInv, Marked, Marks, KeysOf
<1>6. OneAtATime'
  <2> SUFFICES ASSUME NEW p \in Requests, NEW q \in Requests, p # q,
                      request'[p] # Idle, request'[q] # Idle,
                      request'[p].device = request'[q].device
               PROVE  request'[q].device \in overlapped'
    BY DEF OneAtATime
  <2>1. CASE p # r /\ q # r
    <3>1. request[p].device = request[q].device /\ request[q].device \in overlapped
      BY <2>1, <1>1 DEF PasscodesInv, OneAtATime
    <3> QED BY <3>1, <2>1, <1>1, <1>3 DEF Alone
  <2>2. CASE p = r
    BY <2>2, <1>1, <1>2 DEF Busy
  <2>3. CASE q = r
    BY <2>3, <1>1, <1>2 DEF Busy
  <2> QED BY <2>1, <2>2, <2>3
<1> QED BY <1>1, <1>2, <1>3, <1>4, <1>5, <1>6

LEMMA MeetMarks == ASSUME NEW d \in Devices, Meet(d) PROVE Marks(d) /\ overlapped \subseteq overlapped'
BY DEF Meet, Marks

LEMMA GeneratePasscodeInv ==
  ASSUME PasscodesInv, NEW r \in Requests, NEW d \in Devices, NEW c \in Codes,
         GeneratePasscode(r, d, c)
  PROVE  PasscodesInv'
<1> DEFINE w == [op |-> "insert", device |-> d, code |-> c]
<1>1. w \in Pending /\ w.op = "insert" /\ w.device = d
  BY DEF Pending
<1>2. Begin(r, w) /\ Marks(d) /\ UNCHANGED <<issued, expired, accepted, failures>>
  BY DEF GeneratePasscode, Rotate, Marks
<1>3. ~Busy(d) => d \notin overlapped'
  BY DEF GeneratePasscode, Rotate
<1> HIDE DEF w
<1>4. /\ request' \in [Requests -> Pending \cup {Idle}]
      /\ request'[r] = w /\ request'[r] # Idle /\ request[r] = Idle
      /\ \A q \in Requests : q # r => request'[q] = request[q]
      /\ overlapped' \subseteq Devices /\ affected \subseteq affected' /\ affected' \subseteq Ids
      /\ \A q \in Requests : q # r /\ request[q] # Idle /\ Alone(q)' =>
           Alone(q) /\ request[q].device # d
      /\ d \notin overlapped' => ~Busy(d)
      /\ \A i \in Ids : issued[i] \in overlapped' => i \in affected'
      /\ \A i \in affected' : issued[i] # NoRow
      /\ \A i \in affected' : i \in affected \/ issued[i] \in overlapped'
      /\ OneAtATime'
  BY <1>1, <1>2, BeginKeeps
<1>5. \A i \in Ids : passcodes'[i] = IF passcodes[i] # NoRow /\ passcodes[i].device = d
                                     THEN NoRow ELSE passcodes[i]
  BY DEF GeneratePasscode, PasscodesInv, PasscodesTypeOK
<1>6. \A e \in Devices \ {d} : e \in overlapped <=> e \in overlapped'
  BY <1>2 DEF Marks
<1>7. PasscodesTypeOK'
  BY <1>2, <1>4 DEF GeneratePasscode, PasscodesInv, PasscodesTypeOK
<1>8. Filed'
  BY <1>1, <1>2, <1>4, <1>5 DEF PasscodesInv, Filed, About
<1>9. Marked'
  <2>1. \A i \in affected' : passcodes'[i] # NoRow => issued[i] \in overlapped'
    BY <1>4, <1>5, <1>6 DEF PasscodesInv, PasscodesTypeOK, Marked, Filed
  <2> QED BY <2>1, <1>2, <1>4 DEF Marked
<1>10. Found'
  <2> SUFFICES ASSUME NEW q \in Requests, About(q, "save")', Alone(q)'
               PROVE  /\ passcodes'[request'[q].id] # NoRow
                      /\ request'[q].row.attempts = failures'[request'[q].id] + 1
    BY DEF Found
  <2>1. q # r /\ request'[q] = request[q] /\ About(q, "save")
    BY <1>1, <1>4 DEF About
  <2>2. Alone(q) /\ request[q].device # d
    BY <2>1, <1>4 DEF About
  <2>3. request[q] \in Pending /\ request[q].id \in Ids
    BY <2>1, PendingOps DEF PasscodesInv, PasscodesTypeOK, About
  <2> QED BY <2>1, <2>2, <2>3, <1>2, <1>5 DEF PasscodesInv, Found, Filed
<1>11. Unused'
  <2> SUFFICES ASSUME NEW q \in Requests, About(q, "consume")', Alone(q)'
               PROVE  accepted'[request'[q].id] = 0 /\ failures'[request'[q].id] < MaxAttempts
    BY DEF Unused
  <2>1. q # r /\ request'[q] = request[q] /\ About(q, "consume")
    BY <1>1, <1>4 DEF About
  <2> QED BY <2>1, <1>2, <1>4 DEF PasscodesInv, Unused, About
<1>12. Counted' /\ UsedOnce' /\ GuessesAreLimited'
  BY <1>2, <1>4, <1>5 DEF PasscodesInv, Counted, UsedOnce, GuessesAreLimited, Undisturbed
<1>13. OnePasscode'
  <2> SUFFICES ASSUME NEW e \in Devices, e \notin overlapped'
               PROVE  /\ \A i, j \in Ids : /\ passcodes'[i] # NoRow /\ passcodes'[i].device = e
                                           /\ passcodes'[j] # NoRow /\ passcodes'[j].device = e
                                           => i = j
                      /\ \A q \in Requests :
                           request'[q] # Idle /\ request'[q].op = "insert" /\ request'[q].device = e
                           => \A i \in Ids : passcodes'[i] # NoRow => passcodes'[i].device # e
    BY DEF OnePasscode
  <2>1. CASE e = d
    BY <2>1, <1>5
  <2>2. CASE e # d
    <3>1. e \notin overlapped
      BY <2>2, <1>6
    <3>2. \A i \in Ids : passcodes'[i] # NoRow /\ passcodes'[i].device = e
            => passcodes[i] # NoRow /\ passcodes[i].device = e
      BY <1>5
    <3>3. \A q \in Requests : request'[q] # Idle /\ request'[q].device = e
            => request[q] = request'[q]
      BY <2>2, <1>1, <1>4
    <3> QED BY <3>1, <3>2, <3>3 DEF PasscodesInv, OnePasscode
  <2> QED BY <2>1, <2>2
<1> QED BY <1>4, <1>7, <1>8, <1>9, <1>10, <1>11, <1>12, <1>13 DEF PasscodesInv

(* A lookup that found row i at device d, and goes on to write w about it.  *)
LEMMA LookupKeeps ==
  ASSUME PasscodesInv, NEW r \in Requests, NEW i \in Ids, Live(i),
         NEW d \in Devices, d = passcodes[i].device,
         NEW w \in Pending, w.op \in {"save", "consume"}, w.id = i, w.device = d,
         w.op = "save" => w.row.device = d,
         Begin(r, w), Meet(d), UNCHANGED <<passcodes, issued, expired, accepted, failures>>
  PROVE  /\ request'[r] = w /\ request'[r] # Idle
         /\ \A q \in Requests : q # r => request'[q] = request[q]
         /\ \A q \in Requests : q # r /\ request[q] # Idle /\ Alone(q)' => Alone(q)
         /\ Alone(r)' => Undisturbed(i)
         /\ PasscodesTypeOK' /\ Filed' /\ Marked' /\ OneAtATime'
         /\ Counted' /\ UsedOnce' /\ GuessesAreLimited' /\ OnePasscode'
<1>1. /\ request' \in [Requests -> Pending \cup {Idle}]
      /\ request'[r] = w /\ request'[r] # Idle /\ request[r] = Idle
      /\ \A q \in Requests : q # r => request'[q] = request[q]
      /\ overlapped' \subseteq Devices /\ affected \subseteq affected' /\ affected' \subseteq Ids
      /\ \A q \in Requests : q # r /\ request[q] # Idle /\ Alone(q)' =>
           Alone(q) /\ request[q].device # d
      /\ \A j \in Ids : issued[j] \in overlapped' => j \in affected'
      /\ \A j \in affected' : issued[j] # NoRow
      /\ \A j \in affected' : j \in affected \/ issued[j] \in overlapped'
      /\ OneAtATime'
  BY MeetMarks, BeginKeeps
<1>2. overlapped \subseteq overlapped'
  BY MeetMarks
<1>3. issued[i] = d /\ passcodes[i] # NoRow
  BY DEF Live, PasscodesInv, Filed
<1>4. Alone(r)' => Undisturbed(i)
  BY <1>1, <1>2, <1>3 DEF Alone, Undisturbed, PasscodesInv, Marked
<1>5. PasscodesTypeOK'
  BY <1>1 DEF PasscodesInv, PasscodesTypeOK
<1>6. Filed'
  BY <1>1, <1>3 DEF PasscodesInv, Filed, About
<1>7. Marked'
  BY <1>1, <1>2 DEF PasscodesInv, Marked
<1>8. Counted' /\ UsedOnce' /\ GuessesAreLimited'
  BY <1>1 DEF PasscodesInv, Counted, UsedOnce, GuessesAreLimited, Undisturbed
<1>9. OnePasscode'
  BY <1>1, <1>2 DEF PasscodesInv, OnePasscode
<1> QED BY <1>1, <1>4, <1>5, <1>6, <1>7, <1>8, <1>9

LEMMA VerifyWrongInv ==
  ASSUME PasscodesInv, NEW r \in Requests, NEW d \in Devices, NEW c \in Codes, NEW i \in Ids,
         VerifyWrong(r, d, c, i)
  PROVE  PasscodesInv'
<1> DEFINE w == [op |-> "save", id |-> i, device |-> d,
                 row |-> [passcodes[i] EXCEPT !.attempts = @ + 1]]
<1>1. /\ passcodes[i] \in Row /\ passcodes[i] # NoRow
      /\ passcodes[i].device = d /\ passcodes[i].attempts < MaxAttempts
      /\ passcodes[i].attempts \in Nat
  BY PasscodesAssumption DEF VerifyWrong, Live, PasscodesInv, PasscodesTypeOK, Row
<1>2. /\ w \in Pending /\ w.op = "save" /\ w.device = d /\ w.id = i
      /\ w.row.device = d /\ w.row.attempts = passcodes[i].attempts + 1
  BY <1>1, PasscodesAssumption DEF Pending, Row
<1>3. /\ Live(i) /\ Begin(r, w) /\ Meet(d)
      /\ UNCHANGED <<passcodes, issued, expired, accepted, failures>>
  BY DEF VerifyWrong
<1> HIDE DEF w
<1>4. /\ request'[r] = w /\ request'[r] # Idle
      /\ \A q \in Requests : q # r => request'[q] = request[q]
      /\ \A q \in Requests : q # r /\ request[q] # Idle /\ Alone(q)' => Alone(q)
      /\ Alone(r)' => Undisturbed(i)
      /\ PasscodesTypeOK' /\ Filed' /\ Marked' /\ OneAtATime'
      /\ Counted' /\ UsedOnce' /\ GuessesAreLimited' /\ OnePasscode'
  BY <1>1, <1>2, <1>3, LookupKeeps
<1>5. Alone(r)' => failures[i] = passcodes[i].attempts
  BY <1>1, <1>4 DEF PasscodesInv, Counted
<1>6. Found'
  <2> SUFFICES ASSUME NEW q \in Requests, About(q, "save")', Alone(q)'
               PROVE  /\ passcodes'[request'[q].id] # NoRow
                      /\ request'[q].row.attempts = failures'[request'[q].id] + 1
    BY DEF Found
  <2>1. CASE q = r
    BY <2>1, <1>1, <1>2, <1>3, <1>4, <1>5
  <2>2. CASE q # r
    BY <2>2, <1>3, <1>4 DEF PasscodesInv, Found, About
  <2> QED BY <2>1, <2>2
<1>7. Unused'
  <2> SUFFICES ASSUME NEW q \in Requests, About(q, "consume")', Alone(q)'
               PROVE  accepted'[request'[q].id] = 0 /\ failures'[request'[q].id] < MaxAttempts
    BY DEF Unused
  <2>1. q # r
    BY <1>2, <1>4 DEF About
  <2> QED BY <2>1, <1>3, <1>4 DEF PasscodesInv, Unused, About
<1> QED BY <1>4, <1>6, <1>7 DEF PasscodesInv

(* Both ways to verify a right passcode.                                    *)
LEMMA BeginConsumeInv ==
  ASSUME PasscodesInv, NEW r \in Requests, NEW i \in Ids, Live(i),
         passcodes[i].attempts < MaxAttempts,
         Begin(r, [op |-> "consume", id |-> i, device |-> passcodes[i].device]),
         Meet(passcodes[i].device),
         UNCHANGED <<passcodes, issued, expired, accepted, failures>>
  PROVE  PasscodesInv'
<1> DEFINE w == [op |-> "consume", id |-> i, device |-> passcodes[i].device]
<1>1. passcodes[i] \in Row /\ passcodes[i] # NoRow /\ passcodes[i].device \in Devices
  BY DEF Live, PasscodesInv, PasscodesTypeOK, Row
<1>2. /\ w \in Pending /\ w.op = "consume" /\ w.device = passcodes[i].device /\ w.id = i
  BY <1>1 DEF Pending
<1>3. Begin(r, w)
  OBVIOUS
<1> HIDE DEF w
<1>4. /\ request'[r] = w /\ request'[r] # Idle
      /\ \A q \in Requests : q # r => request'[q] = request[q]
      /\ \A q \in Requests : q # r /\ request[q] # Idle /\ Alone(q)' => Alone(q)
      /\ Alone(r)' => Undisturbed(i)
      /\ PasscodesTypeOK' /\ Filed' /\ Marked' /\ OneAtATime'
      /\ Counted' /\ UsedOnce' /\ GuessesAreLimited' /\ OnePasscode'
  BY <1>1, <1>2, <1>3, LookupKeeps
<1>5. Alone(r)' => accepted[i] = 0 /\ failures[i] < MaxAttempts
  BY <1>1, <1>4 DEF PasscodesInv, PasscodesTypeOK, Counted, UsedOnce
<1>6. Found'
  <2> SUFFICES ASSUME NEW q \in Requests, About(q, "save")', Alone(q)'
               PROVE  /\ passcodes'[request'[q].id] # NoRow
                      /\ request'[q].row.attempts = failures'[request'[q].id] + 1
    BY DEF Found
  <2>1. q # r
    BY <1>2, <1>4 DEF About
  <2> QED BY <2>1, <1>4 DEF PasscodesInv, Found, About
<1>7. Unused'
  <2> SUFFICES ASSUME NEW q \in Requests, About(q, "consume")', Alone(q)'
               PROVE  accepted'[request'[q].id] = 0 /\ failures'[request'[q].id] < MaxAttempts
    BY DEF Unused
  <2>1. CASE q = r
    BY <2>1, <1>2, <1>4, <1>5
  <2>2. CASE q # r
    BY <2>2, <1>4 DEF PasscodesInv, Unused, About
  <2> QED BY <2>1, <2>2
<1> QED BY <1>4, <1>6, <1>7 DEF PasscodesInv

(* A request that ends leaves the others as they are.                       *)
LEMMA FinishKeeps ==
  ASSUME PasscodesInv, NEW r \in Requests, request[r] # Idle,
         request' = [request EXCEPT ![r] = Idle], UNCHANGED overlapped
  PROVE  /\ request' \in [Requests -> Pending \cup {Idle}]
         /\ \A q \in Requests : request'[q] # Idle =>
              /\ q # r /\ request'[q] = request[q]
              /\ request[q].device = request[r].device => ~Alone(q)
         /\ OneAtATime'
<1>1. /\ request' \in [Requests -> Pending \cup {Idle}]
      /\ \A q \in Requests : request'[q] # Idle => q # r /\ request'[q] = request[q]
  BY DEF PasscodesInv, PasscodesTypeOK
<1>2. OneAtATime'
  BY <1>1 DEF PasscodesInv, OneAtATime
<1>3. \A q \in Requests : request'[q] # Idle /\ request[q].device = request[r].device => ~Alone(q)
  BY <1>1 DEF PasscodesInv, OneAtATime, Alone
<1> QED BY <1>1, <1>2, <1>3

LEMMA InsertPasscodeInv ==
  ASSUME PasscodesInv, NEW r \in Requests, NEW i \in Ids, InsertPasscode(r, i)
  PROVE  PasscodesInv'
<1> DEFINE d == request[r].device
<1>1. /\ About(r, "insert") /\ issued[i] = NoRow
      /\ d \in Devices /\ request[r].code \in Codes
  BY PendingOps DEF InsertPasscode, About, PasscodesInv, PasscodesTypeOK
<1>2. /\ request' \in [Requests -> Pending \cup {Idle}]
      /\ \A q \in Requests : request'[q] # Idle =>
           /\ q # r /\ request'[q] = request[q]
           /\ request[q].device = d => ~Alone(q)
      /\ OneAtATime'
  BY FinishKeeps DEF InsertPasscode
<1>3. /\ passcodes' \in [Ids -> Row \cup {NoRow}]
      /\ passcodes'[i] \in Row /\ passcodes'[i] # NoRow
      /\ passcodes'[i].device = d /\ passcodes'[i].attempts = 0
      /\ \A j \in Ids : j # i => passcodes'[j] = passcodes[j]
  BY <1>1, PasscodesAssumption DEF InsertPasscode, PasscodesInv, PasscodesTypeOK, Row
<1>4. /\ issued' \in [Ids -> Devices \cup {NoRow}]
      /\ issued'[i] = d /\ \A j \in Ids : j # i => issued'[j] = issued[j]
      /\ UNCHANGED <<expired, accepted, failures, overlapped>>
  BY <1>1 DEF InsertPasscode, PasscodesInv, PasscodesTypeOK
<1>5. /\ passcodes[i] = NoRow /\ accepted[i] = 0 /\ failures[i] = 0
  BY <1>1, PasscodesAssumption DEF PasscodesInv, PasscodesTypeOK, Filed, Row
<1>6. \A q \in Requests : request[q] # Idle /\ request[q].op \in {"save", "consume"}
        => request[q].id \in Ids /\ request[q].id # i /\ request[q].device \in Devices
  BY <1>1, PendingOps, PasscodesAssumption DEF PasscodesInv, PasscodesTypeOK, Filed, About
<1>7. /\ affected' \subseteq Ids
      /\ i \in affected' <=> d \in overlapped
      /\ \A j \in Ids : j # i => (j \in affected' <=> j \in affected)
  BY <1>1 DEF InsertPasscode, PasscodesInv, PasscodesTypeOK, Marked
<1>8. d \notin overlapped => \A j \in Ids : passcodes[j] # NoRow => passcodes[j].device # d
  BY <1>1 DEF PasscodesInv, OnePasscode, About
<1> HIDE DEF d
<1>9. PasscodesTypeOK'
  BY <1>2, <1>3, <1>4, <1>7 DEF PasscodesInv, PasscodesTypeOK
<1>10. Filed'
  BY <1>1, <1>2, <1>3, <1>4, <1>5, <1>6, PasscodesAssumption DEF PasscodesInv, Filed, About
<1>11. Marked'
  BY <1>1, <1>3, <1>4, <1>7, PasscodesAssumption DEF PasscodesInv, PasscodesTypeOK, Marked
<1>12. Found' /\ Unused'
  BY <1>2, <1>3, <1>4, <1>6 DEF PasscodesInv, Found, Unused, About, Alone
<1>13. Counted' /\ UsedOnce' /\ GuessesAreLimited'
  BY <1>3, <1>4, <1>5, <1>7, PasscodesAssumption
  DEF PasscodesInv, PasscodesTypeOK, Counted, UsedOnce, GuessesAreLimited, Undisturbed
<1>14. OnePasscode'
  <2> SUFFICES ASSUME NEW e \in Devices, e \notin overlapped
               PROVE  /\ \A j, k \in Ids : /\ passcodes'[j] # NoRow /\ passcodes'[j].device = e
                                           /\ passcodes'[k] # NoRow /\ passcodes'[k].device = e
                                           => j = k
                      /\ \A q \in Requests :
                           request'[q] # Idle /\ request'[q].op = "insert" /\ request'[q].device = e
                           => \A j \in Ids : passcodes'[j] # NoRow => passcodes'[j].device # e
    BY <1>4 DEF OnePasscode
  <2>1. CASE e = d
    BY <2>1, <1>2, <1>3, <1>8 DEF Alone
  <2>2. CASE e # d
    BY <2>2, <1>2, <1>3 DEF PasscodesInv, OnePasscode
  <2> QED BY <2>1, <2>2
<1> QED BY <1>2, <1>9, <1>10, <1>11, <1>12, <1>13, <1>14 DEF PasscodesInv

LEMMA SaveAttemptInv ==
  ASSUME PasscodesInv, NEW r \in Requests, SaveAttempt(r)
  PROVE  PasscodesInv'
<1> DEFINE i == request[r].id
           d == request[r].device
           row == request[r].row
<1>1. /\ About(r, "save") /\ i \in Ids /\ d \in Devices /\ row \in Row
      /\ issued[i] = d /\ row.device = d
  BY PendingOps DEF SaveAttempt, AnswerWrong, About, PasscodesInv, PasscodesTypeOK, Filed
<1>2. /\ request' \in [Requests -> Pending \cup {Idle}]
      /\ \A q \in Requests : request'[q] # Idle =>
           /\ q # r /\ request'[q] = request[q]
           /\ request[q].device = d => ~Alone(q)
      /\ OneAtATime'
  BY FinishKeeps DEF SaveAttempt, AnswerWrong
<1>3. /\ passcodes' \in [Ids -> Row \cup {NoRow}]
      /\ passcodes'[i] # row => passcodes[i] = NoRow /\ passcodes'[i] = NoRow
      /\ \A j \in Ids : j # i => passcodes'[j] = passcodes[j]
      /\ UNCHANGED <<issued, expired, accepted, overlapped, affected>>
  BY <1>1 DEF SaveAttempt, AnswerWrong, PasscodesInv, PasscodesTypeOK
<1>4. /\ failures' \in [Ids -> 0..(MaxAttempts + 1)]
      /\ \A j \in Ids : j # i => failures'[j] = failures[j]
      /\ failures[i] <= MaxAttempts => failures'[i] = failures[i] + 1
  BY <1>1, PasscodesAssumption DEF SaveAttempt, AnswerWrong, PasscodesInv, PasscodesTypeOK
<1>5. row.attempts \in 0..MaxAttempts /\ failures[i] \in Nat
  BY <1>1 DEF Row, PasscodesInv, PasscodesTypeOK
<1>6. d \notin overlapped =>
        /\ passcodes[i] # NoRow /\ passcodes'[i] = row
        /\ row.attempts = failures'[i]
        /\ i \notin affected /\ accepted[i] = 0
  <2> SUFFICES ASSUME d \notin overlapped
               PROVE  /\ passcodes[i] # NoRow /\ passcodes'[i] = row
                      /\ row.attempts = failures'[i]
                      /\ i \notin affected /\ accepted[i] = 0
    OBVIOUS
  <2>1. passcodes[i] # NoRow /\ row.attempts = failures[i] + 1
    BY <1>1 DEF PasscodesInv, Found, About, Alone
  <2>2. i \notin affected
    BY <2>1, <1>1 DEF PasscodesInv, Marked
  <2>3. accepted[i] = 0
    BY <2>1, <2>2, <1>1 DEF PasscodesInv, PasscodesTypeOK, UsedOnce, Undisturbed
  <2> QED BY <2>1, <2>2, <2>3, <1>3, <1>4, <1>5, PasscodesAssumption
<1>7. d \in overlapped => i \in affected
  BY <1>1 DEF PasscodesInv, Marked
<1>8. passcodes[i] # NoRow => passcodes[i].device = d
  BY <1>1 DEF PasscodesInv, Filed
<1> HIDE DEF i, d, row
<1>9. PasscodesTypeOK'
  BY <1>2, <1>3, <1>4 DEF PasscodesInv, PasscodesTypeOK
<1>10. Filed'
  BY <1>1, <1>2, <1>3, <1>4, PasscodesAssumption DEF PasscodesInv, Filed, About
<1>11. Marked'
  BY <1>1, <1>3, <1>6, <1>7 DEF PasscodesInv, PasscodesTypeOK, Marked
<1>12. \A q \in Requests : request'[q] # Idle /\ request'[q].op \in {"save", "consume"} /\ Alone(q)
         => request[q].id \in Ids /\ request[q].id # i
  BY <1>1, <1>2, PendingOps DEF About, PasscodesInv, PasscodesTypeOK, Filed
<1>13. Found' /\ Unused'
  BY <1>2, <1>3, <1>4, <1>12 DEF PasscodesInv, Found, Unused, About, Alone
<1>14. Counted' /\ UsedOnce' /\ GuessesAreLimited'
  BY <1>1, <1>3, <1>4, <1>5, <1>6, <1>7
  DEF PasscodesInv, Counted, UsedOnce, GuessesAreLimited, Undisturbed
<1>15. OnePasscode'
  <2> SUFFICES ASSUME NEW e \in Devices, e \notin overlapped
               PROVE  /\ \A j, k \in Ids : /\ passcodes'[j] # NoRow /\ passcodes'[j].device = e
                                           /\ passcodes'[k] # NoRow /\ passcodes'[k].device = e
                                           => j = k
                      /\ \A q \in Requests :
                           request'[q] # Idle /\ request'[q].op = "insert" /\ request'[q].device = e
                           => \A j \in Ids : passcodes'[j] # NoRow => passcodes'[j].device # e
    BY <1>3 DEF OnePasscode
  <2>1. \A j \in Ids : passcodes'[j] # NoRow /\ passcodes'[j].device = e
          => passcodes[j] # NoRow /\ passcodes[j].device = e
    BY <1>1, <1>3, <1>6, <1>8
  <2>2. \A q \in Requests : request'[q] # Idle => request'[q] = request[q]
    BY <1>2
  <2> QED BY <2>1, <2>2 DEF PasscodesInv, OnePasscode
<1> QED BY <1>2, <1>9, <1>10, <1>11, <1>13, <1>14, <1>15 DEF PasscodesInv

LEMMA ConsumePasscodeInv ==
  ASSUME PasscodesInv, NEW r \in Requests, ConsumePasscode(r)
  PROVE  PasscodesInv'
<1> DEFINE i == request[r].id
           d == request[r].device
<1>1. About(r, "consume") /\ i \in Ids /\ d \in Devices /\ issued[i] = d
  BY PendingOps DEF ConsumePasscode, About, PasscodesInv, PasscodesTypeOK, Filed
<1>2. /\ request' \in [Requests -> Pending \cup {Idle}]
      /\ \A q \in Requests : request'[q] # Idle =>
           /\ q # r /\ request'[q] = request[q]
           /\ request[q].device = d => ~Alone(q)
      /\ OneAtATime'
  BY FinishKeeps DEF ConsumePasscode
<1>3. /\ passcodes' \in [Ids -> Row \cup {NoRow}] /\ passcodes'[i] = NoRow
      /\ \A j \in Ids : j # i => passcodes'[j] = passcodes[j]
      /\ UNCHANGED <<issued, expired, failures, overlapped, affected>>
  BY <1>1 DEF ConsumePasscode, PasscodesInv, PasscodesTypeOK
<1>4. /\ accepted' \in [Ids -> 0..2]
      /\ accepted[i] = 0 => accepted'[i] = 1
      /\ \A j \in Ids : j # i => accepted'[j] = accepted[j]
  BY <1>1 DEF ConsumePasscode, PasscodesInv, PasscodesTypeOK
<1>5. i \notin affected => accepted[i] = 0 /\ failures[i] < MaxAttempts
  BY <1>1 DEF PasscodesInv, Unused, Marked, About, Alone
<1>6. \A q \in Requests : request'[q] # Idle /\ request'[q].op \in {"save", "consume"} /\ Alone(q)
        => request[q].id \in Ids /\ request[q].id # i
  BY <1>1, <1>2, PendingOps DEF About, PasscodesInv, PasscodesTypeOK, Filed
<1> HIDE DEF i, d
<1>7. PasscodesTypeOK'
  BY <1>2, <1>3, <1>4 DEF PasscodesInv, PasscodesTypeOK
<1>8. Filed'
  BY <1>1, <1>2, <1>3, <1>4, PasscodesAssumption DEF PasscodesInv, Filed, About
<1>9. Marked'
  BY <1>3 DEF PasscodesInv, PasscodesTypeOK, Marked
<1>10. Found' /\ Unused'
  BY <1>2, <1>3, <1>4, <1>6 DEF PasscodesInv, Found, Unused, About, Alone
<1>11. Counted' /\ UsedOnce' /\ GuessesAreLimited'
  BY <1>3, <1>4, <1>5 DEF PasscodesInv, Counted, UsedOnce, GuessesAreLimited, Undisturbed
<1>12. OnePasscode'
  BY <1>2, <1>3 DEF PasscodesInv, OnePasscode
<1> QED BY <1>2, <1>7, <1>8, <1>9, <1>10, <1>11, <1>12 DEF PasscodesInv

LEMMA RestartInv ==
  ASSUME PasscodesInv, Restart
  PROVE  PasscodesInv'
<1>1. /\ request' = [r \in Requests |-> Idle]
      /\ UNCHANGED <<passcodes, issued, expired, accepted, failures, overlapped, affected>>
  BY DEF Restart
<1>2. PasscodesTypeOK'
  BY <1>1 DEF PasscodesInv, PasscodesTypeOK
<1>3. Filed' /\ Marked' /\ OneAtATime' /\ Found' /\ Unused'
  BY <1>1 DEF PasscodesInv, Filed, Marked, OneAtATime, Found, Unused, About
<1>4. Counted' /\ UsedOnce' /\ GuessesAreLimited' /\ OnePasscode'
  BY <1>1 DEF PasscodesInv, Counted, UsedOnce, GuessesAreLimited, OnePasscode, Undisturbed
<1> QED BY <1>2, <1>3, <1>4 DEF PasscodesInv

LEMMA ExpireInv ==
  ASSUME PasscodesInv, NEW i \in Ids, Expire(i)
  PROVE  PasscodesInv'
<1>1. expired' \subseteq Ids
      /\ UNCHANGED <<passcodes, issued, request, accepted, failures, overlapped, affected>>
  BY DEF Expire, PasscodesInv, PasscodesTypeOK
<1>2. PasscodesTypeOK' /\ Filed' /\ Marked' /\ OneAtATime' /\ Found'
  BY <1>1 DEF PasscodesInv, PasscodesTypeOK, Filed, Marked, OneAtATime, Found, About, Alone
<1>3. Unused' /\ Counted' /\ UsedOnce' /\ GuessesAreLimited' /\ OnePasscode'
  BY <1>1
  DEF PasscodesInv, Unused, Counted, UsedOnce, GuessesAreLimited, OnePasscode, About, Alone,
      Undisturbed
<1> QED BY <1>2, <1>3 DEF PasscodesInv

LEMMA StutterInv ==
  ASSUME PasscodesInv, UNCHANGED vars
  PROVE  PasscodesInv'
<1>1. PasscodesTypeOK' /\ Filed' /\ Marked' /\ OneAtATime' /\ Found'
  BY DEF vars, PasscodesInv, PasscodesTypeOK, Filed, Marked, OneAtATime, Found, About, Alone
<1>2. Unused' /\ Counted' /\ UsedOnce' /\ GuessesAreLimited' /\ OnePasscode'
  BY DEF vars, PasscodesInv, Unused, Counted, UsedOnce, GuessesAreLimited, OnePasscode, About,
     Alone, Undisturbed
<1> QED BY <1>1, <1>2 DEF PasscodesInv

(* The invariant: what the requests in flight found is still so, unless     *)
(* they met another at their device.                                        *)
THEOREM PasscodesInvariance == Spec => []PasscodesInv
<1>1. ASSUME PasscodesInv, Next PROVE PasscodesInv'
  <2>1. CASE \E r \in Requests, d \in Devices, c \in Codes : GeneratePasscode(r, d, c)
    BY <2>1, <1>1, GeneratePasscodeInv
  <2>2. CASE \E r \in Requests, d \in Devices, c \in Codes, i \in Ids : VerifyWrong(r, d, c, i)
    BY <2>2, <1>1, VerifyWrongInv
  <2>3. CASE \E r \in Requests, d \in Devices, c \in Codes, i \in Ids : VerifyRight(r, d, c, i)
    BY <2>3, <1>1, BeginConsumeInv DEF VerifyRight
  <2>4. CASE \E r \in Requests, c \in Codes, i \in Ids : ResolvePasscode(r, c, i)
    BY <2>4, <1>1, BeginConsumeInv DEF ResolvePasscode
  <2>5. CASE \E r \in Requests, i \in Ids : InsertPasscode(r, i)
    BY <2>5, <1>1, InsertPasscodeInv
  <2>6. CASE \E r \in Requests : SaveAttempt(r)
    BY <2>6, <1>1, SaveAttemptInv
  <2>7. CASE \E r \in Requests : ConsumePasscode(r)
    BY <2>7, <1>1, ConsumePasscodeInv
  <2>8. CASE \E i \in Ids : Expire(i)
    BY <2>8, <1>1, ExpireInv
  <2>9. CASE Restart
    BY <2>9, <1>1, RestartInv
  <2>10. CASE (\E d \in Devices : VerifyRefused(d)) \/ (\E c \in Codes : ResolveRefused(c))
    BY <2>10, <1>1, StutterInv DEF VerifyRefused, ResolveRefused
  <2> QED BY <2>1, <2>2, <2>3, <2>4, <2>5, <2>6, <2>7, <2>8, <2>9, <2>10, <1>1 DEF Next
<1> QED BY InitInv, <1>1, StutterInv, PTL DEF Spec

(* Every row and every pending write of auth.service.ts is well formed: no  *)
(* count of attempts passes the limit.                                      *)
THEOREM PasscodesTyping == Spec => []PasscodesTypeOK
BY PasscodesInvariance, PTL DEF PasscodesInv

(* verifyPasscode and resolvePasscode let one request in with a passcode,   *)
(* if no two requests meet at its device while it is there.                 *)
THEOREM PasscodeIsUsedOnce == Spec => []UsedOnce
BY PasscodesInvariance, PTL DEF PasscodesInv

(* verifyPasscode answers as many wrong guesses at a passcode as the limit  *)
(* allows, over restarts too, and nobody gets in with it after that, if no  *)
(* two requests meet at its device while it is there.  It says nothing of   *)
(* the guesses at resolvePasscode, which are not limited.                   *)
THEOREM WrongAnswersAreLimited == Spec => []GuessesAreLimited
BY PasscodesInvariance, PTL DEF PasscodesInv

(* generatePasscode leaves a device with one passcode: always, until two    *)
(* requests about it meet, and again from its next lone call on.            *)
THEOREM DeviceHasOnePasscode == Spec => []OnePasscode
BY PasscodesInvariance, PTL DEF PasscodesInv
=============================================================================
