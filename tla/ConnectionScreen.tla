-------------------------- MODULE ConnectionScreen --------------------------
(***************************************************************************)
(* The screen of the web client where a device is asked for:               *)
(* ConnectionScreen.tsx and the state App.tsx keeps for it.  The server    *)
(* and the other device answer a request, or never do.                     *)
(*                                                                         *)
(* Bounds: edits are at the end of the text, and a paste replaces an empty *)
(* one.  asked, pasted, buffer and recalled are not in the code.           *)
(***************************************************************************)
EXTENDS DeviceId

CONSTANTS
  Issued,       \* ids that devices show, without separators
  Recent,       \* RECENT_CONNECTIONS
  MaxRequests   \* bound: requests that wait for an answer

VARIABLES
  remoteId,         \* the text of the field
  localError, connectionError, isConnecting,
  requests,         \* requests that are not answered
  asked,            \* the device of the last one while isConnecting, or NoId
  pasted,           \* <<raw, text>>: the text just pasted and the id it spells, or <<>>
  buffer,           \* characters typed and not deleted, as far as there is room
  recalled          \* a recent connection was picked while isConnecting

errors == <<localError, connectionError>>
history == <<pasted, buffer, recalled>>
vars == <<remoteId, errors, isConnecting, requests, asked, history>>

ASSUME ScreenAssumption ==
  /\ Issued \subseteq [1..DEVICE_ID_LENGTH -> FieldChars]
  /\ \A id \in Recent : id \in Seq(Chars) /\ id = Reformatted(id) /\ Len(id) = 13
  /\ MaxRequests \in Nat

(* The field shows nothing or part of an id, in groups; the flags are flags. *)
ScreenTypeOK ==
  /\ remoteId = Reformatted(remoteId) /\ Len(remoteId) <= 13
  /\ localError \in BOOLEAN /\ connectionError \in BOOLEAN
  /\ isConnecting \in BOOLEAN /\ recalled \in BOOLEAN
  /\ requests \in 0..MaxRequests
  /\ asked # NoId <=> isConnecting
  /\ asked # NoId => Len(asked) = 13

Init ==
  /\ remoteId = <<>>
  /\ localError = FALSE /\ connectionError = FALSE
  /\ isConnecting = FALSE /\ requests = 0 /\ asked = NoId
  /\ pasted = <<>> /\ buffer = <<>> /\ recalled = FALSE

-----------------------------------------------------------------------------
(* handleInputChange; the input is disabled while connecting, and takes at   *)
(* most 14 characters.                                                       *)

HandleInputChange(text) ==
  /\ Len(text) <= 14
  /\ remoteId' = Reformatted(text)
  /\ localError' = FALSE
  /\ UNCHANGED <<connectionError, isConnecting, requests, asked, recalled>>

Room == Len(buffer) < FIELD_LENGTH

Type(c) ==
  /\ ~isConnecting
  /\ HandleInputChange(Append(remoteId, c))
  /\ buffer' = IF c \in FieldChars /\ Room THEN Append(buffer, c) ELSE buffer
  /\ pasted' = <<>>

(* a slip: the input is not disabled *)
BackspaceAnyTime ==
  /\ remoteId # <<>>
  /\ HandleInputChange(Front(remoteId))
  /\ buffer' = Front(buffer)
  /\ pasted' = <<>>

Backspace ==
  /\ ~isConnecting /\ remoteId # <<>>
  /\ HandleInputChange(Front(remoteId))
  /\ buffer' = Front(buffer)
  /\ pasted' = <<>>

Paste(raw, text) ==
  /\ ~isConnecting /\ remoteId = <<>>
  /\ HandleInputChange(text)
  /\ buffer' = Entered(remoteId')
  /\ pasted' = <<raw, text>>

-----------------------------------------------------------------------------
(* remoteId.length < 13 *)
TooShort == Len(remoteId) < 13

(* a slip: the length is not checked *)
HandleConnectAnyway ==
  /\ localError' = FALSE /\ connectionError' = FALSE
  /\ isConnecting' = TRUE /\ asked' = remoteId
  /\ requests < MaxRequests /\ requests' = requests + 1

(* a slip: the error of the last try stays *)
HandleConnectKeepingError ==
  \/ /\ TooShort
     /\ localError' = TRUE
     /\ UNCHANGED <<connectionError, isConnecting, requests, asked>>
  \/ /\ ~TooShort
     /\ localError' = FALSE
     /\ isConnecting' = TRUE /\ asked' = remoteId
     /\ requests < MaxRequests /\ requests' = requests + 1
     /\ UNCHANGED connectionError

(* handleConnect with the id of the last render, and handleConnect of App    *)
HandleConnect ==
  \/ /\ TooShort
     /\ localError' = TRUE
     /\ UNCHANGED <<connectionError, isConnecting, requests, asked>>
  \/ /\ ~TooShort
     /\ localError' = FALSE /\ connectionError' = FALSE
     /\ isConnecting' = TRUE /\ asked' = remoteId
     /\ requests < MaxRequests /\ requests' = requests + 1

(* Enter in the field, or the button, which is disabled for a short id       *)
Submit ==
  /\ ~isConnecting
  /\ HandleConnect
  /\ UNCHANGED <<remoteId, history>>

(* The list of recent connections is never disabled, and handleConnect has   *)
(* the id the field showed before the click.                                 *)
HandleRecentClick(id) ==
  /\ remoteId' = id
  /\ HandleConnect
  /\ buffer' = Entered(id) /\ pasted' = <<>>
  /\ recalled' = isConnecting'

(* connection:rejected, of whichever request *)
Rejected ==
  /\ requests > 0 /\ requests' = requests - 1
  /\ isConnecting' = FALSE /\ asked' = NoId
  /\ connectionError' = TRUE
  /\ recalled' = FALSE
  /\ UNCHANGED <<remoteId, localError, pasted, buffer>>

(* connection:accepted or connection:request:forward: the session is shown,  *)
(* and handleDisconnect reloads the page at its end.                         *)
SessionShown ==
  /\ remoteId' = <<>>
  /\ localError' = FALSE /\ connectionError' = FALSE
  /\ isConnecting' = FALSE /\ requests' = 0 /\ asked' = NoId
  /\ pasted' = <<>> /\ buffer' = <<>> /\ recalled' = FALSE

Next ==
  \/ \E c \in Chars : Type(c)
  \/ Backspace
  \/ \E raw \in Issued : \E text \in Spellings(raw) : Paste(raw, text)
  \/ Submit
  \/ \E id \in Recent : HandleRecentClick(id)
  \/ Rejected
  \/ SessionShown

Spec == Init /\ [][Next]_vars

-----------------------------------------------------------------------------
(* Properties *)

(* The field behaves as a buffer of eight characters: whatever is typed into *)
(* a text that already has a prefix and dashes, each character of the        *)
(* charset is added once, each other one not at all, and backspace takes one *)
(* back, also over a dash (ConnectionScreen.tsx:34-45).                      *)
FieldIsBuffer == remoteId = ShownAs(buffer)

OfCharset(raw) == ToSet(raw) \subseteq Charset

(* However an id of the common charset is spelled, the field shows the same  *)
(* and normalizeDeviceId finds it; with L, which the charset of App.tsx has, *)
(* it would not (ConnectionScreen.tsx:35-38, device-id.ts:49-67).            *)
SpellingsAreOne ==
  pasted # <<>> /\ OfCharset(pasted[1])
    => /\ remoteId = Reformatted(FormatId(pasted[1]))
       /\ NormalizeDeviceId(pasted[2]) = FormatId(pasted[1])

(* While a request is out no error is shown, although the two errors belong  *)
(* to two components and typing clears only one; and the device that is      *)
(* asked for is the one in the field, unless a recent one was picked         *)
(* meanwhile (App.tsx:74-75, ConnectionScreen.tsx:48-57, 69-72, 144).        *)
AskedIsShown ==
  isConnecting => /\ ~localError /\ ~connectionError
                  /\ ~recalled => asked = remoteId
=============================================================================
