------------------------------ MODULE DeviceId ------------------------------
(***************************************************************************)
(* Device ids: how they are issued (client-ui App.tsx, host-agent App.tsx, *)
(* common/utils/device-id.ts) and how a text that someone typed or pasted  *)
(* is read back (normalizeDeviceId and ConnectionScreen.tsx).              *)
(*                                                                         *)
(* A text is a sequence of characters.  Case is left out: both readers     *)
(* begin with toUpperCase.                                                 *)
(***************************************************************************)
EXTENDS Naturals, Sequences, SequencesExt

CONSTANTS
  Charset,      \* DEVICE_ID_CHARSET: no 0, 1, I, L, O
  FieldChars,   \* the charset of App.tsx and of the field: L as well
  Others        \* characters that are in no id

DEVICE_ID_LENGTH == 9
Chars == FieldChars \cup Others \cup {"-", " "}

ASSUME DeviceIdAssumption ==
  /\ Charset \subseteq FieldChars
  /\ "D" \in Charset /\ "L" \in FieldChars \ Charset
  /\ FieldChars \cap (Others \cup {"-", " "}) = {} /\ "-" \notin Others

Dash == <<"-">>
DL == <<"D", "L">>

(* replace(/[...]/g, ''): kept[i] is what is left of the first i characters  *)
Without(text, chars) ==
  LET kept[i \in 0..Len(text)] ==
        IF i = 0 THEN <<>>
        ELSE IF text[i] \in chars THEN kept[i - 1] ELSE Append(kept[i - 1], text[i])
  IN  kept[Len(text)]

(* slice(i, j) of JavaScript *)
Slice(s, i, j) == SubSeq(s, i + 1, IF j < Len(s) THEN j ELSE Len(s))

(* the groups of an id with s and t between them *)
Grouped(raw, s, t) ==
  Slice(raw, 0, 3) \o (s \o Slice(raw, 3, 6)) \o (t \o Slice(raw, 6, DEVICE_ID_LENGTH))

FormatId(raw) == DL \o Dash \o Grouped(raw, Dash, Dash)

IsValidDeviceId(text) ==
  LET raw == Slice(text, 3, 6) \o Slice(text, 7, 10) \o Slice(text, 11, Len(text))
  IN  /\ Len(raw) = DEVICE_ID_LENGTH /\ ToSet(raw) \subseteq FieldChars
      /\ text = FormatId(raw)

NoId == <<>>

(* a slip: dashes and spaces are cleaned after the prefix was looked for     *)
NormalizePrefixFirst(text) ==
  LET cut == IF IsPrefix(DL \o Dash, text) THEN Slice(text, 3, Len(text)) ELSE text
      raw == Without(cut, {" ", "-"})
  IN  IF Len(raw) = DEVICE_ID_LENGTH /\ ToSet(raw) \subseteq Charset
      THEN FormatId(raw) ELSE NoId

NormalizeDeviceId(text) ==
  LET cleaned == Without(text, {" ", "-"})
      raw == IF IsPrefix(DL, cleaned) THEN Slice(cleaned, 2, Len(cleaned)) ELSE cleaned
  IN  IF /\ Len(raw) = DEVICE_ID_LENGTH
         /\ ToSet(raw) \subseteq Charset
         /\ IsValidDeviceId(FormatId(raw))
      THEN FormatId(raw) ELSE NoId

-----------------------------------------------------------------------------
(* The field of ConnectionScreen *)

FIELD_LENGTH == 8

ShownAs(raw) ==
  IF raw = <<>> THEN <<>>
  ELSE DL \o Dash \o Slice(raw, 0, 3)
       \o (IF Len(raw) > 3 THEN Dash \o Slice(raw, 3, 6) ELSE <<>>)
       \o (IF Len(raw) > 6 THEN Dash \o Slice(raw, 6, FIELD_LENGTH) ELSE <<>>)

(* a slip: the prefix is cut only with its dash *)
CutPrefixWithDash(text) ==
  IF IsPrefix(DL \o Dash, text) THEN Slice(text, 3, Len(text)) ELSE text

(* replace(/^DL-?/, '') *)
CutPrefix(text) ==
  LET rest == Slice(text, 2, Len(text))
  IN  IF ~IsPrefix(DL, text) THEN text
      ELSE IF IsPrefix(Dash, rest) THEN Slice(rest, 1, Len(rest)) ELSE rest

(* a slip: the prefix is cut wherever it stands *)
ReformattedRepeatedly(text) ==
  ShownAs(Without(CutPrefix(CutPrefix(Without(text, Others \cup {" "}))), {"-"}))

(* handleInputChange: what the field shows when its text becomes this        *)
Reformatted(text) ==
  ShownAs(Without(CutPrefix(Without(text, Others \cup {" "})), {"-"}))

(* the characters of a shown id *)
Entered(text) == Without(Slice(text, 3, Len(text)), {"-"})

-----------------------------------------------------------------------------
(* What people do with an id: leave out or replace its separators, leave     *)
(* out its prefix.                                                           *)
Starts == {<<>>, DL, DL \o Dash, DL \o <<" ">>}
Joints == {<<>>, Dash, <<" ">>}
Spellings(raw) ==
  {prefix \o Grouped(raw, s, t) : prefix \in Starts, s \in Joints, t \in Joints}
=============================================================================
