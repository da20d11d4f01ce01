------------------------- MODULE MCConnectionScreen -------------------------
(* Two characters of the common charset, and L, which only the charset of    *)
(* App.tsx has; 0 is in no id.  Ids whose groups repeat, in all combinations *)
(* of three groups, one that begins with the prefix, and one recent device.  *)
EXTENDS ConnectionScreen

MCCharset == {"D", "A"}
MCFieldChars == {"D", "A", "L"}
MCOthers == {"0"}

Groups == {<<"D", "A", "D">>, <<"A", "D", "A">>, <<"D", "D", "A">>, <<"A", "A", "D">>}
MCIssued == {f \o g \o h : f, g, h \in Groups}
            \cup {<<"D", "L", "A", "D", "A", "D", "A", "A", "D">>}
MCRecent == {ShownAs(<<"A", "D", "D", "D", "A", "A", "D", "A">>)}
=============================================================================
