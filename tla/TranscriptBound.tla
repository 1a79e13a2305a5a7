-------------------------- MODULE TranscriptBound --------------------------
(***************************************************************************)
(* How evidence is cut to its bound before it is written: one string of    *)
(* the transcript (invocations._truncate_text) and the content of the      *)
(* wrapper file (invocations.transcript_wrapper).                          *)
(*                                                                         *)
(* Both cut an encoding of the text at a byte, take bytes off the end      *)
(* until what is left decodes again, and add a visible marker.  A string   *)
(* is cut in its UTF-8 encoding; the content of the wrapper in its ASCII   *)
(* JSON encoding, where a character outside the basic plane is a pair of   *)
(* escapes, of which json.loads decodes the first alone as well.           *)
(*                                                                         *)
(* A text is a sequence of kinds of characters: what tells them apart is   *)
(* how long their two encodings are.                                       *)
(***************************************************************************)
EXTENDS Naturals, Sequences

CONSTANTS
    MaxLength,     \* bound on the characters of a text
    Limits,        \* the bounds in bytes that a text is cut to
    MarkerBytes    \* the length of the marker, a newline and a word, in UTF-8

Encodings == {"string", "wrapper"}

\* In the JSON encoding the newline of the marker takes two bytes.
Marker(e) == IF e = "wrapper" THEN MarkerBytes + 1 ELSE MarkerBytes

\* Bytes around the content of the wrapper: of these only the flag "truncated",
\* written "true" or "false", has not always the same number.
Around(e, flag) == IF e = "string" THEN 0 ELSE IF flag THEN 4 ELSE 5

ASSUME BoundAssumption ==
    /\ MaxLength \in Nat /\ MarkerBytes \in Nat \ {0}
    \* the documented bounds leave room for the marker and the wrapper
    /\ \A l \in Limits : l \in Nat /\ l >= Marker("wrapper") + Around("wrapper", FALSE)

Characters == {"ascii", "quote", "accented", "astral"}
Texts == UNION {[1 .. n -> Characters] : n \in 0 .. MaxLength}

\* What is cut: an encoding, a text, a limit, and whether a string inside the
\* content has been cut before, which sets the flag of the wrapper.
Inputs == {i \in [encoding : Encodings, text : Texts, limit : Limits, flag : BOOLEAN] :
              i.encoding = "string" => ~i.flag}

\* Bytes in UTF-8 and in ASCII JSON: a, \", \u00e9 and \ud83d\ude00.
Width == [string |-> [ascii |-> 1, quote |-> 1, accented |-> 2, astral |-> 4],
          wrapper |-> [ascii |-> 1, quote |-> 2, accented |-> 6, astral |-> 12]]

\* The length of the first n characters, encoded.
Encoded(e, text, n) ==
    LET length[k \in 0 .. n] == IF k = 0 THEN 0 ELSE length[k - 1] + Width[e][text[k]]
    IN  length[n]

Size(i) == Encoded(i.encoding, i.text, Len(i.text))

CharacterEnds(i) == {Encoded(i.encoding, i.text, n) : n \in 0 .. Len(i.text)}

\* Where an encoding can end without the decoder's objecting.
Decodable(i) ==
    CharacterEnds(i) \cup
    {Encoded("wrapper", i.text, n - 1) + 6 :
        n \in {k \in 1 .. Len(i.text) : i.encoding = "wrapper" /\ i.text[k] = "astral"}}

\* Mutant of Room: the marker is not counted.
RoomWithoutMarker(i) == i.limit - Around(i.encoding, i.flag)

\* What is left of the limit next to what is around the text and the marker; the
\* wrapper is measured with the flag as it is before the cut.
Room(i) ==
    LET taken == Around(i.encoding, i.flag) + Marker(i.encoding)
    IN  IF i.limit > taken THEN i.limit - taken ELSE 0

\* The loops: a byte is taken off until the rest decodes, nothing at the latest.
Trimmed(i, n) ==
    LET trim[k \in 0 .. n] == IF k \in Decodable(i) THEN k ELSE trim[k - 1]
    IN  trim[n]

\* How many bytes of the text are kept, whether the marker follows, and the flag
\* "truncated" that is returned.
Cut(i) ==
    IF Around(i.encoding, i.flag) + Size(i) <= i.limit
      THEN [kept |-> Size(i), marked |-> FALSE, flag |-> i.flag]
      ELSE [kept |-> Trimmed(i, Room(i)), marked |-> TRUE, flag |-> TRUE]

-----------------------------------------------------------------------------
(* Properties *)

Written(i, c) ==
    Around(i.encoding, c.flag) + c.kept + (IF c.marked THEN Marker(i.encoding) ELSE 0)

\* What write_transcript (invocations.py:927) and every reader rely on, for every
\* text, bound and encoding.  The record is never longer than its bound, although
\* the flag in it changes after it was measured; of the whole characters that
\* fit next to the marker none is lost; and a reader may take a record without
\* the flag for the whole text, and checks it against the canonical encoding
\* (invocations.py:1117).
CutIsRight ==
    \A i \in Inputs :
        /\ Written(i, Cut(i)) <= i.limit
        /\ Cut(i).marked => \A b \in CharacterEnds(i) : b <= Room(i) => b <= Cut(i).kept
        /\ ~Cut(i).flag => Cut(i).kept = Size(i) /\ ~Cut(i).marked
=============================================================================
