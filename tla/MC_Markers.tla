----------------------------- MODULE MC_Markers -----------------------------
(***************************************************************************)
(* Every marker string of up to six runes over one letter and the         *)
(* parser's punctuation, plus the written form of every one-marker list    *)
(* with a value of up to three runes and every two-marker list with values *)
(* of one rune.  The letter "a" stands for every rune the switch does not  *)
(* single out; the key <<"a">> for a marker name markerTypeFromString      *)
(* accepts, and any other rune sequence for a name it rejects.             *)
(***************************************************************************)
EXTENDS Markers

MCLetters    == {"a"}
MCMarkerKeys == {<<"a">>}

MCSamples ==
  {<<Marker(k, v)>> : k \in MCMarkerKeys, v \in BoundedSeq(Chars, 3)}
  \cup {<<Marker(k1, v1), Marker(k2, v2)>> :
          k1 \in MCMarkerKeys, v1 \in BoundedSeq(Chars, 1),
          k2 \in MCMarkerKeys, v2 \in BoundedSeq(Chars, 1)}

MCTexts == BoundedSeq(Chars, 6) \cup {Render(ms) : ms \in MCSamples}

=============================================================================
