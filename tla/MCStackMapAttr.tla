--------------------------- MODULE MCStackMapAttr ---------------------------
(* Lists of two frames.  Up to three locals of every mixture, and four of   *)
(* one class, so that a frame can add or drop one more local than the short *)
(* forms can tell; offsets on both sides of the 63 / 64 boundary.           *)
EXTENDS StackMapAttr

MCLocals == UNION {[1..n -> {Top, Object("O"), Object("L")}] : n \in 0..3}
              \cup {[k \in 1..4 |-> Object("O")]}
MCStacks == {<<>>, <<Object("X")>>, <<VT("long"), Top>>}
MCOffsetPairs == {<<0, 64>>, <<63, 128>>, <<64, 65>>}
MCFrameLists ==
  {<<[offset |-> p[1], locals |-> l, stack |-> s],
     [offset |-> p[2], locals |-> m, stack |-> t]>> :
     p \in MCOffsetPairs, l, m \in MCLocals, s, t \in MCStacks}

(* The theorem about ReadsBack is about such lists. *)
ASSUME MCFrameListsAssumption == \A fs \in MCFrameLists : Writable(fs)

=============================================================================
