---------------------------- MODULE MCTrackLookup ----------------------------
(* Discs of up to four tracks, whose first track is 1 or as high as the    *)
(* numbering allows; every LSN from before the disc to beyond its leadout. *)
EXTENDS TrackLookup, Sequences, FiniteSets, FiniteSetsExt, SequencesExt

MCLsns == -3 .. 8

Starts == {-2, 0, 1, 3, 4, 7}

(* The tables whose tracks and leadout start at the members of S.          *)
TocFrom(first, S) ==
  LET sorted == SetToSortSeq(S, LAMBDA a, b : a < b)
  IN [first |-> first, tracks |-> Cardinality(S) - 1,
      start |-> [t \in first .. first + Cardinality(S) - 1 |-> sorted[t - first + 1]]]

MCTocs ==
  {TocFrom(first, S) : first \in {1, 96}, S \in UNION {kSubset(k, Starts) : k \in 1 .. 5}}
=============================================================================
