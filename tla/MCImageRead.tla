---------------------------- MODULE MCImageRead ----------------------------
(* Sectors of six bytes: one of header, one of subheader, three of data    *)
(* and an error code of two bytes (mode 1) or one (mode 2).  The largest   *)
(* read has more bytes than any of the images have up to the leadout's     *)
(* entry, so that it goes on into the empty sectors there.                 *)
EXTENDS ImageRead

MCTrack(format, start, count, blocksize, datastart, datasize) ==
  [format |-> format, start |-> start, sec_count |-> count, blocksize |-> blocksize,
   datastart |-> datastart, datasize |-> datasize,
   endsize |-> blocksize - datastart - datasize]
Mode1(start, count) == MCTrack("DATA", start, count, 6, 1, 3)
Mode2(start, count) == MCTrack("XA", start, count, 6, 2, 3)
Audio(start, count) == MCTrack("AUDIO", start, count, 6, 0, 6)
Empty(start, count) == [MCTrack("XA", start, count, 3, 0, 0) EXCEPT !.endsize = 0]
Image(ts, size) == [tracks |-> ts, size |-> size]

MCLsns == -1 .. 6

(* Tracks of one layout, and of several.  A track that is shorter than the *)
(* pre-gap keeps all its sectors in sec_count; of the longer ones the      *)
(* first has four sectors and counts one.  The last image begins with a    *)
(* sector before its first track.                                          *)
OneLayout == {Image(<<Mode1(0, 3)>>, 18), Image(<<Mode2(0, 2)>>, 12),
              Image(<<Mode1(0, 1), Mode1(1, 2)>>, 18)}
Layouts == {Image(<<Mode1(0, 2), Audio(2, 1), Mode2(3, 2)>>, 30)}
Uncounted == {Image(<<[Mode1(0, 4) EXCEPT !.sec_count = 1], Mode1(4, 1)>>, 30),
              Image(<<Mode2(1, 2)>>, 18)}
(* MODE2/2048 tracks, whose layout parse_cuefile leaves at 0: alone,       *)
(* before a track of data, where the read goes on to it, and after one.    *)
Emptied == {Image(<<Empty(0, 2)>>, 12), Image(<<Empty(0, 1), Mode1(1, 2)>>, 18),
            Image(<<Mode1(0, 2), Empty(2, 1)>>, 18)}
MCImages == OneLayout \cup Layouts \cup Uncounted \cup Emptied
=============================================================================
