------------------------------- MODULE Lists --------------------------------
(***************************************************************************)
(* The lists the value workers keep in a record or under a key of their    *)
(* own: JSON arrays, newest first, cut at MAX_INDEX_ITEMS.                 *)
(***************************************************************************)
EXTENDS Integers, Sequences, SequencesExt

(* items.filter((item) => item !== value)                                  *)
Without(items, value) ==
  FoldLeft(LAMBDA kept, item : IF item = value THEN kept ELSE Append(kept, item),
           <<>>, items)

(* items.slice(0, most)                                                    *)
Capped(items, most) ==
  SubSeq(items, 1, IF Len(items) < most THEN Len(items) ELSE most)
=============================================================================
