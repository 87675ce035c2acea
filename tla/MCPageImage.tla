----------------------------- MODULE MCPageImage -----------------------------
(***************************************************************************)
(* LE files with pages of eight bytes and LX files with pages of four,     *)
(* over one data area that holds iterated blocks (repeated, ending on a    *)
(* zero count, overrunning the page or the stored bytes, with an empty     *)
(* block) between plain bytes; objects that start at any page, hold none   *)
(* to three, and are shorter and longer than their pages.                  *)
(***************************************************************************)
EXTENDS PageImage

Obj(f, c, v) == [first |-> f, count |-> c, vsize |-> v]

(* Slots of eight bytes: 3 x <<7, 9>>, then nothing; 2 x <<5>> then a      *)
(* block cut short; plain bytes; 9 x <<1, 2, 3, 4>>.                       *)
Data == <<3, 0, 2, 0, 7, 9, 0, 0>> \o <<2, 0, 1, 0, 5, 6, 0, 0>>
          \o <<9, 0, 4, 0, 1, 2, 3, 4>> \o <<1, 0, 0, 0>>

Objects == { <<Obj(1, 2, 12)>>, <<Obj(2, 2, 29), Obj(1, 1, 3)>>,
             <<Obj(3, 0, 5), Obj(2, 1, 8)>>, <<Obj(1, 3, 9)>>, <<Obj(0, 1, 8)>>,
             <<Obj(2, 3, 20)>> }

LeEntries == [slot : 0 .. 4, size : {0}, flags : {0, 1, 3}]
             \cup [slot : {1}, size : {0}, flags : {2, 4}]

LxEntries == [slot : {0, 4}, size : {0, 8}, flags : {0, 1}]
             \cup [slot : {2}, size : {6}, flags : {0, 1, 2, 3, 5}]
             \cup [slot : {8}, size : {12, 13}, flags : {1}]

Plain(lx, ps, unit, last, objects, pages) ==
  [lx |-> lx, page_size |-> ps, unit |-> unit, last_bytes |-> last,
   objects |-> objects, pages |-> pages, cut |-> {}, data |-> Data]

LeFiles == {Plain(FALSE, 8, 1, 6, o, <<a, b, c>>) :
              o \in Objects, a \in LeEntries,
              b \in [slot : {2, 3}, size : {0}, flags : {0, 1}],
              c \in [slot : {1, 3}, size : {0}, flags : {0, 3}]}

LxFiles == {Plain(TRUE, 4, s, 0, o, <<a, b, c>>) :
              s \in {1, 2}, o \in Objects, a, b \in LxEntries,
              c \in [slot : {2}, size : {3}, flags : {0}]}

CutFiles == {[Plain(FALSE, 8, 1, 6, <<Obj(1, 1, 8)>>, <<[slot |-> 1, size |-> 0, flags |-> 0]>>)
                EXCEPT !.cut = c] : c \in {{"objects"}, {"pages"}}}

MCFiles == LeFiles \cup LxFiles \cup CutFiles
=============================================================================
