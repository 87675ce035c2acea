------------------------------ MODULE MCExtract ------------------------------
(***************************************************************************)
(* Bodies of twelve bytes with up to three members at any of four starts,  *)
(* sorted or not, on top of each other or apart, as W3 files and as W4     *)
(* bodies cut out at 5; names that clash only once they are cleaned or     *)
(* numbered; words of six bits, so that a wrong base wraps.                *)
(***************************************************************************)
EXTENDS Extract

MCFiles ==
  LET tables(base) ==
        LET entry == [stem : {"A", "MEMBER2"}, file_offset : {base, base + 4, base + 9}, size : {3}]
                     \cup [stem : {""}, file_offset : {base + 4, base + 10}, size : {0}]
                     \cup {[stem |-> "B", file_offset |-> base + 13, size |-> 0],
                           [stem |-> "B", file_offset |-> base - 1, size |-> 3],
                           [stem |-> "B", file_offset |-> base, size |-> WordSize - 1]}
        IN UNION {[1 .. n -> entry] : n \in 0 .. 2}
             \cup {<<[stem |-> "A", file_offset |-> base + 4, size |-> 3], e, f>> :
                     e \in entry, f \in [stem : {"C"}, file_offset : {base, base + 8}, size : {4}]}
      head(base) == [p \in 0 .. 12 |-> [le |-> p # 9, data_pages |-> p + base + 3,
                                        non_resident_names |-> 1]]
      file_(kind, at, base, header, table) ==
        [kind |-> kind, at |-> at, header |-> header, len |-> 12,
         members |-> table, image |-> head(base)]
  IN {file_("w3", 1, 0, "ok", t) : t \in tables(1)}
       \cup {file_("w4", 5, 5, "ok", t) : t \in tables(5)}
       \cup {file_("w4", 5, 5, h, <<>>) : h \in HeaderErrors}
       \cup {file_("none", 0, 0, "ok", <<>>)}

MCNumbered == <<"MEMBER1", "MEMBER2", "MEMBER3">>
MCModes == {[raw |-> TRUE, prefix |-> 0], [raw |-> FALSE, prefix |-> 0],
            [raw |-> FALSE, prefix |-> 2]}
MCPicks == {<<>>, <<2>>, <<1, 1>>, <<3, 1>>}
=============================================================================
