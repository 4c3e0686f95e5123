------------------------------- MODULE MCNfs -------------------------------
(* The two layers of nfs for TLC.  A behaviour is one of NfsInode (the     *)
(* data of files) or one of NfsNames (directories and inodes), which       *)
(* layer is chosen in the initial state.                                   *)
(*                                                                         *)
(* With blocks of three words and one direct block, words 3 to 8 of a file *)
(* belong to the first address block and words 9 to 14 to the second one.  *)
(* "a" begins "ab"; the two share a bucket, or "a" and the root do.         *)
EXTENDS NfsInode, NfsNames

MCFiles == {1, 2}
MCStarts == <<{0, 8, 9, 10}, {0, 9}>>
MCLengths == {1, 5}

MCNames == {"a", "ab"}
MCBuckets ==
    {[n \in {"", "a", "ab"} |-> IF n = "" THEN 0 ELSE 1],
     [n \in {"", "a", "ab"} |-> IF n = "ab" THEN 1 ELSE 0]}
MCBegins == {p \in {"", "a", "ab"} \X {"", "a", "ab"} :
               p[1] = "" \/ p[1] = p[2] \/ p = <<"a", "ab">>}

VARIABLE layer

NfsInit ==
    /\ Init /\ NamesInit
    /\ layer \in {"data", "names"}
    /\ layer = "data" => bucket = CHOOSE b \in Buckets : TRUE

NfsNext ==
    /\ UNCHANGED layer
    /\ \/ layer = "data" /\ Next /\ UNCHANGED namesVars
       \/ layer = "names" /\ NamesNext /\ UNCHANGED vars

NfsSpec == NfsInit /\ [][NfsNext]_<<vars, namesVars, layer>>
====
