---------------------------- MODULE MCFsChecker -----------------------------
(* Small instances of FsChecker for TLC: eight blocks (boot, super, inodes,
   bitmap, data from block 4), one direct address and two indirect ones. *)
EXTENDS FsChecker, TLC

E(nm, m) == [name |-> nm, inum |-> m]
Dir(es) == [kind |-> "dir",
            entries |-> [k \in 1 .. DPB |-> IF k <= Len(es) THEN es[k] ELSE NoEntry]]
Ind(ps) == [kind |-> "indirect", ptrs |-> ps]

(* inodes: <<type, nlink, addrs>> from inode 1 on; blocks: from block 4 on *)
Image(inodes, blocks) ==
    [type |-> [i \in Inum |-> IF i \in DOMAIN inodes THEN inodes[i][1] ELSE "UNALLOC"],
     nlink |-> [i \in Inum |-> IF i \in DOMAIN inodes THEN inodes[i][2] ELSE 0],
     addrs |-> [i \in Inum |-> IF i \in DOMAIN inodes THEN inodes[i][3] ELSE <<0, 0>>],
     content |-> [b \in DataBlock |->
                    IF b - BMAPSTART \in DOMAIN blocks THEN blocks[b - BMAPSTART]
                                                       ELSE [kind |-> "data"]],
     bitmap |-> 0 .. BMAPSTART + Len(blocks)]

MCImages ==
    { \* a file and a device in the root
      Image(<< <<"DIR", 1, <<4, 0>> >>, <<"FILE", 1, <<5, 0>> >>, <<"DEV", 1, <<0, 0>> >> >>,
            << Dir(<<E(".", 1), E("..", 1), E("a", 2), E("b", 3)>>), [kind |-> "data"] >>),
      \* a file with two names and an indirect block
      Image(<< <<"DIR", 1, <<4, 0>> >>, <<"FILE", 2, <<5, 6>> >> >>,
            << Dir(<<E(".", 1), E("..", 1), E("a", 2), E("b", 2)>>), [kind |-> "data"],
               Ind(<<7, 0>>), [kind |-> "data"] >>),
      \* a root that goes on in an indirect block
      Image(<< <<"DIR", 1, <<4, 5>> >>, <<"FILE", 1, <<0, 0>> >> >>,
            << Dir(<<E(".", 1), E("..", 1)>>), Ind(<<6, 0>>), Dir(<<E("a", 2)>>) >>),
      \* a file in a subdirectory
      Image(<< <<"DIR", 1, <<4, 0>> >>, <<"DIR", 1, <<5, 0>> >>, <<"FILE", 1, <<6, 0>> >> >>,
            << Dir(<<E(".", 1), E("..", 1), E("a", 2)>>),
               Dir(<<E(".", 2), E("..", 1), E("b", 3)>>), [kind |-> "data"] >>) }
=============================================================================
