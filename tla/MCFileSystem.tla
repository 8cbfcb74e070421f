---------------------------- MODULE MCFileSystem ----------------------------
(* Small instances of FileSystem for TLC. *)
EXTENDS FileSystem, TLC

C(op, path) == [op |-> op, path |-> path, relative |-> FALSE, new |-> <<>>]
Rel(op, path) == [op |-> op, path |-> path, relative |-> TRUE, new |-> <<>>]
L(old, new) == [op |-> "link", path |-> old, relative |-> FALSE, new |-> new]

MCPrograms == <<"a">>

MCCalls ==
    {C("creat", <<"a">>), C("creat", <<"d", "a">>), C("mkdir", <<"d">>),
     C("unlink", <<"a">>), C("unlink", <<"d">>), C("unlink", <<"d", "a">>),
     L(<<"a">>, <<"d", "a">>), L(<<"d">>, <<"a">>), L(<<"a">>, <<"a">>), C("chdir", <<"d">>),
     Rel("creat", <<"a">>), C("open", <<"a">>), C("open", <<>>), C("openrd", <<"d">>),
     C("unlink", <<".">>), C("mkdir", <<>>)}

Symmetry == Permutations(Proc)
=============================================================================
