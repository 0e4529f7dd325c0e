----------------------------- MODULE MCFileOpen -----------------------------
(* Disks of two directories, each with one of the oddities a FAT16 disk may   *)
(* have, and paths of one and two parts, well-formed or not.                  *)
EXTENDS FileOpen, TLC

CONSTANTS f, g, d

MCFilesize == f :> 3 @@ g :> 1
MCLower == [w \in {"a", "b", "d", "A", "txt", ".", "x"} |-> IF w = "A" THEN "a" ELSE w]

Text(names) == <<"0", ":", "/">> \o names
MCPaths ==
    { Text(<<"A", ".", "txt">>), Text(<<"b">>), Text(<<"x">>),
      Text(<<"d">>), Text(<<"d", "/", "a">>), Text(<<"d", "/", "x">>), Text(<<"d", "/", "/", "b">>),
      Text(<<"b", "/", "a">>), Text(<<"x", "/", "a">>),
      Text(<<>>), Text(<<"d", "/", "d", "/", "a">>), Text(<<"d", "/", "d", "/", "d", "/", "a">>),
      <<"1", ":", "/", "b">>, <<"a", ":", "/", "b">>, <<"0", ":">> }

File(name, ext, i) == [filename |-> name, ext |-> ext, kind |-> "file", item |-> i]
Dir(name) == [filename |-> name, ext |-> <<" ">>, kind |-> "directory", item |-> d]
Gone == [filename |-> <<"x">>, ext |-> <<" ">>, kind |-> "deleted", item |-> f]
Disk(size, root, sub) ==
    LET n == Cardinality({k \in DOMAIN sub : sub[k].kind # "deleted"})
    IN  [mounted |-> TRUE, root_dir_entries |-> size, cluster_entries |-> 2,
         entries |-> Root :> root @@ d :> sub,
         loaded |-> d :> SubSeq(sub, 1, n), refused |-> {}]

tidy == Disk(4, <<File(<<"a", " ">>, <<"txt">>, f), Dir(<<"d">>), File(<<"b">>, <<" ">>, g)>>, <<File(<<"a">>, <<" ">>, g)>>)
large == Disk(4, <<Dir(<<"d">>)>>, <<File(<<"a">>, <<" ">>, f), Dir(<<"d">>), File(<<"x">>, <<" ">>, g)>>)
MCVolumes ==
    { tidy,
      [tidy EXCEPT !.mounted = FALSE],
      Disk(4, <<Dir(<<"d">>)>>, <<Gone, Dir(<<"d">>)>>),
      Disk(4, <<Gone, File(<<"b">>, <<" ">>, g), Dir(<<"d">>)>>, <<Gone, File(<<"a">>, <<" ">>, f)>>),
      Disk(4, <<File(<<"b">>, <<" ">>, f), Dir(<<"d">>), File(<<"b">>, <<" ">>, g)>>, <<File(<<"a">>, <<" ">>, f), File(<<"a">>, <<" ">>, g)>>),
      [large EXCEPT !.loaded[d][3] = Dir(<<"d">>)], [large EXCEPT !.refused = {d}],
      Disk(2, <<Dir(<<"d">>), File(<<"b">>, <<" ">>, g), File(<<"x">>, <<" ">>, f)>>, <<File(<<"a">>, <<" ">>, f)>>) }

Symmetry == Permutations(Privates)
=============================================================================
