------------------------------- MODULE MCVfs --------------------------------
\* The calls and paths with which TLC checks Vfs.
EXTENDS Vfs

Call(op, path, flags) == [op |-> op, path |-> path, flags |-> flags, path2 |-> <<>>, target |-> <<"b">>]
Call2(op, path, path2, flags) == [Call(op, path, flags) EXCEPT !.path2 = path2]

MCCalls ==
  {Call("open", <<"b", "f">>, {"write", "trunc"}), Call("open", <<"l", "f">>, {"follow", "append"}),
   Call("open", <<"b", "..", "n">>, {"creat", "excl"}), Call("open", <<"b">>, {"write"}),
   Call("open", <<"b", "f">>, {"directory"}), Call("open", <<"n">>, {"creat", "directory"}),
   Call("open", <<"..">>, {"directory"}), Call("open", <<"b", "">>, {"directory"}),
   Call("create", <<"b", "n">>, {}), Call("create", <<"n">>, {}), Call("symlink", <<"b", "m">>, {}),
   Call("unlink", <<"b", "f">>, {}), Call("unlink", <<"b">>, {"removedir"}),
   Call("unlink", <<"b", ".">>, {"removedir"}), Call("stat_put", <<"b", "f">>, {}),
   Call("stat_get", <<"l", "..">>, {"follow"}), Call("stat_get", <<"b", "f", "x">>, {}),
   Call("stat_get", <<"l">>, {"follow"}), Call("readlink", <<"l">>, {}),
   Call2("link", <<"b", "f">>, <<"n">>, {}), Call2("rename", <<"b", "f">>, <<"n">>, {}),
   Call2("rename", <<"b">>, <<"b", "n">>, {}), Call2("rename", <<"n">>, <<"b", "n">>, {})}
\* The second thread may not make directories or links.
MCRights ==
  LET some == {"open", "inherit write", "unlink", "stat", "rename"}
  IN <<some>> @@ 0 :> (some \cup {"create", "symlink", "link"})
MCTargets == {<<"b">>, <<"..">>, <<"/", "s">>, <<"b", "..", ".", "b">>, <<"l">>, <<>>}
=============================================================================
